----------------------- MODULE StoreConnectivityProofs -----------------------
(***************************************************************************)
(* Proofs about StoreConnectivity for every set of receipts, every bound on*)
(* the clock and every setting: the newest receipt decides, a store is LIVE*)
(* only on evidence, and evidence makes it LIVE.                           *)
(***************************************************************************)
EXTENDS StoreConnectivity, TLAPS

Receipts == [state: {"none", "stamped", "committed"}, received: Time \cup {Never},
             drained: BOOLEAN, covered: BOOLEAN, applied: BOOLEAN, live: BOOLEAN]

\* A receipt is stamped, then committed; the row sees it when it is committed.
ReceiptsAdvance ==
    \A b \in Receipt :
        /\ receipt[b].state # "none" => receipt[b].received \in Time
        /\ receipt[b].applied => receipt[b].state = "committed"
        /\ receipt[b].live => receipt[b].applied

\* Without a row nothing has been seen; with one, it is as new as all it has seen
\* and says what one of its newest receipts says.
RowFollows ==
    /\ row = NoRow => Applied = {} /\ newestLive = Never /\ newestBuffered = Never
    /\ row # NoRow =>
        /\ row.heartbeat = row.received
        /\ \A a \in Applied : receipt[a].received <= row.received
        /\ \E b \in Applied : /\ row.received = receipt[b].received
                              /\ row.covered = receipt[b].covered
                              /\ row.drained => receipt[b].drained

\* The throttled last_live_event_at lags by the flush interval at most; buffered
\* evidence is held against the store until a live event of its receipt or a newer
\* one; a row is stored as LIVE only while nothing speaks against it.
Keeps(c, live, buffered) ==
    /\ c.lastLive <= live /\ live <= c.lastLive + Flush
    /\ buffered <= c.received
    /\ c.oldestBuffered = Never => buffered <= c.lastLiveReceived
    /\ c.status = "LIVE" => c.drained /\ c.covered /\ c.oldestBuffered = Never /\ ~c.reconcile

RowKeepsEvidence == row # NoRow => Keeps(row, newestLive, newestBuffered)

\* The one newest receipt, when it is drained and a live event of it has been
\* applied: no buffered event of the same receipt takes that back.
Settled(b) ==
    /\ receipt[b].applied /\ receipt[b].live /\ receipt[b].drained
    /\ \A a \in Receipt \ {b} : receipt[a].applied => receipt[a].received < receipt[b].received

SettledRow ==
    \A b \in Receipt : Settled(b) =>
        /\ row.drained /\ row.oldestBuffered = Never /\ row.lastLive # Never
        /\ row.lastLiveReceived >= receipt[b].received

RowInv == TypeOK /\ ReceiptsAdvance /\ RowFollows /\ RowKeepsEvidence /\ SettledRow

-----------------------------------------------------------------------------
(* Lemmas about the row.                                                    *)

LEMMA TimesAreIntegers ==
    /\ Never = -1 /\ \A t \in Time : t \in Int /\ t >= 0
    /\ \A t \in Time \cup {Never} : t \in Int /\ t >= Never
    /\ MaxTime \in Nat /\ BufferAge \in Nat /\ MaxSkew \in Nat /\ Flush \in Nat
    /\ LiveWindow \in Nat /\ StaleWindow \in Nat
    BY WindowAssumption DEF Time, Never

LEMMA NoRowIsNoRow == NoRow \notin Row /\ NoRow.status = "none"
    BY DEF Row, NoRow

LEMMA LaterIsMaximum ==
    ASSUME NEW a \in Int, NEW b \in Int
    PROVE  /\ Later(a, b) \in {a, b} /\ Later(a, b) >= a /\ Later(a, b) >= b
           /\ a >= b => Later(a, b) = a
           /\ b >= a => Later(a, b) = b
    BY DEF Later

\* The row that a receipt locks.
LEMMA LockedRow ==
    ASSUME RowInv, NEW b \in Receipt, receipt[b].state # "none"
    PROVE  LET locked == Locked(receipt[b]) IN
           /\ receipt[b] \in Receipts /\ receipt[b].received \in Time
           /\ locked \in Row /\ locked.heartbeat = locked.received
           /\ row # NoRow => locked = row
           /\ row = NoRow =>
                /\ locked.received = receipt[b].received
                /\ locked.drained = receipt[b].drained /\ locked.covered = receipt[b].covered
                /\ locked.lastLive = Never /\ locked.lastLiveReceived = Never
                /\ locked.status = "STALE"
<1>1. receipt[b] \in Receipts /\ receipt[b].received \in Time
    BY DEF RowInv, TypeOK, ReceiptsAdvance, Receipts
<1>2. CASE row = NoRow
    BY <1>1, <1>2 DEF Locked, Inserted, Row, Receipts
<1>3. CASE row # NoRow
    BY <1>1, <1>3 DEF Locked, RowInv, TypeOK, RowFollows
<1> QED BY <1>1, <1>2, <1>3

\* Receiving keeps the evidence; the newest receipt decides about the rest.
LEMMA RowWithReceipt ==
    ASSUME NEW c \in Row, c.heartbeat = c.received, NEW r \in Receipts, r.received \in Time
    PROVE  LET next == WithReceipt(c, r) IN
           /\ next \in Row /\ next.heartbeat = next.received
           /\ next.lastLive = c.lastLive /\ next.lastLiveReceived = c.lastLiveReceived
           /\ next.oldestBuffered = c.oldestBuffered /\ next.reconcile = c.reconcile
           /\ IsCurrent(c, r) =>
                /\ next.received = r.received /\ next.drained = r.drained
                /\ next.covered = r.covered
                /\ next.status = IF r.drained /\ r.covered THEN c.status ELSE "STALE"
           /\ ~IsCurrent(c, r) =>
                /\ next.received = c.received /\ next.drained = c.drained
                /\ next.covered = c.covered /\ next.status = c.status
<1> DEFINE alive == [c EXCEPT !.heartbeat = Later(@, r.received)]
           met == [alive EXCEPT !.received = r.received]
           told == [met EXCEPT !.drained = r.drained]
           full == [told EXCEPT !.covered = r.covered]
           next == [full EXCEPT !.status = IF r.drained /\ r.covered THEN @ ELSE "STALE"]
<1>0. c.received \in Time /\ c.heartbeat \in Time
    BY DEF Row
<1>1. Later(c.heartbeat, r.received) \in Time
    BY <1>0 DEF Later
<1>2. /\ alive \in Row /\ alive.heartbeat = Later(c.heartbeat, r.received)
      /\ alive.received = c.received /\ alive.drained = c.drained
      /\ alive.covered = c.covered /\ alive.status = c.status /\ alive.lastLive = c.lastLive
      /\ alive.lastLiveReceived = c.lastLiveReceived
      /\ alive.oldestBuffered = c.oldestBuffered /\ alive.reconcile = c.reconcile
    BY <1>1 DEF Row
<1>3. WithReceipt(c, r) = IF IsCurrent(c, r) THEN next ELSE alive
    BY DEF WithReceipt
<1>4. CASE IsCurrent(c, r)
    <2>1. Later(c.heartbeat, r.received) = r.received
        BY <1>0, <1>4, TimesAreIntegers DEF IsCurrent, Later
    <2>2. met \in Row
        <3> HIDE DEF alive
        <3> QED BY <1>2 DEF Row
    <2>3. told \in Row
        <3> HIDE DEF met
        <3> QED BY <2>2 DEF Row, Receipts
    <2>4. full \in Row
        <3> HIDE DEF told
        <3> QED BY <2>3 DEF Row, Receipts
    <2>5. next \in Row
        <3> HIDE DEF full
        <3> QED BY <2>4 DEF Row
    <2>6. /\ next.heartbeat = r.received /\ next.received = r.received
          /\ next.drained = r.drained /\ next.covered = r.covered
          /\ next.status = IF r.drained /\ r.covered THEN c.status ELSE "STALE"
          /\ next.lastLive = c.lastLive /\ next.lastLiveReceived = c.lastLiveReceived
          /\ next.oldestBuffered = c.oldestBuffered /\ next.reconcile = c.reconcile
        <3> HIDE DEF alive
        <3> QED BY <1>2, <2>1 DEF Row
    <2> HIDE DEF next
    <2> QED BY <1>3, <1>4, <2>5, <2>6
<1>5. CASE ~IsCurrent(c, r)
    <2>1. Later(c.heartbeat, r.received) = c.received
        BY <1>0, <1>5, TimesAreIntegers DEF IsCurrent, Later
    <2> HIDE DEF alive
    <2> QED BY <1>2, <1>3, <1>5, <2>1
<1> QED BY <1>4, <1>5

\* effective_freshness, read as what it takes for LIVE.
LEMMA WhatLiveTakes ==
    ASSUME NEW c \in Row, NEW now \in Time
    PROVE  Freshness(c, now) = "LIVE" <=>
                /\ c.lastLive # Never /\ c.drained /\ c.covered
                /\ c.oldestBuffered = Never /\ ~c.reconcile
                /\ now - c.heartbeat <= LiveWindow /\ now - c.lastLive <= LiveWindow
<1>1. c # NoRow
    BY NoRowIsNoRow
<1>2. /\ c.heartbeat \in Int /\ c.lastLive \in Int /\ now \in Int
      /\ LiveWindow \in Nat /\ StaleWindow \in Nat /\ LiveWindow < StaleWindow
    <2>1. c.heartbeat \in Time /\ c.lastLive \in Time \cup {Never}
        BY DEF Row
    <2> QED BY <2>1, TimesAreIntegers, WindowAssumption
<1>3. ASSUME NEW t \in Int, NEW window \in Nat
      PROVE  Age(t, now) <= window <=> now - t <= window
    BY <1>2, LaterIsMaximum DEF Age, Later
<1> DEFINE within(window) == Age(c.heartbeat, now) <= window /\ Age(c.lastLive, now) <= window
           stale == c.lastLive = Never \/ ~c.drained \/ c.oldestBuffered # Never
                    \/ ~within(StaleWindow)
<1>4. Freshness(c, now) = IF stale THEN "STALE"
                          ELSE IF ~c.reconcile /\ c.covered /\ within(LiveWindow)
                               THEN "LIVE" ELSE "DEGRADED"
    BY <1>1 DEF Freshness
<1>5. within(LiveWindow) <=> now - c.heartbeat <= LiveWindow /\ now - c.lastLive <= LiveWindow
    BY <1>2, <1>3
<1>6. within(StaleWindow) <=> now - c.heartbeat <= StaleWindow /\ now - c.lastLive <= StaleWindow
    BY <1>2, <1>3
<1>7. within(LiveWindow) => within(StaleWindow)
    BY <1>2, <1>5, <1>6
<1> HIDE DEF within
<1> QED BY <1>4, <1>5, <1>7

LEMMA FreshnessIsAStatus ==
    ASSUME NEW c \in Row, NEW now \in Time
    PROVE  Freshness(c, now) \in {"LIVE", "DEGRADED", "STALE"}
    BY NoRowIsNoRow DEF Freshness

\* A buffered event: it counts against the store unless a live event of the same
\* drained receipt, or of a newer one, has been applied.
LEMMA RowWithBuffered ==
    ASSUME NEW c \in Row, NEW r \in Receipts, r.received \in Time, NEW at \in Time
    PROVE  LET next == WithBuffered(c, r, at) IN
           /\ LiveHasResumed(c, r) => next = c
           /\ ~LiveHasResumed(c, r) =>
                /\ next \in Row /\ next.heartbeat = c.heartbeat /\ next.received = c.received
                /\ next.covered = c.covered /\ next.lastLive = c.lastLive
                /\ next.lastLiveReceived = c.lastLiveReceived /\ next.reconcile = c.reconcile
                /\ ~next.drained /\ next.status = "STALE" /\ next.oldestBuffered # Never
<1> DEFINE old == IF c.oldestBuffered = Never \/ at < c.oldestBuffered THEN at
                  ELSE c.oldestBuffered
           held == [c EXCEPT !.oldestBuffered = old]
           open == [held EXCEPT !.drained = FALSE]
           next == [open EXCEPT !.status = "STALE"]
<1>1. old \in Time \cup {Never} /\ old # Never
    BY TimesAreIntegers DEF Row
<1> HIDE DEF old
<1>2. held \in Row /\ held.oldestBuffered = old
    BY <1>1 DEF Row
<1>3. open \in Row
    <2> HIDE DEF held
    <2> QED BY <1>2 DEF Row
<1>4. next \in Row
    <2> HIDE DEF open
    <2> QED BY <1>3 DEF Row
<1>5. /\ next.heartbeat = c.heartbeat /\ next.received = c.received
      /\ next.covered = c.covered /\ next.lastLive = c.lastLive
      /\ next.lastLiveReceived = c.lastLiveReceived /\ next.reconcile = c.reconcile
      /\ next.drained = FALSE /\ next.status = "STALE" /\ next.oldestBuffered = old
    BY DEF Row
<1>6. WithBuffered(c, r, at) = IF LiveHasResumed(c, r) THEN c ELSE next
    BY DEF WithBuffered, old
<1> HIDE DEF next
<1> QED BY <1>1, <1>4, <1>5, <1>6

\* A live event; of the newest receipt, if that is drained, it also clears what was
\* buffered before.
LEMMA RowWithLive ==
    ASSUME NEW c \in Row, NEW r \in Receipts, r.received \in Time, NEW at \in Time,
           NEW isCurrent \in BOOLEAN
    PROVE  LET next == WithLive(c, r, at, isCurrent) IN
           /\ next \in Row /\ next.heartbeat = c.heartbeat /\ next.received = c.received
           /\ next.drained = c.drained /\ next.covered = c.covered
           /\ next.reconcile = c.reconcile
           /\ next.lastLiveReceived = Later(c.lastLiveReceived, r.received)
           /\ next.lastLive = IF c.lastLive = Never \/ at - c.lastLive >= Flush THEN at
                              ELSE c.lastLive
           /\ next.oldestBuffered = IF isCurrent /\ r.drained THEN Never
                                    ELSE c.oldestBuffered
           /\ ~isCurrent => next.status = c.status
           /\ isCurrent /\ next.status = "LIVE" =>
                next.drained /\ next.covered /\ next.oldestBuffered = Never /\ ~next.reconcile
<1> DEFINE last == IF c.lastLive = Never \/ at - c.lastLive >= Flush THEN at ELSE c.lastLive
           met == [c EXCEPT !.lastLiveReceived = Later(@, r.received)]
           seen == [met EXCEPT !.lastLive = last]
           resumed == IF r.drained THEN [seen EXCEPT !.oldestBuffered = Never] ELSE seen
           next == [resumed EXCEPT !.status = Freshness(resumed, r.received)]
<1>1. Later(c.lastLiveReceived, r.received) \in Time \cup {Never}
    BY DEF Later, Row
<1>2. last \in Time \cup {Never}
    BY DEF Row
<1>3. WithLive(c, r, at, isCurrent) = IF isCurrent THEN next ELSE seen
    BY DEF WithLive, WithLiveEvent, Row
<1> HIDE DEF last
<1>4. met \in Row
    BY <1>1 DEF Row
<1>5. seen \in Row
    <2> HIDE DEF met
    <2> QED BY <1>2, <1>4 DEF Row
<1>6. /\ seen.heartbeat = c.heartbeat /\ seen.received = c.received
      /\ seen.drained = c.drained /\ seen.covered = c.covered /\ seen.reconcile = c.reconcile
      /\ seen.lastLiveReceived = Later(c.lastLiveReceived, r.received)
      /\ seen.lastLive = last /\ seen.oldestBuffered = c.oldestBuffered
      /\ seen.status = c.status
    BY DEF Row
<1> HIDE DEF seen
<1>7. /\ resumed \in Row
      /\ resumed.heartbeat = c.heartbeat /\ resumed.received = c.received
      /\ resumed.drained = c.drained /\ resumed.covered = c.covered
      /\ resumed.reconcile = c.reconcile /\ resumed.lastLive = last
      /\ resumed.lastLiveReceived = Later(c.lastLiveReceived, r.received)
      /\ resumed.oldestBuffered = IF r.drained THEN Never ELSE c.oldestBuffered
    BY <1>5, <1>6 DEF Row
<1> HIDE DEF resumed
<1>8. PICK status \in {"LIVE", "DEGRADED", "STALE"} : status = Freshness(resumed, r.received)
    BY <1>7, FreshnessIsAStatus
<1>9. next = [resumed EXCEPT !.status = status]
    BY <1>8
<1>10. /\ next \in Row /\ next.status = status
       /\ next.heartbeat = c.heartbeat /\ next.received = c.received
       /\ next.drained = c.drained /\ next.covered = c.covered
       /\ next.reconcile = c.reconcile /\ next.lastLive = last
       /\ next.lastLiveReceived = Later(c.lastLiveReceived, r.received)
       /\ next.oldestBuffered = IF r.drained THEN Never ELSE c.oldestBuffered
    BY <1>7, <1>9 DEF Row
<1>11. status = "LIVE" => /\ resumed.drained /\ resumed.covered
                          /\ resumed.oldestBuffered = Never /\ ~resumed.reconcile
    BY <1>7, <1>8, WhatLiveTakes
<1> HIDE DEF next
<1> QED BY <1>3, <1>5, <1>6, <1>7, <1>10, <1>11 DEF last

-----------------------------------------------------------------------------
(* Every action preserves RowInv.                                           *)

LEMMA InitRowInv == Init => RowInv
<1> SUFFICES ASSUME Init PROVE RowInv
    OBVIOUS
<1>1. TypeOK
    BY TimesAreIntegers DEF Init, TypeOK, Unsent, Time
<1>2. \A b \in Receipt : ~receipt[b].applied /\ ~receipt[b].live /\ receipt[b].state = "none"
    BY DEF Init, Unsent
<1> QED BY <1>1, <1>2 DEF Init, RowInv, ReceiptsAdvance, RowFollows, RowKeepsEvidence,
                          SettledRow, Settled, Applied

\* What the API and the worker do to a receipt, committing it or one of its
\* observations.
Commits(b) ==
    /\ receipt[b].state # "none" /\ receipt' \in [Receipt -> Receipts]
    /\ \A a \in Receipt \ {b} : receipt'[a] = receipt[a]
    /\ receipt'[b].state = "committed" /\ receipt'[b].received = receipt[b].received
    /\ receipt'[b].drained = receipt[b].drained /\ receipt'[b].covered = receipt[b].covered
    /\ receipt'[b].live \in BOOLEAN

LEMMA CommitsAdvance ==
    ASSUME RowInv, NEW b \in Receipt, Commits(b), receipt'[b].applied
    PROVE  /\ ReceiptsAdvance' /\ Applied' = Applied \cup {b}
           /\ \A a \in Receipt : receipt'[a].received = receipt[a].received
           /\ \A a \in Applied' : receipt[a].received \in Time
    BY DEF RowInv, ReceiptsAdvance, Applied, Commits, TypeOK

\* A row written for a receipt follows the newest of the receipts it has seen.
LEMMA FollowsReceipt ==
    ASSUME RowInv, NEW b \in Receipt, Commits(b), receipt'[b].applied, row' \in Row,
           row'.heartbeat = row'.received,
           LET r == receipt[b]
               locked == Locked(r)
           IN  /\ IsCurrent(locked, r) =>
                    /\ row'.received = r.received /\ row'.covered = r.covered
                    /\ row'.drained => r.drained
               /\ ~IsCurrent(locked, r) =>
                    /\ row'.received = locked.received /\ row'.covered = locked.covered
                    /\ row'.drained = locked.drained
    PROVE  RowFollows'
<1> DEFINE r == receipt[b]
           locked == Locked(r)
<1>1. row' # NoRow
    BY NoRowIsNoRow
<1>2. /\ locked \in Row /\ locked.received \in Int /\ r.received \in Int
      /\ row # NoRow => locked = row
      /\ row = NoRow => locked.received = r.received
    BY LockedRow, TimesAreIntegers DEF Commits, Row
<1>3. /\ Applied' = Applied \cup {b}
      /\ \A a \in Applied' : receipt'[a].received = receipt[a].received
                             /\ receipt[a].received \in Int
    BY CommitsAdvance, TimesAreIntegers DEF Applied
<1>4. CASE IsCurrent(locked, r)
    <2>1. \A a \in Applied : receipt[a].received <= r.received
        BY <1>2, <1>3, <1>4 DEF IsCurrent, RowInv, RowFollows
    <2>2. /\ row'.received = receipt'[b].received /\ row'.covered = receipt'[b].covered
          /\ row'.drained => receipt'[b].drained
        BY <1>4 DEF Commits
    <2> QED BY <1>1, <1>2, <1>3, <1>4, <2>1, <2>2 DEF RowFollows
<1>5. CASE ~IsCurrent(locked, r)
    <2>1. row # NoRow /\ locked = row /\ r.received < row.received
        BY <1>2, <1>5 DEF IsCurrent
    <2>2. PICK c \in Applied : /\ row.received = receipt[c].received
                               /\ row.covered = receipt[c].covered
                               /\ row.drained => receipt[c].drained
        BY <2>1 DEF RowInv, RowFollows
    <2>3. /\ c \in Applied' /\ receipt'[c].received = receipt[c].received
          /\ receipt'[c].covered = receipt[c].covered /\ receipt'[c].drained = receipt[c].drained
        BY <1>3 DEF Commits, Applied
    <2>4. \A a \in Applied' : receipt'[a].received <= row'.received
        BY <1>2, <1>3, <1>5, <2>1 DEF RowInv, RowFollows
    <2> QED BY <1>1, <1>5, <2>1, <2>2, <2>3, <2>4 DEF RowFollows
<1> QED BY <1>4, <1>5

LEMMA LockedRowKeeps ==
    ASSUME RowInv, NEW b \in Receipt, receipt[b].state # "none"
    PROVE  Keeps(WithReceipt(Locked(receipt[b]), receipt[b]), newestLive, newestBuffered)
<1> DEFINE r == receipt[b]
           locked == Locked(r)
           c == WithReceipt(locked, r)
<1>1. /\ locked \in Row /\ locked.heartbeat = locked.received
      /\ r \in Receipts /\ r.received \in Time
      /\ row # NoRow => locked = row
      /\ row = NoRow => /\ locked.lastLive = Never /\ locked.lastLiveReceived = Never
                        /\ locked.status = "STALE"
    BY LockedRow
<1>2. /\ locked.received \in Int /\ r.received \in Int /\ newestLive \in Int
      /\ newestBuffered \in Int /\ newestBuffered >= Never /\ Flush \in Nat /\ Never \in Int
      /\ locked.lastLive \in Int /\ locked.lastLiveReceived \in Int /\ locked.received >= Never
    BY <1>1, TimesAreIntegers DEF Row, RowInv, TypeOK
<1>3. row = NoRow => newestLive = Never /\ newestBuffered = Never
    BY DEF RowInv, RowFollows
<1>4. Keeps(locked, newestLive, newestBuffered)
    <2>1. CASE row = NoRow
        BY <1>1, <1>2, <1>3, <2>1 DEF Keeps
    <2>2. CASE row # NoRow
        BY <1>1, <2>2 DEF RowInv, RowKeepsEvidence
    <2> QED BY <2>1, <2>2
<1> HIDE DEF locked, r
<1>5. /\ c.lastLive = locked.lastLive /\ c.lastLiveReceived = locked.lastLiveReceived
      /\ c.oldestBuffered = locked.oldestBuffered /\ c.reconcile = locked.reconcile
      /\ IsCurrent(locked, r) =>
            /\ c.received = r.received /\ c.drained = r.drained /\ c.covered = r.covered
            /\ c.status = IF r.drained /\ r.covered THEN locked.status ELSE "STALE"
      /\ ~IsCurrent(locked, r) =>
            /\ c.received = locked.received /\ c.drained = locked.drained
            /\ c.covered = locked.covered /\ c.status = locked.status
    BY <1>1, RowWithReceipt
<1> HIDE DEF c
<1>6. IsCurrent(locked, r) => Keeps(c, newestLive, newestBuffered)
    BY <1>2, <1>4, <1>5 DEF Keeps, IsCurrent
<1>7. ~IsCurrent(locked, r) => Keeps(c, newestLive, newestBuffered)
    BY <1>4, <1>5 DEF Keeps
<1>8. Keeps(c, newestLive, newestBuffered)
    BY <1>6, <1>7
<1> QED BY <1>8 DEF c, locked, r

LEMMA NewestIsCurrent ==
    ASSUME RowInv, NEW b \in Receipt, receipt[b].state # "none",
           \A a \in Receipt \ {b} : receipt[a].applied => receipt[a].received < receipt[b].received
    PROVE  IsCurrent(Locked(receipt[b]), receipt[b])
<1>1. receipt[b].received \in Int
    BY LockedRow, TimesAreIntegers
<1>2. CASE row = NoRow
    BY <1>1, <1>2, LockedRow DEF IsCurrent
<1>3. CASE row # NoRow
    <2>1. PICK c \in Applied : row.received = receipt[c].received
        BY <1>3 DEF RowInv, RowFollows
    <2>2. receipt[c].received <= receipt[b].received
        <3>1. CASE c = b
            BY <1>1, <3>1
        <3>2. CASE c # b
            <4>1. receipt[c].applied /\ receipt[c].received \in Int
                BY TimesAreIntegers DEF Applied, RowInv, ReceiptsAdvance
            <4> QED BY <1>1, <3>2, <4>1 DEF Applied
        <3> QED BY <3>1, <3>2
    <2>3. Locked(receipt[b]) = row
        BY <1>3, LockedRow
    <2> QED BY <2>1, <2>2, <2>3 DEF IsCurrent
<1> QED BY <1>2, <1>3

\* What an older receipt brings does not disturb a settled one.
LEMMA SettledElsewhere ==
    ASSUME RowInv, NEW b \in Receipt, Commits(b), receipt'[b].applied,
           NEW x \in Receipt \ {b}, Settled(x)'
    PROVE  /\ row # NoRow /\ ~IsCurrent(Locked(receipt[b]), receipt[b])
           /\ receipt'[x].received = receipt[x].received /\ Settled(x)
<1>1. receipt'[x] = receipt[x] /\ receipt[x].applied
    BY DEF Commits, Settled
<1>2. receipt[x].received \in Int /\ receipt[b].received \in Int
    BY <1>1, TimesAreIntegers DEF RowInv, ReceiptsAdvance, Commits
<1>3. \A a \in Receipt \ {x} : receipt[a].applied => receipt[a].received < receipt[x].received
    <2> SUFFICES ASSUME NEW a \in Receipt \ {x}, receipt[a].applied
                 PROVE  receipt[a].received < receipt[x].received
        OBVIOUS
    <2>1. receipt'[a].applied /\ receipt'[a].received = receipt[a].received
        BY DEF Commits
    <2> QED BY <1>1, <2>1 DEF Settled
<1>4. receipt[b].received < receipt[x].received
    BY <1>1 DEF Settled, Commits
<1>5. row # NoRow /\ receipt[x].received <= row.received
    BY <1>1 DEF RowInv, RowFollows, Applied
<1>6. Locked(receipt[b]) = row /\ row.received \in Int
    BY <1>5, LockedRow, TimesAreIntegers DEF Row, RowInv, TypeOK, Commits
<1>7. ~IsCurrent(Locked(receipt[b]), receipt[b])
    BY <1>2, <1>4, <1>5, <1>6 DEF IsCurrent
<1> QED BY <1>1, <1>3, <1>5, <1>7 DEF Settled

LEMMA StampInv ==
    ASSUME RowInv, NEW b \in Receipt, NEW drained \in BOOLEAN, NEW covered \in BOOLEAN,
           Stamp(b, drained, covered)
    PROVE  RowInv'
<1>1. /\ receipt[b].state = "none"
      /\ UNCHANGED <<row, newestLive, newestBuffered, clock>>
    BY DEF Stamp
<1>2. ~receipt[b].applied /\ ~receipt[b].live
    BY <1>1 DEF RowInv, ReceiptsAdvance, TypeOK
<1>3. PICK next \in Receipts :
        /\ receipt' = [receipt EXCEPT ![b] = next]
        /\ next.state = "stamped" /\ next.received \in Time /\ ~next.applied /\ ~next.live
    <2> DEFINE named == [Unsent EXCEPT !.state = "stamped"]
               timed == [named EXCEPT !.received = clock]
               told == [timed EXCEPT !.drained = drained]
               made == [told EXCEPT !.covered = covered]
    <2>1. clock \in Time
        BY DEF RowInv, TypeOK
    <2>2. named \in Receipts /\ named.state = "stamped" /\ ~named.applied /\ ~named.live
        <3>1. Unsent \in Receipts /\ ~Unsent.applied /\ ~Unsent.live
            BY DEF Unsent, Receipts
        <3> QED BY <3>1 DEF Receipts
    <2> HIDE DEF named
    <2>3. /\ timed \in Receipts /\ timed.state = "stamped" /\ timed.received = clock
          /\ ~timed.applied /\ ~timed.live
        BY <2>1, <2>2 DEF Receipts
    <2> HIDE DEF timed
    <2>4. /\ told \in Receipts /\ told.state = "stamped" /\ told.received = clock
          /\ ~told.applied /\ ~told.live
        BY <2>3 DEF Receipts
    <2> HIDE DEF told
    <2>5. /\ made \in Receipts /\ made.state = "stamped" /\ made.received = clock
          /\ ~made.applied /\ ~made.live
        BY <2>4 DEF Receipts
    <2>6. receipt' = [receipt EXCEPT ![b] = made]
        BY DEF Stamp, made, told, timed, named
    <2> HIDE DEF made
    <2> QED BY <2>1, <2>5, <2>6
<1>4. /\ receipt'[b] = next /\ \A a \in Receipt \ {b} : receipt'[a] = receipt[a]
      /\ receipt' \in [Receipt -> Receipts]
    BY <1>3 DEF RowInv, TypeOK, Receipts
<1>5. TypeOK'
    BY <1>1, <1>4 DEF RowInv, TypeOK, Receipts
<1>6. ReceiptsAdvance'
    BY <1>3, <1>4 DEF RowInv, ReceiptsAdvance
<1>7. Applied' = Applied
    BY <1>2, <1>3, <1>4 DEF Applied
<1>8. b \notin Applied
    BY <1>2 DEF Applied
<1>9. RowFollows'
    <2>1. CASE row = NoRow
        BY <1>1, <1>7, <2>1 DEF RowInv, RowFollows
    <2>2. CASE row # NoRow
        <3>1. \A a \in Applied : receipt'[a] = receipt[a]
            BY <1>4, <1>8 DEF Applied
        <3> QED BY <1>1, <1>7, <2>2, <3>1 DEF RowInv, RowFollows
    <2> QED BY <2>1, <2>2
<1>10. RowKeepsEvidence'
    BY <1>1 DEF RowInv, RowKeepsEvidence, Keeps
<1>11. SettledRow'
    <2> SUFFICES ASSUME NEW x \in Receipt, Settled(x)'
                 PROVE  /\ row'.drained /\ row'.oldestBuffered = Never /\ row'.lastLive # Never
                        /\ row'.lastLiveReceived >= receipt'[x].received
        BY DEF SettledRow
    <2>1. x # b /\ receipt'[x] = receipt[x]
        BY <1>3, <1>4 DEF Settled
    <2>2. Settled(x)
        BY <1>2, <1>4, <2>1 DEF Settled
    <2> QED BY <1>1, <2>1, <2>2 DEF RowInv, SettledRow
<1> QED BY <1>5, <1>6, <1>9, <1>10, <1>11 DEF RowInv

LEMMA AcceptInv ==
    ASSUME RowInv, NEW b \in Receipt, Accept(b)
    PROVE  RowInv'
<1> DEFINE r == receipt[b]
           locked == Locked(r)
           c == WithReceipt(locked, r)
<1>1. /\ r.state = "stamped" /\ row' = c
      /\ UNCHANGED <<newestLive, newestBuffered, clock>>
    BY DEF Accept
<1>2. ~r.live
    BY <1>1 DEF RowInv, ReceiptsAdvance, TypeOK
<1>3. Commits(b) /\ receipt'[b].applied /\ receipt'[b].live = r.live
    <2> DEFINE named == [receipt EXCEPT ![b].state = "committed"]
    <2>1. /\ named \in [Receipt -> Receipts]
          /\ named[b].state = "committed" /\ named[b].received = r.received
          /\ named[b].drained = r.drained /\ named[b].covered = r.covered
          /\ named[b].live = r.live
          /\ \A a \in Receipt \ {b} : named[a] = receipt[a]
        BY DEF RowInv, TypeOK, Receipts
    <2>2. receipt' = [named EXCEPT ![b].applied = TRUE]
        BY DEF Accept, RowInv, TypeOK
    <2> HIDE DEF named
    <2>3. r.live \in BOOLEAN
        BY DEF RowInv, TypeOK
    <2> QED BY <1>1, <2>1, <2>2, <2>3 DEF Commits, Receipts
<1>4. /\ locked \in Row /\ locked.heartbeat = locked.received
      /\ r \in Receipts /\ r.received \in Time
      /\ row # NoRow => locked = row
    BY <1>1, LockedRow
<1>5. /\ c \in Row /\ c.heartbeat = c.received
      /\ c.lastLive = locked.lastLive /\ c.lastLiveReceived = locked.lastLiveReceived
      /\ c.oldestBuffered = locked.oldestBuffered
      /\ IsCurrent(locked, r) =>
            c.received = r.received /\ c.drained = r.drained /\ c.covered = r.covered
      /\ ~IsCurrent(locked, r) =>
            c.received = locked.received /\ c.drained = locked.drained /\ c.covered = locked.covered
    BY <1>4, RowWithReceipt
<1>6. Keeps(c, newestLive, newestBuffered)
    BY <1>1, LockedRowKeeps
<1> HIDE DEF c
<1>7. TypeOK'
    BY <1>1, <1>3, <1>5 DEF RowInv, TypeOK, Commits, Receipts
<1>8. ReceiptsAdvance' /\ RowFollows'
    BY <1>1, <1>3, <1>5, CommitsAdvance, FollowsReceipt
<1>9. RowKeepsEvidence'
    BY <1>1, <1>6 DEF RowKeepsEvidence, Keeps
<1>10. SettledRow'
    <2> SUFFICES ASSUME NEW x \in Receipt, Settled(x)'
                 PROVE  /\ row'.drained /\ row'.oldestBuffered = Never /\ row'.lastLive # Never
                        /\ row'.lastLiveReceived >= receipt'[x].received
        BY DEF SettledRow
    <2>1. x # b
        BY <1>2, <1>3 DEF Settled
    <2>2. /\ row # NoRow /\ ~IsCurrent(locked, r)
          /\ receipt'[x].received = receipt[x].received /\ Settled(x)
        BY <1>3, <2>1, SettledElsewhere
    <2> QED BY <1>1, <1>4, <1>5, <2>2 DEF RowInv, SettledRow
<1> QED BY <1>7, <1>8, <1>9, <1>10 DEF RowInv

LEMMA ElsewhereInv ==
    ASSUME RowInv, NEW b \in Receipt, AcceptElsewhere(b)
    PROVE  RowInv'
<1>1. /\ receipt[b].state = "stamped"
      /\ receipt' = [receipt EXCEPT ![b].state = "committed"]
      /\ UNCHANGED <<row, newestLive, newestBuffered, clock>>
    BY DEF AcceptElsewhere
<1>2. TypeOK'
    BY <1>1 DEF RowInv, TypeOK
<1>3. \A a \in Receipt :
        /\ receipt'[a].received = receipt[a].received /\ receipt'[a].covered = receipt[a].covered
        /\ receipt'[a].drained = receipt[a].drained /\ receipt'[a].live = receipt[a].live
        /\ receipt'[a].applied = receipt[a].applied
        /\ receipt'[a].state = receipt[a].state
           \/ (receipt[a].state = "stamped" /\ receipt'[a].state = "committed")
    BY <1>1 DEF RowInv, TypeOK
<1>4. ReceiptsAdvance'
    BY <1>3 DEF RowInv, ReceiptsAdvance
<1>5. Applied' = Applied
    BY <1>3 DEF Applied
<1>6. RowFollows'
    BY <1>1, <1>3, <1>5 DEF RowInv, RowFollows, Applied
<1>7. RowKeepsEvidence'
    BY <1>1 DEF RowInv, RowKeepsEvidence, Keeps
<1>8. SettledRow'
    <2>1. \A x \in Receipt : Settled(x)' => Settled(x)
        BY <1>3 DEF Settled
    <2> QED BY <1>1, <1>3, <2>1 DEF RowInv, SettledRow
<1> QED BY <1>2, <1>4, <1>6, <1>7, <1>8 DEF RowInv

LEMMA ProcessInv ==
    ASSUME RowInv, NEW b \in Receipt, NEW at \in Time, Process(b, at)
    PROVE  RowInv'
<1> DEFINE r == receipt[b]
           locked == Locked(r)
           c == WithReceipt(locked, r)
           current == IsCurrent(locked, r)
<1>1. /\ r.state = "committed" /\ clock' = clock
      /\ IsBuffered(r, at) =>
            /\ row' = IF current THEN WithBuffered(c, r, at) ELSE c
            /\ newestBuffered' = IF r.received >= locked.received
                                 THEN Later(newestBuffered, r.received) ELSE newestBuffered
            /\ receipt' = [receipt EXCEPT ![b].applied = TRUE]
            /\ newestLive' = newestLive
      /\ ~IsBuffered(r, at) =>
            /\ row' = WithLive(c, r, at, current)
            /\ newestLive' = Later(newestLive, at)
            /\ receipt' = [receipt EXCEPT ![b].applied = TRUE, ![b].live = TRUE]
            /\ newestBuffered' = newestBuffered
    BY DEF Process
<1>2. /\ Commits(b) /\ receipt'[b].applied
      /\ IsBuffered(r, at) => receipt'[b].live = r.live
    <2> DEFINE named == [receipt EXCEPT ![b].applied = TRUE]
    <2>1. /\ named \in [Receipt -> Receipts] /\ named[b].applied
          /\ named[b].state = r.state /\ named[b].received = r.received
          /\ named[b].drained = r.drained /\ named[b].covered = r.covered
          /\ named[b].live = r.live /\ r.live \in BOOLEAN
          /\ \A a \in Receipt \ {b} : named[a] = receipt[a]
        BY DEF RowInv, TypeOK, Receipts
    <2>2. /\ IsBuffered(r, at) => receipt' = named
          /\ ~IsBuffered(r, at) => receipt' = [named EXCEPT ![b].live = TRUE]
        BY <1>1 DEF RowInv, TypeOK
    <2> HIDE DEF named
    <2>3. CASE IsBuffered(r, at)
        BY <1>1, <2>1, <2>2, <2>3 DEF Commits
    <2>4. CASE ~IsBuffered(r, at)
        BY <1>1, <2>1, <2>2, <2>4 DEF Commits, Receipts
    <2> QED BY <2>3, <2>4
<1>3. /\ locked \in Row /\ locked.heartbeat = locked.received
      /\ r \in Receipts /\ r.received \in Time
      /\ row # NoRow => locked = row
    BY <1>1, LockedRow
<1>4. /\ c \in Row /\ c.heartbeat = c.received
      /\ c.lastLive = locked.lastLive /\ c.lastLiveReceived = locked.lastLiveReceived
      /\ c.oldestBuffered = locked.oldestBuffered
      /\ current => c.received = r.received /\ c.drained = r.drained /\ c.covered = r.covered
      /\ ~current =>
            c.received = locked.received /\ c.drained = locked.drained /\ c.covered = locked.covered
    BY <1>3, RowWithReceipt
<1>5. Keeps(c, newestLive, newestBuffered)
    BY <1>1, LockedRowKeeps
<1>6. current \in BOOLEAN /\ (current <=> r.received >= locked.received)
    BY DEF IsCurrent
<1>7. /\ r.received \in Int /\ r.received > Never /\ at \in Int /\ at > Never
      /\ newestLive \in Int /\ newestBuffered \in Int /\ Flush \in Nat
      /\ c.lastLive \in Int /\ c.lastLiveReceived \in Int /\ c.received \in Int
    BY <1>3, <1>4, TimesAreIntegers DEF RowInv, TypeOK, Row
<1>8. ASSUME Settled(b)'
      PROVE  current /\ receipt'[b].received = r.received /\ r.drained
    <2>1. \A a \in Receipt \ {b} : receipt[a].applied => receipt[a].received < r.received
        <3> SUFFICES ASSUME NEW a \in Receipt \ {b}, receipt[a].applied
                     PROVE  receipt[a].received < r.received
            OBVIOUS
        <3>1. receipt'[a] = receipt[a] /\ receipt'[b].received = r.received
            BY <1>2 DEF Commits
        <3> QED BY <1>8, <3>1 DEF Settled
    <2>2. r.state # "none"
        BY <1>1
    <2> QED BY <1>2, <1>8, <2>1, <2>2, NewestIsCurrent DEF Settled, Commits
<1>9. ASSUME NEW x \in Receipt \ {b}, Settled(x)'
      PROVE  /\ row # NoRow /\ ~current /\ receipt'[x].received = receipt[x].received
             /\ c.drained /\ c.oldestBuffered = Never /\ c.lastLive # Never
             /\ c.lastLiveReceived >= receipt[x].received
             /\ receipt[x].received \in Int
    <2>1. /\ row # NoRow /\ ~current
          /\ receipt'[x].received = receipt[x].received /\ Settled(x)
        BY <1>2, <1>9, SettledElsewhere
    <2>2. receipt[x].received \in Int
        BY TimesAreIntegers DEF RowInv, TypeOK
    <2> QED BY <1>3, <1>4, <2>1, <2>2 DEF RowInv, SettledRow
<1> HIDE DEF c
<1>10. CASE IsBuffered(r, at) /\ (~current \/ LiveHasResumed(c, r))
    <2>1. row' = c
        BY <1>1, <1>3, <1>4, <1>10, RowWithBuffered
    <2>2. newestBuffered' = IF current THEN Later(newestBuffered, r.received)
                            ELSE newestBuffered
        BY <1>1, <1>6, <1>10
    <2>3. newestBuffered' \in Time \cup {Never}
        BY <1>3, <2>2 DEF Later, RowInv, TypeOK
    <2>4. TypeOK'
        BY <1>1, <1>2, <1>4, <1>10, <2>1, <2>3 DEF RowInv, TypeOK, Commits, Receipts
    <2>5. ReceiptsAdvance' /\ RowFollows'
        BY <1>2, <1>4, <2>1, CommitsAdvance, FollowsReceipt
    <2>6. Keeps(c, newestLive, newestBuffered')
        BY <1>4, <1>5, <1>7, <1>10, <2>2, LaterIsMaximum DEF Keeps, LiveHasResumed
    <2>7. RowKeepsEvidence'
        BY <1>1, <1>10, <2>1, <2>6 DEF RowKeepsEvidence, Keeps
    <2>8. SettledRow'
        <3>1. ASSUME Settled(b)'
              PROVE  /\ c.drained /\ c.oldestBuffered = Never /\ c.lastLive # Never
                     /\ c.lastLiveReceived >= receipt'[b].received
            <4>1. /\ r.live /\ r.applied /\ r.drained
                  /\ \A a \in Receipt \ {b} : receipt[a].applied => receipt'[a] = receipt[a]
                BY <1>2, <1>8, <1>10, <3>1 DEF Settled, RowInv, ReceiptsAdvance, Commits
            <4>2. Settled(b)
                BY <1>2, <3>1, <4>1 DEF Settled, Commits
            <4>3. row # NoRow
                BY <4>1 DEF RowInv, RowFollows, Applied
            <4> QED BY <1>3, <1>4, <1>8, <3>1, <4>2, <4>3 DEF RowInv, SettledRow, Settled
        <3>2. ASSUME NEW x \in Receipt \ {b}, Settled(x)'
              PROVE  /\ c.drained /\ c.oldestBuffered = Never /\ c.lastLive # Never
                     /\ c.lastLiveReceived >= receipt'[x].received
            BY <1>9, <3>2
        <3> QED BY <2>1, <3>1, <3>2 DEF SettledRow
    <2> QED BY <2>4, <2>5, <2>7, <2>8 DEF RowInv
<1>11. CASE IsBuffered(r, at) /\ current /\ ~LiveHasResumed(c, r)
    <2>1. /\ row' \in Row /\ row'.heartbeat = c.heartbeat /\ row'.received = c.received
          /\ row'.covered = c.covered /\ row'.lastLive = c.lastLive
          /\ row'.lastLiveReceived = c.lastLiveReceived
          /\ ~row'.drained /\ row'.status = "STALE" /\ row'.oldestBuffered # Never
        BY <1>1, <1>3, <1>4, <1>11, RowWithBuffered
    <2>2. newestBuffered' = Later(newestBuffered, r.received)
        BY <1>1, <1>6, <1>11
    <2>3. newestBuffered' \in Time \cup {Never}
        BY <1>3, <2>2 DEF Later, RowInv, TypeOK
    <2>4. TypeOK'
        BY <1>1, <1>2, <1>11, <2>1, <2>3 DEF RowInv, TypeOK, Commits, Receipts
    <2>5. ReceiptsAdvance' /\ RowFollows'
        BY <1>2, <1>4, <1>11, <2>1, CommitsAdvance, FollowsReceipt
    <2>6. RowKeepsEvidence'
        BY <1>1, <1>4, <1>5, <1>7, <1>11, <2>1, <2>2, LaterIsMaximum DEF RowKeepsEvidence, Keeps
    <2>7. ~Settled(b)'
        <3> SUFFICES ASSUME Settled(b)' PROVE FALSE
            OBVIOUS
        <3>1. /\ r.live /\ r.applied /\ r.drained
              /\ \A a \in Receipt \ {b} : receipt[a].applied => receipt'[a] = receipt[a]
            BY <1>2, <1>8, <1>11 DEF Settled, RowInv, ReceiptsAdvance, Commits
        <3>2. Settled(b)
            BY <1>2, <3>1 DEF Settled, Commits
        <3>3. row # NoRow
            BY <3>1 DEF RowInv, RowFollows, Applied
        <3>4. c.lastLiveReceived >= r.received
            BY <1>3, <1>4, <3>2, <3>3 DEF RowInv, SettledRow
        <3> QED BY <1>7, <1>11, <3>1, <3>4 DEF LiveHasResumed
    <2>8. SettledRow'
        BY <1>9, <1>11, <2>7 DEF SettledRow
    <2> QED BY <2>4, <2>5, <2>6, <2>8 DEF RowInv
<1>12. CASE ~IsBuffered(r, at)
    <2>1. /\ row' \in Row /\ row'.heartbeat = c.heartbeat /\ row'.received = c.received
          /\ row'.drained = c.drained /\ row'.covered = c.covered
          /\ row'.reconcile = c.reconcile
          /\ row'.lastLiveReceived = Later(c.lastLiveReceived, r.received)
          /\ row'.lastLive = IF c.lastLive = Never \/ at - c.lastLive >= Flush THEN at
                             ELSE c.lastLive
          /\ row'.oldestBuffered = IF current /\ r.drained THEN Never ELSE c.oldestBuffered
          /\ ~current => row'.status = c.status
          /\ current /\ row'.status = "LIVE" =>
                row'.drained /\ row'.covered /\ row'.oldestBuffered = Never /\ ~row'.reconcile
        BY <1>1, <1>3, <1>4, <1>6, <1>12, RowWithLive
    <2>2. newestLive' = Later(newestLive, at) /\ newestBuffered' = newestBuffered
        BY <1>1, <1>12
    <2>3. newestLive' \in Time \cup {Never}
        BY <2>2 DEF Later, RowInv, TypeOK
    <2>4. TypeOK'
        BY <1>1, <1>2, <2>1, <2>2, <2>3 DEF RowInv, TypeOK, Commits, Receipts
    <2>5. ReceiptsAdvance' /\ RowFollows'
        BY <1>2, <1>4, <2>1, CommitsAdvance, FollowsReceipt
    <2>6. row'.lastLive <= newestLive' /\ newestLive' <= row'.lastLive + Flush
        BY <1>5, <1>7, <2>1, <2>2, LaterIsMaximum DEF Keeps
    <2>7. row'.oldestBuffered = Never => newestBuffered' <= row'.lastLiveReceived
        BY <1>4, <1>5, <1>7, <2>1, <2>2, LaterIsMaximum DEF Keeps
    <2>8. RowKeepsEvidence'
        BY <1>4, <1>5, <2>1, <2>2, <2>6, <2>7 DEF RowKeepsEvidence, Keeps
    <2>9. SettledRow'
        <3>1. ASSUME Settled(b)'
              PROVE  /\ row'.drained /\ row'.oldestBuffered = Never /\ row'.lastLive # Never
                     /\ row'.lastLiveReceived >= receipt'[b].received
            <4>1. current /\ receipt'[b].received = r.received /\ r.drained
                BY <1>8, <3>1
            <4>2. row'.drained /\ row'.oldestBuffered = Never
                BY <1>4, <2>1, <4>1
            <4>3. at # Never
                BY TimesAreIntegers
            <4>4. row'.lastLive # Never
                BY <2>1, <4>3
            <4>5. row'.lastLiveReceived >= r.received
                BY <1>7, <2>1, LaterIsMaximum
            <4> QED BY <4>1, <4>2, <4>4, <4>5
        <3>2. ASSUME NEW x \in Receipt \ {b}, Settled(x)'
              PROVE  /\ row'.drained /\ row'.oldestBuffered = Never /\ row'.lastLive # Never
                     /\ row'.lastLiveReceived >= receipt'[x].received
            <4>1. /\ ~current /\ receipt'[x].received = receipt[x].received
                  /\ c.drained /\ c.oldestBuffered = Never /\ c.lastLive # Never
                  /\ c.lastLiveReceived >= receipt[x].received
                  /\ receipt[x].received \in Int
                BY <1>9, <3>2
            <4> QED BY <1>7, <2>1, <4>1, LaterIsMaximum
        <3> QED BY <3>1, <3>2 DEF SettledRow
    <2> QED BY <2>4, <2>5, <2>8, <2>9 DEF RowInv
<1> QED BY <1>10, <1>11, <1>12

LEMMA OtherInv ==
    ASSUME RowInv, RequireReconciliation \/ Reconciled \/ Tick \/ UNCHANGED vars
    PROVE  RowInv'
<1>1. UNCHANGED <<receipt, newestLive, newestBuffered>>
    BY DEF RequireReconciliation, Reconciled, Tick, vars
<1>2. Applied' = Applied
    BY <1>1 DEF Applied
<1>3. CASE Tick \/ UNCHANGED vars
    <2>1. UNCHANGED row /\ clock' \in Time
        BY <1>3, TimesAreIntegers DEF Tick, vars, RowInv, TypeOK, Time
    <2>2. TypeOK' /\ ReceiptsAdvance'
        BY <1>1, <2>1 DEF RowInv, TypeOK, ReceiptsAdvance
    <2>3. RowFollows' /\ RowKeepsEvidence' /\ SettledRow'
        BY <1>1, <1>2, <2>1 DEF RowInv, RowFollows, RowKeepsEvidence, Keeps, SettledRow, Settled
    <2> QED BY <2>2, <2>3 DEF RowInv
<1>4. CASE RequireReconciliation \/ Reconciled
    <2>1. row \in Row /\ row # NoRow /\ clock' = clock
        BY <1>4 DEF RequireReconciliation, Reconciled, RowInv, TypeOK
    <2>2. /\ row' \in Row /\ row'.heartbeat = row.heartbeat /\ row'.received = row.received
          /\ row'.drained = row.drained /\ row'.covered = row.covered
          /\ row'.lastLive = row.lastLive /\ row'.lastLiveReceived = row.lastLiveReceived
          /\ row'.oldestBuffered = row.oldestBuffered
          /\ row'.status = "LIVE" => row.status = "LIVE" /\ ~row'.reconcile
        <3>1. CASE RequireReconciliation
            <4> DEFINE owed == [row EXCEPT !.reconcile = TRUE]
            <4>1. /\ owed \in Row /\ owed.heartbeat = row.heartbeat
                  /\ owed.received = row.received /\ owed.drained = row.drained
                  /\ owed.covered = row.covered /\ owed.lastLive = row.lastLive
                  /\ owed.lastLiveReceived = row.lastLiveReceived
                  /\ owed.oldestBuffered = row.oldestBuffered /\ owed.status = row.status
                BY <2>1 DEF Row
            <4>2. row' = [owed EXCEPT !.status = IF @ = "LIVE" THEN "DEGRADED" ELSE @]
                BY <3>1, <2>1 DEF RequireReconciliation, Row
            <4> HIDE DEF owed
            <4> QED BY <4>1, <4>2 DEF Row
        <3>2. CASE Reconciled
            BY <3>2, <2>1 DEF Reconciled, Row
        <3> QED BY <1>4, <3>1, <3>2
    <2>3. row' # NoRow
        BY <2>2, NoRowIsNoRow
    <2>4. TypeOK' /\ ReceiptsAdvance'
        BY <1>1, <2>1, <2>2 DEF RowInv, TypeOK, ReceiptsAdvance
    <2>5. RowFollows' /\ RowKeepsEvidence' /\ SettledRow'
        BY <1>1, <1>2, <2>1, <2>2, <2>3
        DEF RowInv, RowFollows, RowKeepsEvidence, Keeps, SettledRow, Settled, Applied
    <2> QED BY <2>4, <2>5 DEF RowInv
<1> QED BY <1>3, <1>4

LEMMA NextRowInv ==
    ASSUME RowInv, [Next]_vars
    PROVE  RowInv'
<1>1. ASSUME NEW b \in Receipt, NEW drained \in BOOLEAN, NEW covered \in BOOLEAN,
             Stamp(b, drained, covered)
      PROVE  RowInv'
    BY <1>1, StampInv
<1>2. ASSUME NEW b \in Receipt, Accept(b) \/ AcceptElsewhere(b)
      PROVE  RowInv'
    BY <1>2, AcceptInv, ElsewhereInv
<1>3. ASSUME NEW b \in Receipt, NEW at \in Time, Process(b, at)
      PROVE  RowInv'
    BY <1>3, ProcessInv
<1>4. CASE RequireReconciliation \/ Reconciled \/ Tick \/ UNCHANGED vars
    BY <1>4, OtherInv
<1> QED BY <1>1, <1>2, <1>3, <1>4 DEF Next

LEMMA RowInvHolds == Spec => []RowInv
    BY InitRowInv, NextRowInv, PTL DEF Spec

-----------------------------------------------------------------------------
(* What the properties say follows.                                         *)

LEMMA NewestOfRow ==
    ASSUME RowInv, row # NoRow
    PROVE  NewestReceiptDecides
<1>1. PICK b \in Applied : /\ row.received = receipt[b].received
                           /\ row.covered = receipt[b].covered
                           /\ row.drained => receipt[b].drained
    BY DEF RowInv, RowFollows
<1>2. b \in Newest /\ row.heartbeat = receipt[b].received
    BY <1>1 DEF RowInv, RowFollows, Newest
<1> QED BY <1>1, <1>2 DEF NewestReceiptDecides

LEMMA NoRowIsStale == ASSUME row = NoRow PROVE Freshness(row, clock) = "STALE"
    BY DEF Freshness

\* The row of a store and the receipts keep their types, times included.
THEOREM TypeCorrect == Spec => []TypeOK
<1>1. RowInv => TypeOK
    BY DEF RowInv
<1> QED BY <1>1, RowInvHolds, PTL

\* _update_connectivity applies the status of the newest receipt, whatever the
\* order in which receipts commit and the worker gets to their observations.
THEOREM NewestDecides == Spec => []NewestReceiptDecides
<1>1. RowInv => NewestReceiptDecides
    BY NewestOfRow DEF NewestReceiptDecides
<1> QED BY <1>1, RowInvHolds, PTL

\* effective_freshness and the stored status call a store LIVE only on evidence
\* that its newest receipt, its live events and its reconciliation bear out.
THEOREM LiveOnEvidence == Spec => []LiveIsHonest
<1>1. ASSUME RowInv PROVE LiveIsHonest
    <2>1. CASE row = NoRow
        BY <2>1, NoRowIsStale, NoRowIsNoRow DEF LiveIsHonest
    <2>2. CASE row # NoRow
        <3>1. row \in Row /\ clock \in Time
            BY <1>1, <2>2 DEF RowInv, TypeOK
        <3>2. PICK b \in Newest : /\ row.received = receipt[b].received
                                  /\ row.heartbeat = receipt[b].received
                                  /\ row.covered = receipt[b].covered
                                  /\ row.drained => receipt[b].drained
            BY <1>1, <2>2, NewestOfRow DEF NewestReceiptDecides
        <3>3. Keeps(row, newestLive, newestBuffered)
            BY <1>1, <2>2 DEF RowInv, RowKeepsEvidence
        <3>4. /\ row.lastLive \in Int /\ newestLive \in Int /\ clock \in Int
              /\ LiveWindow \in Nat
            BY <1>1, <3>1, TimesAreIntegers DEF RowInv, TypeOK, Row
        <3>5. ASSUME Freshness(row, clock) = "LIVE"
              PROVE  /\ receipt[b].drained /\ receipt[b].covered
                     /\ clock - receipt[b].received <= LiveWindow
                     /\ clock - newestLive <= LiveWindow
                     /\ newestBuffered <= row.lastLiveReceived /\ ~row.reconcile
            <4>1. /\ row.lastLive # Never /\ row.drained /\ row.covered
                  /\ row.oldestBuffered = Never /\ ~row.reconcile
                  /\ clock - row.heartbeat <= LiveWindow /\ clock - row.lastLive <= LiveWindow
                BY <3>1, <3>5, WhatLiveTakes
            <4> QED BY <3>2, <3>3, <3>4, <4>1 DEF Keeps
        <3>6. row.status = "LIVE" =>
                /\ receipt[b].drained /\ receipt[b].covered
                /\ newestBuffered <= row.lastLiveReceived /\ ~row.reconcile
            BY <3>2, <3>3 DEF Keeps
        <3> QED BY <3>2, <3>5, <3>6 DEF LiveIsHonest
    <2> QED BY <2>1, <2>2
<1> QED BY <1>1, RowInvHolds, PTL

\* No order and no number of updates costs a store the status it has earned: a
\* live event of its one newest receipt makes it LIVE.
THEOREM EvidenceMakesLive == Spec => []SettledReceiptIsLive
<1>1. ASSUME RowInv PROVE SettledReceiptIsLive
    <2> SUFFICES ASSUME NEW b \in Newest, Newest = {b}, receipt[b].live,
                        receipt[b].drained, receipt[b].covered,
                        clock - receipt[b].received <= LiveWindow,
                        clock - newestLive <= LiveWindow - Flush, ~row.reconcile
                 PROVE  Freshness(row, clock) = "LIVE"
        BY DEF SettledReceiptIsLive
    <2>1. b \in Receipt /\ receipt[b].applied /\ b \in Applied
        BY DEF Newest, Applied
    <2>2. row # NoRow /\ row \in Row /\ clock \in Time
        BY <1>1, <2>1 DEF RowInv, RowFollows, TypeOK
    <2>3. /\ row.received = receipt[b].received /\ row.heartbeat = receipt[b].received
          /\ row.covered = receipt[b].covered
        BY <1>1, <2>2, NewestOfRow DEF NewestReceiptDecides
    <2>4. \A a \in Applied : receipt[a].received \in Int
        BY <1>1, TimesAreIntegers DEF RowInv, ReceiptsAdvance, Applied
    <2>5. Settled(b)
        <3>1. \A a \in Applied : receipt[a].received <= receipt[b].received
            BY DEF Newest
        <3>2. ASSUME NEW a \in Receipt \ {b}, receipt[a].applied
              PROVE  receipt[a].received < receipt[b].received
            <4>1. a \in Applied /\ a \notin Newest
                BY <3>2 DEF Applied
            <4>2. PICK c \in Applied : ~(receipt[c].received <= receipt[a].received)
                BY <4>1 DEF Newest
            <4> QED BY <2>1, <2>4, <3>1, <4>1, <4>2
        <3> QED BY <2>1, <3>2 DEF Settled
    <2>6. /\ row.drained /\ row.oldestBuffered = Never /\ row.lastLive # Never
        BY <1>1, <2>1, <2>5 DEF RowInv, SettledRow
    <2>7. newestLive <= row.lastLive + Flush
        BY <1>1, <2>2 DEF RowInv, RowKeepsEvidence, Keeps
    <2>8. /\ row.lastLive \in Int /\ newestLive \in Int /\ clock \in Int
          /\ LiveWindow \in Nat /\ Flush \in Nat
        BY <1>1, <2>2, TimesAreIntegers DEF RowInv, TypeOK, Row
    <2>9. clock - row.lastLive <= LiveWindow
        BY <2>7, <2>8
    <2> QED BY <2>2, <2>3, <2>6, <2>9, WhatLiveTakes
<1> QED BY <1>1, RowInvHolds, PTL

=============================================================================
