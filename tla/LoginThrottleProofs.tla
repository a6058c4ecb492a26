------------------------- MODULE LoginThrottleProofs -------------------------
(***************************************************************************)
(* Proofs about LoginThrottle for every set of addresses, accounts and     *)
(* threads and every setting: the counters are exact and the table keeps   *)
(* its bound. The identity of a window is what makes the counters exact: a *)
(* new one is not the window of any attempt in flight.                     *)
(***************************************************************************)
EXTENDS LoginThrottle, FiniteSetTheorems, TLAPS

Entry == [id: WindowId \cup {0}, age: 0..Oldest, attempts: Nat, kept: Nat]

\* A thread works for one address and one account, and has windows once it has
\* reserved them.
ThreadsReserve ==
    \A t \in Thread :
        /\ thread[t].pc # "idle" =>
            \E i \in Ip, a \in Account : DOMAIN thread[t].windows = {i, a}
        /\ thread[t].pc = "reserved" =>
            \A k \in DOMAIN thread[t].windows : thread[t].windows[k] \in WindowId

IsTable(e) == e \in [Key -> Entry] /\ \A k \in Key : e[k] = NoWindow \/ e[k].id \in WindowId

\* CountersAreExact for one key.
CounterIsExact(k) ==
    entries[k] # NoWindow =>
        /\ entries[k].attempts = Cardinality(Holders(k)) + entries[k].kept
        /\ entries[k].attempts \in 1..Limit(k)

ThrottleInv ==
    TypeOK /\ ThreadsReserve /\ IsTable(entries) /\ CountersAreExact /\ TableIsBounded

-----------------------------------------------------------------------------
(* Lemmas about sets of keys and threads, and about ids.                    *)

LEMMA SetsAreFinite ==
    /\ IsFiniteSet(Key) /\ IsFiniteSet(Thread) /\ Cardinality(Key) \in Nat
    /\ IsFiniteSet(Thread \X Key) /\ Cardinality(Thread \X Key) \in Nat
    /\ IsFiniteSet(WindowId)
    /\ Cardinality(WindowId) = Cardinality(Key) + Cardinality(Thread \X Key)
    /\ 0 \notin WindowId
<1>1. /\ IsFiniteSet(Key) /\ IsFiniteSet(Thread)
    BY ThreadAssumption DEF Key
<1>2. IsFiniteSet(Thread \X Key)
    BY <1>1, FS_Product
<1>3. Cardinality(Key) \in Nat /\ Cardinality(Thread \X Key) \in Nat
    BY <1>1, <1>2, FS_CardinalityType
<1> DEFINE n == Cardinality(Key) + Cardinality(Thread \X Key)
<1>4. n \in Nat /\ WindowId = 1..n
    BY <1>3 DEF WindowId
<1> HIDE DEF n
<1>5. IsFiniteSet(1..n) /\ Cardinality(1..n) = n
    BY <1>4, FS_Interval
<1>6. 0 \notin WindowId
    BY <1>4
<1> QED BY <1>1, <1>2, <1>3, <1>4, <1>5, <1>6 DEF n

LEMMA FiniteHolders ==
    ASSUME NEW k
    PROVE  /\ IsFiniteSet(Holders(k)) /\ Cardinality(Holders(k)) \in Nat
           /\ IsFiniteSet(Holders(k)') /\ Cardinality(Holders(k)') \in Nat
<1>1. Holders(k) \subseteq Thread /\ Holders(k)' \subseteq Thread
    BY DEF Holders
<1> QED BY <1>1, SetsAreFinite, FS_Subset, FS_CardinalityType

LEMMA FiniteUsed ==
    ASSUME NEW e
    PROVE  Used(e) \subseteq Key /\ IsFiniteSet(Used(e)) /\ Cardinality(Used(e)) \in Nat
<1>1. Used(e) \subseteq Key
    BY DEF Used
<1> QED BY <1>1, SetsAreFinite, FS_Subset, FS_CardinalityType

LEMMA ThreadTyped ==
    ASSUME TypeOK, NEW t \in Thread
    PROVE  /\ DOMAIN thread[t].windows \subseteq Key
           /\ \A k \in DOMAIN thread[t].windows : thread[t].windows[k] \in WindowId \cup {0}
<1>1. thread[t].windows \in UNION {[keys -> WindowId \cup {0}] : keys \in SUBSET Key}
    BY DEF TypeOK
<1>2. PICK keys \in SUBSET Key : thread[t].windows \in [keys -> WindowId \cup {0}]
    BY <1>1, Zenon
<1> QED BY <1>2

\* Table and threads can never refer to all ids while a key has no window: there is
\* a new one for it.
LEMMA NewIdIsFree ==
    ASSUME TypeOK, NEW e \in [Key -> Entry], NEW free \in Key, e[free].id = 0
    PROVE  NewId(e) \in FreeIds(e)
<1>1. SUFFICES ASSUME FreeIds(e) = {} PROVE FALSE
    BY DEF NewId
<1> DEFINE others == Key \ {free}
           pairs == Thread \X Key
           f == [k \in others |-> e[k].id]
           g == [s \in pairs |-> IF s[2] \in DOMAIN thread[s[1]].windows
                                 THEN thread[s[1]].windows[s[2]] ELSE 0]
           inTable == {f[k] : k \in others}
           inThreads == {g[s] : s \in pairs}
<1>2. WindowId \subseteq inTable \cup inThreads
    <2> SUFFICES ASSUME NEW w \in WindowId, w \notin inTable
                 PROVE  w \in inThreads
        OBVIOUS
    <2>1. \A k \in Key : e[k].id # w
        BY SetsAreFinite
    <2>2. PICK t \in Thread : \E k \in DOMAIN thread[t].windows : thread[t].windows[k] = w
        BY <1>1, <2>1 DEF FreeIds
    <2>3. PICK k \in DOMAIN thread[t].windows : thread[t].windows[k] = w
        BY <2>2
    <2>4. k \in Key
        BY ThreadTyped
    <2>5. <<t, k>> \in pairs /\ g[<<t, k>>] = w
        BY <2>3, <2>4
    <2> QED BY <2>5
<1>3. /\ IsFiniteSet(others) /\ Cardinality(others) = Cardinality(Key) - 1
    BY SetsAreFinite, FS_RemoveElement
<1>4. f \in Surjection(others, inTable)
    BY DEF Surjection
<1>5. IsFiniteSet(inTable) /\ Cardinality(inTable) <= Cardinality(others)
    BY <1>3, <1>4, FS_Surjection
<1>6. g \in Surjection(pairs, inThreads)
    BY DEF Surjection
<1>7. IsFiniteSet(inThreads) /\ Cardinality(inThreads) <= Cardinality(pairs)
    BY <1>6, SetsAreFinite, FS_Surjection
<1> HIDE DEF inTable, inThreads, others, pairs, f, g
<1>8. /\ IsFiniteSet(inTable \cup inThreads)
      /\ Cardinality(inTable \cup inThreads) =
            Cardinality(inTable) + Cardinality(inThreads) - Cardinality(inTable \cap inThreads)
    BY <1>5, <1>7, FS_Union
<1>9. Cardinality(WindowId) <= Cardinality(inTable \cup inThreads)
    BY <1>2, <1>8, FS_Subset
<1>10. Cardinality(inTable \cap inThreads) \in Nat
    BY <1>5, FS_Intersection, FS_CardinalityType
<1>11. /\ Cardinality(inTable) \in Nat /\ Cardinality(inThreads) \in Nat
       /\ Cardinality(inTable \cup inThreads) \in Nat
    BY <1>5, <1>7, <1>8, FS_CardinalityType
<1>12. Cardinality(pairs) = Cardinality(Thread \X Key)
    BY DEF pairs
<1> QED BY <1>3, <1>5, <1>7, <1>8, <1>9, <1>10, <1>11, <1>12, SetsAreFinite

\* Nothing in flight refers to a free id.
LEMMA FreeIdIsNew ==
    ASSUME TypeOK, NEW e \in [Key -> Entry], NEW w \in FreeIds(e)
    PROVE  /\ w \in WindowId
           /\ \A t \in Thread : \A k \in DOMAIN thread[t].windows : thread[t].windows[k] # w
    BY DEF FreeIds

\* _new_window, or one more attempt in the window a key has.
LEMMA ReservedEntry ==
    ASSUME TypeOK, NEW e, IsTable(e), NEW k \in Key, NEW lag \in 0..MaxLag
    PROVE  LET next == Reserved(e, k, lag) IN
           /\ IsTable(next) /\ next[k] # NoWindow
           /\ \A other \in Key \ {k} : next[other] = e[other]
           /\ e[k] = NoWindow => /\ next[k].id \in FreeIds(e)
                                 /\ next[k].attempts = 1 /\ next[k].kept = 0
           /\ e[k] # NoWindow => /\ next[k].id = e[k].id /\ next[k].kept = e[k].kept
                                 /\ next[k].attempts = e[k].attempts + 1
<1>1. e \in [Key -> Entry]
    BY DEF IsTable
<1>2. CASE e[k] = NoWindow
    <2>1. NewId(e) \in FreeIds(e)
        BY <1>1, <1>2, NewIdIsFree DEF NoWindow
    <2>2. NewId(e) \in WindowId
        BY <1>1, <2>1, FreeIdIsNew
    <2> DEFINE named == [NoWindow EXCEPT !.id = NewId(e)]
               aged == [named EXCEPT !.age = lag]
               made == [aged EXCEPT !.attempts = 1]
    <2>3. lag \in 0..Oldest
        BY SettingsAssumption DEF Oldest
    <2>4. named \in Entry /\ named.id = NewId(e) /\ named.kept = 0
        <3>1. NoWindow \in Entry /\ NoWindow.kept = 0
            BY SettingsAssumption DEF NoWindow, Entry, Oldest
        <3> QED BY <2>2, <3>1 DEF Entry
    <2> HIDE DEF named
    <2>5. aged \in Entry /\ aged.id = NewId(e) /\ aged.kept = 0
        BY <2>3, <2>4 DEF Entry
    <2> HIDE DEF aged
    <2>6. made \in Entry /\ made.id = NewId(e) /\ made.kept = 0 /\ made.attempts = 1
        BY <2>5 DEF Entry
    <2>7. Reserved(e, k, lag) = [e EXCEPT ![k] = made]
        BY <1>2 DEF Reserved, made, aged, named
    <2> HIDE DEF made
    <2>8. made # NoWindow
        BY <2>6 DEF NoWindow
    <2> QED BY <1>1, <1>2, <2>1, <2>2, <2>6, <2>7, <2>8 DEF IsTable
<1>3. CASE e[k] # NoWindow
    <2>1. Reserved(e, k, lag) = [e EXCEPT ![k].attempts = @ + 1]
        BY <1>3 DEF Reserved
    <2> DEFINE next == [e EXCEPT ![k].attempts = @ + 1]
    <2>2. /\ next \in [Key -> Entry] /\ next[k].id = e[k].id /\ next[k].kept = e[k].kept
          /\ next[k].attempts = e[k].attempts + 1
          /\ \A other \in Key \ {k} : next[other] = e[other]
        BY <1>1 DEF Entry
    <2> HIDE DEF next
    <2>3. next[k].id \in WindowId /\ next[k] # NoWindow
        BY <1>3, <2>2, SetsAreFinite DEF IsTable, NoWindow
    <2>4. IsTable(next)
        BY <2>2, <2>3 DEF IsTable
    <2> QED BY <1>3, <2>1, <2>2, <2>3, <2>4 DEF next
<1> QED BY <1>2, <1>3

-----------------------------------------------------------------------------
(* Every action preserves ThrottleInv.                                      *)

LEMMA ExactByKey == CountersAreExact <=> \A k \in Key : CounterIsExact(k)
    BY DEF CountersAreExact, CounterIsExact, Used

LEMMA NextExactByKey == CountersAreExact' <=> \A k \in Key : CounterIsExact(k)'
    BY DEF CountersAreExact, CounterIsExact, Used, Holders

LEMMA InitThrottleInv == Init => ThrottleInv
<1> SUFFICES ASSUME Init PROVE ThrottleInv
    OBVIOUS
<1>1. NoWindow \in Entry
    BY SettingsAssumption DEF NoWindow, Entry, Oldest
<1>2. IsTable(entries)
    BY <1>1 DEF Init, IsTable
<1>3. thread \in [Thread -> [pc: {"idle", "clocked", "reserved"}, lag: 0..MaxLag,
                   windows: UNION {[keys -> WindowId \cup {0}] : keys \in SUBSET Key}]]
    <2> DEFINE none == [k \in {} |-> 0]
    <2>1. none \in [{} -> WindowId \cup {0}] /\ {} \in SUBSET Key
        OBVIOUS
    <2>2. none \in UNION {[keys -> WindowId \cup {0}] : keys \in SUBSET Key}
        BY <2>1
    <2> HIDE DEF none
    <2>3. 0 \in 0..MaxLag
        BY SettingsAssumption
    <2> QED BY <2>2, <2>3 DEF Init, Idle, none
<1>4. TypeOK
    BY <1>2, <1>3 DEF TypeOK, IsTable, Entry
<1>5. ThreadsReserve
    BY DEF Init, Idle, ThreadsReserve
<1>6. Used(entries) = {}
    BY DEF Init, Used
<1>7. CountersAreExact /\ TableIsBounded
    BY <1>6, FS_EmptySet, SettingsAssumption DEF CountersAreExact, TableIsBounded
<1> QED BY <1>2, <1>4, <1>5, <1>7 DEF ThrottleInv

\* A table that only loses windows keeps its bound.
LEMMA SmallerTable ==
    ASSUME TableIsBounded, Used(entries') \subseteq Used(entries)
    PROVE  TableIsBounded'
<1>1. Cardinality(Used(entries')) <= Cardinality(Used(entries))
    BY FiniteUsed, FS_Subset
<1>2. Cardinality(Used(entries)) \in Nat /\ Cardinality(Used(entries')) \in Nat
    BY FiniteUsed
<1>3. Cardinality(Used(entries)) <= MaxEntries
    BY DEF TableIsBounded
<1>4. Cardinality(Used(entries')) <= MaxEntries
    BY <1>1, <1>2, <1>3, SettingsAssumption
<1> QED BY <1>4 DEF TableIsBounded, Used

\* A key whose window counts the same for the same holders.
LEMMA SameCount ==
    ASSUME NEW k \in Key, CounterIsExact(k), entries[k] # NoWindow,
           entries'[k].attempts = entries[k].attempts, entries'[k].kept = entries[k].kept,
           Holders(k)' = Holders(k)
    PROVE  CounterIsExact(k)'
    BY DEF CounterIsExact, Limit

LEMMA ReadsClockInv ==
    ASSUME ThrottleInv, NEW t \in Thread, NEW i \in Ip, NEW a \in Account,
           ReadsClock(t, i, a)
    PROVE  ThrottleInv'
<1> DEFINE next == [pc |-> "clocked", lag |-> 0, windows |-> [k \in {i, a} |-> 0]]
<1>1. thread[t] = Idle /\ UNCHANGED entries /\ thread' = [thread EXCEPT ![t] = next]
    BY DEF ReadsClock
<1>2. next \in [pc: {"idle", "clocked", "reserved"}, lag: 0..MaxLag,
                windows: UNION {[keys -> WindowId \cup {0}] : keys \in SUBSET Key}]
    <2> DEFINE none == [k \in {i, a} |-> 0]
    <2>1. none \in [{i, a} -> WindowId \cup {0}] /\ {i, a} \in SUBSET Key
        BY DEF Key
    <2>2. none \in UNION {[keys -> WindowId \cup {0}] : keys \in SUBSET Key}
        BY <2>1
    <2> HIDE DEF none
    <2>3. 0 \in 0..MaxLag
        BY SettingsAssumption
    <2> QED BY <2>2, <2>3 DEF none
<1>3. next.pc = "clocked" /\ DOMAIN next.windows = {i, a}
    OBVIOUS
<1> HIDE DEF next
<1>4. TypeOK'
    BY <1>1, <1>2 DEF ThrottleInv, TypeOK
<1>5. thread'[t] = next /\ \A s \in Thread \ {t} : thread'[s] = thread[s]
    BY <1>1 DEF ThrottleInv, TypeOK
<1>6. ThreadsReserve'
    BY <1>3, <1>5 DEF ThrottleInv, ThreadsReserve
<1>7. \A k \in Key : Holders(k)' = Holders(k)
    <2>1. thread[t].pc # "reserved"
        BY <1>1 DEF Idle
    <2> QED BY <1>1, <1>3, <1>5, <2>1 DEF Holders
<1>8. CountersAreExact'
    BY <1>1, <1>7 DEF ThrottleInv, CountersAreExact, Used, Limit
<1> QED BY <1>1, <1>4, <1>6, <1>8 DEF ThrottleInv, IsTable, TableIsBounded

\* begin_attempt at the time of a thread: expired windows are gone, the others stay.
LEMMA WithoutExpired ==
    ASSUME ThrottleInv, NEW keys, NEW lag
    PROVE  LET e == Without(keys, lag) IN
           /\ IsTable(e) /\ Used(e) \subseteq Used(entries)
           /\ \A k \in Key : e[k] = entries[k] \/ e[k] = NoWindow
<1>1. NoWindow \in Entry
    BY SettingsAssumption DEF NoWindow, Entry, Oldest
<1> QED BY <1>1 DEF Without, IsTable, ThrottleInv, Used

\* A thread that is turned away leaves nothing behind.
LEMMA TurnedAway ==
    ASSUME ThrottleInv, NEW t \in Thread, thread[t].pc = "clocked",
           thread' = [thread EXCEPT ![t] = Idle],
           IsTable(entries'),
           \A k \in Key : entries'[k] = entries[k] \/ entries'[k] = NoWindow
    PROVE  ThrottleInv'
<1>1. Idle \in [pc: {"idle", "clocked", "reserved"}, lag: 0..MaxLag,
                windows: UNION {[keys -> WindowId \cup {0}] : keys \in SUBSET Key}]
    <2> DEFINE none == [k \in {} |-> 0]
    <2>1. none \in [{} -> WindowId \cup {0}] /\ {} \in SUBSET Key
        OBVIOUS
    <2>2. none \in UNION {[keys -> WindowId \cup {0}] : keys \in SUBSET Key}
        BY <2>1
    <2> HIDE DEF none
    <2>3. 0 \in 0..MaxLag
        BY SettingsAssumption
    <2> QED BY <2>2, <2>3 DEF Idle, none
<1>2. TypeOK'
    BY <1>1 DEF ThrottleInv, TypeOK, IsTable, Entry
<1>3. thread'[t].pc = "idle" /\ \A s \in Thread \ {t} : thread'[s] = thread[s]
    BY DEF ThrottleInv, TypeOK, Idle
<1>4. ThreadsReserve'
    BY <1>3 DEF ThrottleInv, ThreadsReserve
<1>5. ASSUME NEW k \in Key, entries'[k] # NoWindow
      PROVE  CounterIsExact(k)'
    <2>1. entries'[k] = entries[k]
        BY <1>5
    <2>2. Holders(k)' = Holders(k)
        BY <1>3, <2>1 DEF Holders
    <2> QED BY <1>5, <2>1, <2>2, SameCount, ExactByKey DEF ThrottleInv
<1>6. CountersAreExact'
    BY <1>5, NextExactByKey DEF CounterIsExact
<1>7. Used(entries') \subseteq Used(entries)
    BY DEF Used
<1> QED BY <1>2, <1>4, <1>6, <1>7, SmallerTable DEF ThrottleInv, IsTable

\* A reservation for an address and an account.
LEMMA Reserves ==
    ASSUME ThrottleInv, NEW t \in Thread, thread[t].pc = "clocked",
           NEW i \in Ip, NEW a \in Account, DOMAIN thread[t].windows = {i, a},
           NEW room, IsTable(room), NEW lag \in 0..MaxLag,
           \A k \in Key : room[k] = entries[k] \/ room[k] = NoWindow,
           \A k \in {i, a} : room[k] # NoWindow => room[k].attempts < Limit(k),
           Fits(room, {i, a}),
           entries' = Reserved(Reserved(room, i, lag), a, lag),
           thread' = [thread EXCEPT ![t] = [pc |-> "reserved", lag |-> 0,
                        windows |-> [k \in {i, a} |-> entries'[k].id]]]
    PROVE  ThrottleInv'
<1> DEFINE first == Reserved(room, i, lag)
<1>1. i \in Key /\ a \in Key /\ i # a /\ TypeOK
    BY ThreadAssumption DEF Key, ThrottleInv
<1>2. /\ IsTable(first) /\ first[i] # NoWindow
      /\ \A other \in Key \ {i} : first[other] = room[other]
      /\ room[i] = NoWindow => /\ first[i].id \in FreeIds(room)
                               /\ first[i].attempts = 1 /\ first[i].kept = 0
      /\ room[i] # NoWindow => /\ first[i].id = room[i].id /\ first[i].kept = room[i].kept
                               /\ first[i].attempts = room[i].attempts + 1
    BY <1>1, ReservedEntry
<1> HIDE DEF first
<1>3. /\ IsTable(entries') /\ entries'[a] # NoWindow
      /\ \A other \in Key \ {a} : entries'[other] = first[other]
      /\ first[a] = NoWindow => /\ entries'[a].id \in FreeIds(first)
                                /\ entries'[a].attempts = 1 /\ entries'[a].kept = 0
      /\ first[a] # NoWindow => /\ entries'[a].id = first[a].id
                                /\ entries'[a].kept = first[a].kept
                                /\ entries'[a].attempts = first[a].attempts + 1
    <2>1. entries' = Reserved(first, a, lag)
        BY DEF first
    <2> QED BY <1>1, <1>2, <2>1, ReservedEntry
<1>4. ASSUME NEW k \in {i, a}
      PROVE  /\ entries'[k] # NoWindow /\ entries'[k].id \in WindowId
             /\ room[k] = NoWindow =>
                    /\ entries'[k].attempts = 1 /\ entries'[k].kept = 0
                    /\ \A s \in Thread : \A l \in DOMAIN thread[s].windows :
                            thread[s].windows[l] # entries'[k].id
             /\ room[k] # NoWindow =>
                    /\ entries'[k].id = room[k].id /\ entries'[k].kept = room[k].kept
                    /\ entries'[k].attempts = room[k].attempts + 1
    <2>1. room \in [Key -> Entry] /\ first \in [Key -> Entry]
        BY <1>2 DEF IsTable
    <2>2. entries'[k] # NoWindow /\ entries'[k].id \in WindowId
        BY <1>1, <1>2, <1>3 DEF IsTable
    <2>3. CASE k = i
        BY <1>1, <1>2, <1>3, <2>1, <2>2, <2>3, FreeIdIsNew
    <2>4. CASE k = a
        BY <1>1, <1>2, <1>3, <2>1, <2>2, <2>4, FreeIdIsNew
    <2> QED BY <2>3, <2>4
<1>5. \A k \in Key \ {i, a} : entries'[k] = room[k]
    BY <1>2, <1>3
<1> DEFINE next == [pc |-> "reserved", lag |-> 0,
                    windows |-> [k \in {i, a} |-> entries'[k].id]]
<1>6. next \in [pc: {"idle", "clocked", "reserved"}, lag: 0..MaxLag,
                windows: UNION {[keys -> WindowId \cup {0}] : keys \in SUBSET Key}]
    <2> DEFINE held == [k \in {i, a} |-> entries'[k].id]
    <2>1. held \in [{i, a} -> WindowId \cup {0}] /\ {i, a} \in SUBSET Key
        BY <1>1, <1>4
    <2> HIDE DEF held
    <2>2. held \in UNION {[keys -> WindowId \cup {0}] : keys \in SUBSET Key}
        BY <2>1
    <2>3. 0 \in 0..MaxLag
        BY SettingsAssumption
    <2> QED BY <2>2, <2>3 DEF held
<1>7. /\ next.pc = "reserved" /\ DOMAIN next.windows = {i, a}
      /\ \A k \in {i, a} : next.windows[k] = entries'[k].id
    OBVIOUS
<1> HIDE DEF next
<1>8. thread' = [thread EXCEPT ![t] = next]
    BY DEF next
<1>9. thread'[t] = next /\ \A s \in Thread \ {t} : thread'[s] = thread[s]
    BY <1>8 DEF ThrottleInv, TypeOK
<1>10. TypeOK'
    <2> DEFINE Threads == [pc: {"idle", "clocked", "reserved"}, lag: 0..MaxLag,
                    windows: UNION {[keys -> WindowId \cup {0}] : keys \in SUBSET Key}]
    <2>1. next \in Threads /\ thread \in [Thread -> Threads]
        BY <1>6 DEF ThrottleInv, TypeOK
    <2> HIDE DEF Threads
    <2>2. thread' \in [Thread -> Threads]
        BY <1>8, <2>1
    <2>3. entries' \in [Key -> Entry]
        BY <1>3 DEF IsTable
    <2> QED BY <2>2, <2>3 DEF TypeOK, Entry, Threads
<1>11. ThreadsReserve'
    BY <1>4, <1>7, <1>9 DEF ThrottleInv, ThreadsReserve
<1>12. ASSUME NEW k \in Key, k \notin {i, a}, entries'[k] # NoWindow
       PROVE  CounterIsExact(k)'
    <2>1. entries'[k] = entries[k]
        BY <1>5, <1>12
    <2>2. Holders(k)' = Holders(k)
        BY <1>7, <1>9, <1>12, <2>1 DEF Holders
    <2> QED BY <1>12, <2>1, <2>2, SameCount, ExactByKey DEF ThrottleInv
<1>13. ASSUME NEW k \in {i, a}
       PROVE  CounterIsExact(k)'
    <2>1. k \in Key /\ Limit(k) \in Nat /\ Limit(k) >= 1
        BY <1>1, SettingsAssumption DEF Limit
    <2>2. CASE room[k] = NoWindow
        <3>1. Holders(k)' = {t}
            BY <1>4, <1>7, <1>9, <1>13, <2>2 DEF Holders
        <3>2. Cardinality(Holders(k)') = 1
            BY <3>1, FS_Singleton
        <3>3. entries'[k].attempts = 1 /\ entries'[k].kept = 0
            BY <1>4, <2>2
        <3>4. entries'[k].attempts \in 1..Limit(k)
            BY <2>1, <3>3
        <3> QED BY <3>2, <3>3, <3>4 DEF CounterIsExact, Limit
    <2>3. CASE room[k] # NoWindow
        <3>1. room[k] = entries[k] /\ entries[k] # NoWindow
            BY <2>1, <2>3
        <3>2. /\ entries[k].attempts = Cardinality(Holders(k)) + entries[k].kept
              /\ entries[k].attempts \in 1..Limit(k)
            BY <2>1, <3>1, ExactByKey DEF ThrottleInv, CounterIsExact
        <3>3. entries[k].attempts < Limit(k) /\ entries[k].kept \in Nat
            BY <2>1, <2>3, <3>1 DEF ThrottleInv, IsTable, Entry
        <3>4. Holders(k)' = Holders(k) \cup {t} /\ t \notin Holders(k)
            BY <1>4, <1>7, <1>9, <2>3, <3>1 DEF Holders
        <3>5. Cardinality(Holders(k)') = Cardinality(Holders(k)) + 1
            BY <3>4, FiniteHolders, FS_AddElement
        <3>6. /\ entries'[k].attempts = entries[k].attempts + 1
              /\ entries'[k].kept = entries[k].kept
            BY <1>4, <2>3, <3>1
        <3>7. /\ entries'[k].attempts = Cardinality(Holders(k)') + entries'[k].kept
              /\ entries'[k].attempts \in 1..Limit(k)
            BY <2>1, <3>2, <3>3, <3>5, <3>6, FiniteHolders
        <3> QED BY <3>7 DEF CounterIsExact, Limit
    <2> QED BY <2>2, <2>3
<1>14. CountersAreExact'
    BY <1>12, <1>13, NextExactByKey DEF CounterIsExact
<1>15. TableIsBounded'
    <2>1. Used(entries') \subseteq Used(room) \cup {i, a}
        BY <1>5 DEF Used
    <2>2. IsFiniteSet(Used(room) \cup {i, a})
        BY <1>1, FiniteUsed, SetsAreFinite, FS_Subset
    <2>3. Cardinality(Used(entries')) <= Cardinality(Used(room) \cup {i, a})
        BY <2>1, <2>2, FS_Subset
    <2>4. /\ Cardinality(Used(room) \cup {i, a}) \in Nat
          /\ Cardinality(Used(entries')) \in Nat
        BY <2>2, FiniteUsed, FS_CardinalityType
    <2>5. Cardinality(Used(room) \cup {i, a}) <= MaxEntries
        BY DEF Fits
    <2>6. Cardinality(Used(entries')) <= MaxEntries
        BY <2>3, <2>4, <2>5, SettingsAssumption
    <2> QED BY <2>6 DEF TableIsBounded, Used
<1> QED BY <1>3, <1>10, <1>11, <1>14, <1>15 DEF ThrottleInv, IsTable

LEMMA BeginInv ==
    ASSUME ThrottleInv, NEW t \in Thread, BeginAttempt(t)
    PROVE  ThrottleInv'
<1> DEFINE keys == DOMAIN thread[t].windows
           lag == thread[t].lag
           near == Without(keys, lag)
           room == IF Fits(near, keys) THEN near ELSE Without(Key, lag)
<1>1. thread[t].pc = "clocked" /\ lag \in 0..MaxLag
    BY DEF BeginAttempt, ThrottleInv, TypeOK
<1>2. PICK i \in Ip, a \in Account : keys = {i, a}
    BY <1>1 DEF ThrottleInv, ThreadsReserve
<1>3. /\ a \notin Ip /\ i \notin Account
    BY ThreadAssumption
<1>4. /\ (CHOOSE k \in keys : k \in Ip) = i
      /\ (CHOOSE k \in keys : k \in Account) = a
    BY <1>2, <1>3
<1>5. /\ IsTable(near) /\ \A k \in Key : near[k] = entries[k] \/ near[k] = NoWindow
      /\ IsTable(room) /\ \A k \in Key : room[k] = entries[k] \/ room[k] = NoWindow
    BY WithoutExpired
<1>6. \A k \in keys : k \in Key /\ room[k] = near[k]
    BY <1>2 DEF Without, Key
<1>7. \/ entries' = near /\ thread' = [thread EXCEPT ![t] = Idle]
      \/ entries' = room /\ thread' = [thread EXCEPT ![t] = Idle]
      \/ /\ ~Exhausted(near, keys) /\ Fits(room, keys)
         /\ entries' = Reserved(Reserved(room, i, lag), a, lag)
         /\ thread' = [thread EXCEPT ![t] =
                [pc |-> "reserved", lag |-> 0, windows |-> [k \in keys |-> entries'[k].id]]]
    BY <1>4 DEF BeginAttempt
<1> HIDE DEF near, room, lag
<1>8. CASE entries' = near /\ thread' = [thread EXCEPT ![t] = Idle]
    BY <1>1, <1>5, <1>8, TurnedAway
<1>9. CASE entries' = room /\ thread' = [thread EXCEPT ![t] = Idle]
    BY <1>1, <1>5, <1>9, TurnedAway
<1>10. CASE /\ ~Exhausted(near, keys) /\ Fits(room, keys)
            /\ entries' = Reserved(Reserved(room, i, lag), a, lag)
            /\ thread' = [thread EXCEPT ![t] =
                [pc |-> "reserved", lag |-> 0, windows |-> [k \in keys |-> entries'[k].id]]]
    <2>1. \A k \in {i, a} : room[k] # NoWindow => room[k].attempts < Limit(k)
        <3> SUFFICES ASSUME NEW k \in {i, a}, room[k] # NoWindow
                     PROVE  room[k].attempts < Limit(k)
            OBVIOUS
        <3>1. k \in keys /\ ~(near[k].attempts >= Limit(k)) /\ near[k] = room[k]
            BY <1>2, <1>6, <1>10 DEF Exhausted
        <3>2. Limit(k) \in Int /\ room[k].attempts \in Int
            BY <1>5, <1>6, <3>1, SettingsAssumption DEF Limit, IsTable, Entry
        <3> QED BY <3>1, <3>2
    <2> HIDE DEF keys
    <2>2. Fits(room, {i, a})
        BY <1>2, <1>10
    <2>3. thread' = [thread EXCEPT ![t] =
                [pc |-> "reserved", lag |-> 0, windows |-> [k \in {i, a} |-> entries'[k].id]]]
        BY <1>2, <1>10
    <2>4. DOMAIN thread[t].windows = {i, a}
        BY <1>2 DEF keys
    <2>5. entries' = Reserved(Reserved(room, i, lag), a, lag)
        BY <1>10
    <2>6. lag \in 0..MaxLag
        BY <1>1
    <2> QED BY <1>1, <1>5, <2>1, <2>2, <2>3, <2>4, <2>5, <2>6, Reserves
<1> QED BY <1>7, <1>8, <1>9, <1>10

LEMMA FinishInv ==
    ASSUME ThrottleInv, NEW t \in Thread, NEW outcome \in Outcome, FinishAttempt(t, outcome)
    PROVE  ThrottleInv'
<1> DEFINE keys == DOMAIN thread[t].windows
           Mine(k) == k \in keys /\ entries[k].id = thread[t].windows[k]
<1>1. /\ thread[t].pc = "reserved" /\ thread' = [thread EXCEPT ![t] = Idle]
      /\ \A k \in keys : k \in Key /\ thread[t].windows[k] \in WindowId
    BY ThreadTyped DEF FinishAttempt, ThrottleInv, ThreadsReserve
<1>2. /\ entries' = [k \in Key |-> entries'[k]]
      /\ \A k \in Key :
            /\ ~Mine(k) => entries'[k] = entries[k]
            /\ Mine(k) => \/ entries'[k] = Returned(entries[k])
                          \/ entries'[k] = [entries[k] EXCEPT !.kept = @ + 1]
    BY DEF FinishAttempt, IsSameWindow
<1>3. ASSUME NEW k \in Key, Mine(k)
      PROVE  /\ entries[k] # NoWindow /\ entries[k] \in Entry /\ entries[k].id \in WindowId
             /\ entries[k].attempts = Cardinality(Holders(k)) + entries[k].kept
             /\ entries[k].attempts \in 1..Limit(k) /\ Limit(k) \in Nat
             /\ t \in Holders(k) /\ entries[k].kept \in Nat
    <2>1. entries[k] # NoWindow
        BY <1>1, <1>3, SetsAreFinite DEF NoWindow
    <2>2. entries[k] \in Entry /\ entries[k].id \in WindowId
        BY <2>1 DEF ThrottleInv, IsTable
    <2>3. CounterIsExact(k)
        BY ExactByKey DEF ThrottleInv
    <2>4. t \in Holders(k)
        BY <1>1, <1>3 DEF Holders
    <2> QED BY <2>1, <2>2, <2>3, <2>4, SettingsAssumption DEF CounterIsExact, Limit, Entry
<1>4. ASSUME NEW k \in Key, Mine(k)
      PROVE  /\ entries'[k] \in Entry
             /\ entries'[k] # NoWindow =>
                    /\ entries'[k].id = entries[k].id
                    /\ entries'[k].attempts \in 1..Limit(k)
                    /\ entries'[k].attempts = Cardinality(Holders(k)) - 1 + entries'[k].kept
    <2>1. CASE entries'[k] = Returned(entries[k]) /\ entries[k].attempts = 1
        <3>1. NoWindow \in Entry
            BY SettingsAssumption DEF NoWindow, Entry, Oldest
        <3> QED BY <2>1, <3>1 DEF Returned
    <2>2. CASE entries'[k] = Returned(entries[k]) /\ entries[k].attempts # 1
        <3>1. entries'[k] = [entries[k] EXCEPT !.attempts = @ - 1]
            BY <2>2 DEF Returned
        <3>2. entries[k].attempts - 1 \in Nat /\ entries[k].attempts - 1 \in 1..Limit(k)
            BY <1>3, <1>4, <2>2
        <3>3. /\ entries'[k] \in Entry /\ entries'[k].id = entries[k].id
              /\ entries'[k].attempts = entries[k].attempts - 1
              /\ entries'[k].kept = entries[k].kept
            BY <1>3, <1>4, <3>1, <3>2 DEF Entry
        <3> QED BY <1>3, <1>4, <3>2, <3>3, FiniteHolders
    <2>3. CASE entries'[k] = [entries[k] EXCEPT !.kept = @ + 1]
        <3>1. /\ entries'[k] \in Entry /\ entries'[k].id = entries[k].id
              /\ entries'[k].attempts = entries[k].attempts
              /\ entries'[k].kept = entries[k].kept + 1
            BY <1>3, <1>4, <2>3 DEF Entry
        <3> QED BY <1>3, <1>4, <3>1, FiniteHolders
    <2> QED BY <1>2, <1>4, <2>1, <2>2, <2>3
<1>5. /\ Idle \in [pc: {"idle", "clocked", "reserved"}, lag: 0..MaxLag,
                   windows: UNION {[ks -> WindowId \cup {0}] : ks \in SUBSET Key}]
      /\ Idle.pc = "idle"
    <2> DEFINE none == [k \in {} |-> 0]
    <2>1. none \in [{} -> WindowId \cup {0}] /\ {} \in SUBSET Key
        OBVIOUS
    <2>2. none \in UNION {[ks -> WindowId \cup {0}] : ks \in SUBSET Key}
        BY <2>1
    <2> HIDE DEF none
    <2>3. 0 \in 0..MaxLag
        BY SettingsAssumption
    <2> QED BY <2>2, <2>3 DEF Idle, none
<1>6. thread'[t].pc = "idle" /\ \A s \in Thread \ {t} : thread'[s] = thread[s]
    BY <1>1, <1>5 DEF ThrottleInv, TypeOK
<1>7. IsTable(entries')
    <2>1. \A k \in Key : /\ entries'[k] \in Entry
                         /\ entries'[k] = NoWindow \/ entries'[k].id \in WindowId
        BY <1>2, <1>3, <1>4 DEF ThrottleInv, IsTable
    <2> QED BY <1>2, <2>1 DEF IsTable
<1>8. TypeOK'
    <2> DEFINE Threads == [pc: {"idle", "clocked", "reserved"}, lag: 0..MaxLag,
                    windows: UNION {[ks -> WindowId \cup {0}] : ks \in SUBSET Key}]
    <2>1. Idle \in Threads /\ thread \in [Thread -> Threads]
        BY <1>5 DEF ThrottleInv, TypeOK
    <2> HIDE DEF Threads
    <2>2. thread' \in [Thread -> Threads]
        BY <1>1, <2>1
    <2>3. entries' \in [Key -> Entry]
        BY <1>7 DEF IsTable
    <2> QED BY <2>2, <2>3 DEF TypeOK, Entry, Threads
<1>9. ThreadsReserve'
    BY <1>6 DEF ThrottleInv, ThreadsReserve
<1>10. ASSUME NEW k \in Key, entries'[k] # NoWindow
       PROVE  CounterIsExact(k)'
    <2>1. CASE Mine(k)
        <3>0. entries'[k].id = entries[k].id /\ t \in Holders(k)
            BY <1>3, <1>4, <1>10, <2>1
        <3>1. Holders(k)' = Holders(k) \ {t}
            BY <1>6, <3>0 DEF Holders
        <3>2. Cardinality(Holders(k)') = Cardinality(Holders(k)) - 1
            BY <3>0, <3>1, FiniteHolders, FS_RemoveElement
        <3> QED BY <1>4, <1>10, <2>1, <3>2 DEF CounterIsExact, Limit
    <2>2. CASE ~Mine(k)
        <3>1. entries'[k] = entries[k]
            BY <1>2, <2>2
        <3>2. Holders(k)' = Holders(k)
            BY <1>6, <2>2, <3>1 DEF Holders
        <3> QED BY <1>10, <3>1, <3>2, SameCount, ExactByKey DEF ThrottleInv
    <2> QED BY <2>1, <2>2
<1>11. CountersAreExact'
    BY <1>10, NextExactByKey DEF CounterIsExact
<1>12. Used(entries') \subseteq Used(entries)
    BY <1>2, <1>3 DEF Used
<1> QED BY <1>7, <1>8, <1>9, <1>11, <1>12, SmallerTable DEF ThrottleInv

LEMMA TickInv ==
    ASSUME ThrottleInv, Tick
    PROVE  ThrottleInv'
<1>1. ASSUME NEW k \in Key
      PROVE  /\ entries'[k] \in Entry /\ entries'[k].id = entries[k].id
             /\ entries'[k].attempts = entries[k].attempts /\ entries'[k].kept = entries[k].kept
             /\ entries'[k] = NoWindow <=> entries[k] = NoWindow
    <2>1. entries[k] \in Entry /\ (entries[k] = NoWindow \/ entries[k].id \in WindowId)
        BY DEF ThrottleInv, IsTable
    <2>2. entries'[k] = IF entries[k] = NoWindow \/ entries[k].age = Oldest
                        THEN entries[k] ELSE [entries[k] EXCEPT !.age = @ + 1]
        BY DEF Tick
    <2>3. CASE entries'[k] = entries[k]
        BY <2>1, <2>3
    <2>4. CASE entries[k] # NoWindow /\ entries[k].age # Oldest
        <3>1. entries'[k] = [entries[k] EXCEPT !.age = @ + 1]
            BY <2>2, <2>4
        <3>2. entries[k].age + 1 \in 0..Oldest
            BY <2>1, <2>4, SettingsAssumption DEF Entry, Oldest
        <3>3. entries[k].id # 0
            BY <2>1, <2>4, SetsAreFinite
        <3>4. /\ entries'[k] \in Entry /\ entries'[k].id = entries[k].id
              /\ entries'[k].attempts = entries[k].attempts
              /\ entries'[k].kept = entries[k].kept
            BY <2>1, <3>1, <3>2 DEF Entry
        <3> QED BY <2>4, <3>3, <3>4 DEF NoWindow
    <2> QED BY <2>2, <2>3, <2>4
<1>2. entries' = [k \in Key |-> entries'[k]]
    BY DEF Tick
<1>3. IsTable(entries')
    BY <1>1, <1>2 DEF IsTable, ThrottleInv
<1> DEFINE Threads == [pc: {"idle", "clocked", "reserved"}, lag: 0..MaxLag,
                    windows: UNION {[ks -> WindowId \cup {0}] : ks \in SUBSET Key}]
<1>4. thread \in [Thread -> Threads]
    BY DEF ThrottleInv, TypeOK
<1>5. ASSUME NEW t \in Thread
      PROVE  /\ thread'[t] \in Threads /\ thread'[t].pc = thread[t].pc
             /\ thread'[t].windows = thread[t].windows
    <2>1. thread[t] \in Threads
        BY <1>4
    <2>2. thread'[t] = IF thread[t].pc = "clocked"
                       THEN [thread[t] EXCEPT !.lag = @ + 1] ELSE thread[t]
        BY DEF Tick
    <2>3. thread[t].pc = "clocked" => thread[t].lag + 1 \in 0..MaxLag
        BY <2>1, SettingsAssumption DEF Tick
    <2> QED BY <2>1, <2>2, <2>3
<1>6. TypeOK'
    <2>1. thread' = [t \in Thread |-> thread'[t]]
        BY DEF Tick
    <2> HIDE DEF Threads
    <2>2. thread' \in [Thread -> Threads]
        BY <1>5, <2>1
    <2>3. entries' \in [Key -> Entry]
        BY <1>3 DEF IsTable
    <2> QED BY <2>2, <2>3 DEF TypeOK, Entry, Threads
<1> HIDE DEF Threads
<1>7. ThreadsReserve'
    BY <1>5 DEF ThrottleInv, ThreadsReserve
<1>8. ASSUME NEW k \in Key, entries'[k] # NoWindow
      PROVE  CounterIsExact(k)'
    <2>1. Holders(k)' = Holders(k)
        BY <1>1, <1>5 DEF Holders
    <2> QED BY <1>1, <1>8, <2>1, SameCount, ExactByKey DEF ThrottleInv
<1>9. CountersAreExact'
    BY <1>8, NextExactByKey DEF CounterIsExact
<1>10. Used(entries') \subseteq Used(entries)
    BY <1>1 DEF Used
<1> QED BY <1>3, <1>6, <1>7, <1>9, <1>10, SmallerTable DEF ThrottleInv

LEMMA NextThrottleInv ==
    ASSUME ThrottleInv, [Next]_vars
    PROVE  ThrottleInv'
<1>1. CASE UNCHANGED vars
    BY <1>1 DEF vars, ThrottleInv, TypeOK, ThreadsReserve, IsTable, CountersAreExact, Used,
                Holders, TableIsBounded
<1> QED BY <1>1, ReadsClockInv, BeginInv, FinishInv, TickInv DEF Next

LEMMA ThrottleInvHolds == Spec => []ThrottleInv
    BY InitThrottleInv, NextThrottleInv, PTL DEF Spec

-----------------------------------------------------------------------------
(* Theorems.                                                                *)

\* The table and the threads keep their types.
THEOREM TypeCorrect == Spec => []TypeOK
    BY ThrottleInvHolds, PTL DEF ThrottleInv

\* finish_attempt returns an attempt to the window that begin_attempt reserved it
\* in, or to none: a window counts what is in flight in it and what it retains.
THEOREM ExactCounters == Spec => []CountersAreExact
    BY ThrottleInvHolds, PTL DEF ThrottleInv

\* begin_attempt makes room before it adds two windows, so the table never grows
\* beyond max_entries.
THEOREM BoundedTable == Spec => []TableIsBounded
    BY ThrottleInvHolds, PTL DEF ThrottleInv

=============================================================================
