------------------------- MODULE PolicyVersionsProofs -------------------------
(***************************************************************************)
(* Proofs about PolicyVersions for any number of requests, policies,       *)
(* versions and rules.                                                     *)
(***************************************************************************)
EXTENDS PolicyVersions, TLAPS

-----------------------------------------------------------------------------
(* Rules and their precedence.                                              *)

LEMMA OverlapSymmetric ==
    ASSUME NEW r, NEW q, RulesOverlap(r, q)
    PROVE  RulesOverlap(q, r)
    BY DEF RulesOverlap

\* Two rules that rank equally for one item in one store overlap: the check at
\* activation, which knows no item, rules out every tie of an evaluation.
LEMMA TieMeansOverlap ==
    ASSUME NEW r \in Rule, NEW q \in Rule, NEW store \in Store, NEW item \in SkuContext,
           RulePrecedence(r, store, item) # 0,
           RulePrecedence(r, store, item) = RulePrecedence(q, store, item),
           r.priority = q.priority
    PROVE  RulesOverlap(r, q)
<1>1. store # Null
    BY PolicyAssumption
<1>2. /\ SelectorKind(r) \in {"SKU", "STYLE", "CATEGORY", "DEFAULT"}
      /\ SelectorKind(q) \in {"SKU", "STYLE", "CATEGORY", "DEFAULT"}
    BY DEF SelectorKind
<1>3. /\ r.store \in {Null, store} /\ Selects(r, item)
      /\ q.store \in {Null, store} /\ Selects(q, item)
    BY DEF RulePrecedence
<1>4. /\ SelectorKind(r) = "DEFAULT" => r.store = Null
      /\ SelectorKind(q) = "DEFAULT" => q.store = Null
    BY <1>3 DEF Selects
<1>5. SelectorKind(r) = SelectorKind(q) /\ r.store = q.store
    BY <1>1, <1>2, <1>3, <1>4 DEF RulePrecedence
<1> QED
    BY <1>2, <1>3, <1>5, PolicyAssumption DEF RulesOverlap, Selects

-----------------------------------------------------------------------------
(* The inductive invariant.                                                 *)

\* No two requests hold one lock.
LocksExclude ==
    \A c, d \in Client : c # d =>
        /\ ~(/\ request[c].stage \in {"waiting", "activating"}
             /\ request[d].stage \in {"waiting", "activating"})
        /\ \A v \in Version : ~(HoldsVersion(c, v) /\ HoldsVersion(d, v))
        /\ ~(/\ request[c].stage \in {"cloning", "cloned"}
             /\ request[d].stage \in {"cloning", "cloned"}
             /\ request[c].on[1] = request[d].on[1])

\* Rules of v and the active rules of another policy.
ApartFromOthers(rows, v) ==
    \A w \in Version : \A r \in rows[v].rules, q \in rows[w].rules :
        rows[w].status = "ACTIVE" /\ w[1] # v[1] => ~RulesOverlap(r, q)

\* What a request has checked under its locks still holds.
CheckedStands ==
    \A c \in Client :
        /\ request[c].stage = "patching" => version[request[c].on].status = "DRAFT"
        /\ request[c].stage = "activating" =>
            /\ version[request[c].on].status = "DRAFT"
            /\ ValidRules(version[request[c].on].rules)
            /\ ApartFromOthers(version, request[c].on)

\* The active versions, each valid and apart from the others.
ActiveApart ==
    /\ \A v \in Version : version[v].status = "ACTIVE" =>
        ValidRules(version[v].rules) /\ ApartFromOthers(version, v)
    /\ \A v, w \in Version :
        (version[v].status = "ACTIVE" /\ version[w].status = "ACTIVE" /\ v[1] = w[1]) => v = w

\* A policy that has a retired version has an active one.
StaysLive ==
    \A v \in Version : version[v].status = "RETIRED" =>
        \E w \in Version : w[1] = v[1] /\ version[w].status = "ACTIVE"

\* n is the greatest version_number of p.
Numbered(rows, p, n) == \A k \in 1..MaxVersions : rows[<<p, k>>].status # "none" <=> k <= n

\* Version numbers have no gaps, and a clone knows the next one.
NumbersInOrder ==
    /\ \A p \in Policy : \E n \in 0..MaxVersions : Numbered(version, p, n)
    /\ \A c \in Client :
        /\ request[c].stage = "cloning" => version[request[c].on].status # "none"
        /\ request[c].stage = "cloned" =>
            request[c].on[2] >= 2 /\ Numbered(version, request[c].on[1], request[c].on[2] - 1)

IInv ==
    /\ TypeOK
    /\ LocksExclude
    /\ CheckedStands
    /\ ActiveApart
    /\ StaysLive
    /\ NumbersInOrder

-----------------------------------------------------------------------------
(* Versions.                                                                *)

\* A version is its policy and its number.
LEMMA VersionPair ==
    ASSUME NEW v \in Version
    PROVE  v[1] \in Policy /\ v[2] \in 1..MaxVersions /\ v = <<v[1], v[2]>>
    BY DEF Version

LEMMA LatestOfNumbered ==
    ASSUME NEW p \in Policy, NEW n \in 1..MaxVersions, Numbered(version, p, n)
    PROVE  Of(p) # {} /\ Latest(Of(p)) = <<p, n>>
<1>1. <<p, n>> \in Of(p)
    BY PolicyAssumption DEF Numbered, Of, Version
<1>2. \A v \in Of(p) : v[2] <= n /\ v[2] \in Int /\ v = <<p, v[2]>>
    BY PolicyAssumption, VersionPair DEF Numbered, Of
<1>3. \A v \in Of(p) : (\A w \in Of(p) : w[2] <= v[2]) => v = <<p, n>>
    BY <1>1, <1>2
<1>4. \A w \in Of(p) : w[2] <= <<p, n>>[2]
    BY <1>2
<1> QED BY <1>1, <1>3, <1>4 DEF Latest

LEMMA LatestOfOne ==
    ASSUME NEW v \in Version
    PROVE  Latest({v}) = v
<1>1. v[2] <= v[2]
    BY VersionPair, PolicyAssumption
<1> QED BY <1>1 DEF Latest

\* A clone starts from a version of its policy.
LEMMA SourceExists ==
    ASSUME IInv, NEW p \in Policy, Of(p) # {}
    PROVE  Source(p) \in Of(p)
<1> DEFINE active == {v \in Of(p) : version[v].status = "ACTIVE"}
<1>1. CASE active # {}
    <2>1. PICK v \in active : TRUE
        BY <1>1
    <2>2. active = {v}
        BY <2>1 DEF IInv, ActiveApart, Of
    <2> QED BY <1>1, <2>1, <2>2, LatestOfOne DEF Source, Of
<1>2. CASE active = {}
    <2>1. PICK n \in 0..MaxVersions : Numbered(version, p, n)
        BY DEF IInv, NumbersInOrder
    <2>2. n # 0
        BY <2>1, VersionPair, PolicyAssumption DEF Numbered, Of
    <2>3. n \in 1..MaxVersions
        BY <2>1, <2>2, PolicyAssumption
    <2>4. Latest(Of(p)) = <<p, n>>
        BY <2>1, <2>3, LatestOfNumbered
    <2>5. <<p, n>> \in Of(p)
        BY <2>1, <2>3, PolicyAssumption DEF Of, Numbered, Version
    <2> QED BY <1>2, <2>4, <2>5 DEF Source
<1> QED BY <1>1, <1>2

\* What the check of an activation establishes.
LEMMA ActivatableMeans ==
    ASSUME NEW v \in Version, Activatable(v)
    PROVE  /\ version[v].status = "DRAFT"
           /\ ValidRules(version[v].rules)
           /\ ApartFromOthers(version, v)
<1>1. ASSUME NEW w \in Version, NEW q \in version[w].rules,
             version[w].status = "ACTIVE", w[1] # v[1]
      PROVE  q \in OtherActiveRules(v[1])
    <2>1. <<w, q>> \in ActiveRules
        BY <1>1 DEF ActiveRules
    <2> QED BY <1>1, <2>1 DEF OtherActiveRules
<1> QED BY <1>1 DEF Activatable, ApartFromOthers

-----------------------------------------------------------------------------
(* The invariant is inductive.                                              *)

LEMMA InitIInv == Init => IInv
<1> SUFFICES ASSUME Init PROVE IInv
    OBVIOUS
<1>1. TypeOK
    BY DEF Init, TypeOK, Idle, Stage
<1>2. LocksExclude /\ CheckedStands /\ ActiveApart /\ StaysLive
    BY DEF Init, Idle, LocksExclude, HoldsVersion, CheckedStands, ActiveApart, StaysLive
<1>3. \A p \in Policy : Numbered(version, p, 0)
    BY PolicyAssumption DEF Init, Numbered, Version
<1>4. NumbersInOrder
    <2>1. 0 \in 0..MaxVersions
        BY PolicyAssumption
    <2>2. \A c \in Client : request[c].stage = "idle"
        BY DEF Init, Idle
    <2> QED BY <1>3, <2>1, <2>2 DEF NumbersInOrder
<1> QED BY <1>1, <1>2, <1>4 DEF IInv

\* A step of c's request that writes no version keeps what is said of versions.
LEMMA VersionsKept ==
    ASSUME IInv, UNCHANGED version
    PROVE  /\ ActiveApart' /\ StaysLive'
    BY DEF IInv, ActiveApart, StaysLive

\* Ending a request keeps the invariant.
LEMMA EndKeeps ==
    ASSUME IInv, NEW c \in Client, End(c), UNCHANGED version
    PROVE  IInv'
<1>1. request' = [request EXCEPT ![c] = Idle]
    BY DEF End
<1>2. TypeOK'
    BY <1>1 DEF IInv, TypeOK, Idle, Stage
<1>3. LocksExclude'
    BY <1>1 DEF IInv, TypeOK, LocksExclude, HoldsVersion, Idle
<1>4. CheckedStands'
    BY <1>1, VersionsKept DEF IInv, TypeOK, CheckedStands, Idle
<1>5. NumbersInOrder'
    BY <1>1, VersionsKept DEF IInv, TypeOK, NumbersInOrder, Idle
<1> QED BY <1>2, <1>3, <1>4, <1>5, VersionsKept DEF IInv

\* Taking a lock that is free, and what is checked under it.
LEMMA BeginKeeps ==
    ASSUME IInv, UNCHANGED version, NEW c \in Client, NEW new,
           new \in [stage: Stage \ {"idle"}, on: Version, rules: SUBSET Rule],
           request' = [request EXCEPT ![c] = new],
           new.stage \in {"patching", "activating"} => VersionFree(c, new.on),
           new.stage \in {"waiting", "activating"} => TenantFree(c),
           new.stage \in {"cloning", "cloned"} => PolicyFree(c, new.on[1]),
           new.stage = "patching" => version[new.on].status = "DRAFT",
           new.stage = "activating" => Activatable(new.on),
           new.stage = "cloning" => version[new.on].status # "none",
           new.stage = "cloned" => new.on[2] >= 2 /\ Numbered(version, new.on[1], new.on[2] - 1)
    PROVE  IInv'
<1>1. TypeOK'
    BY DEF IInv, TypeOK, Stage
<1>2. LocksExclude'
    BY DEF IInv, TypeOK, LocksExclude, HoldsVersion, VersionFree, TenantFree, PolicyFree
<1>3. CheckedStands'
    BY VersionsKept, ActivatableMeans DEF IInv, TypeOK, CheckedStands
<1>4. NumbersInOrder'
    BY VersionsKept DEF IInv, TypeOK, NumbersInOrder
<1> QED BY <1>1, <1>2, <1>3, <1>4, VersionsKept DEF IInv

\* Writing a draft does not touch what is active.
LEMMA DraftWritten ==
    ASSUME IInv, NEW v \in Version, version[v].status \in {"none", "DRAFT"},
           NEW rs \in SUBSET Rule,
           version' = [version EXCEPT ![v] = [status |-> "DRAFT", rules |-> rs]]
    PROVE  /\ version' \in [Version -> [status: {"none", "DRAFT", "ACTIVE", "RETIRED"},
                                        rules: SUBSET Rule]]
           /\ ActiveApart' /\ StaysLive'
           /\ \A w \in Version \ {v} : ApartFromOthers(version', w) <=> ApartFromOthers(version, w)
           /\ \A w \in Version \ {v} : version'[w] = version[w]
           /\ version'[v].status = "DRAFT"
<1>1. version' \in [Version -> [status: {"none", "DRAFT", "ACTIVE", "RETIRED"},
                                rules: SUBSET Rule]]
    BY DEF IInv, TypeOK
<1>2. /\ \A w \in Version \ {v} : version'[w] = version[w]
      /\ version'[v].status = "DRAFT"
    BY DEF IInv, TypeOK
<1>3. \A w \in Version : version'[w].status = "ACTIVE" => w # v /\ version'[w] = version[w]
    BY <1>2
<1>4. \A w \in Version \ {v} : ApartFromOthers(version', w) <=> ApartFromOthers(version, w)
    BY <1>2, <1>3 DEF ApartFromOthers
<1>5. ActiveApart'
    BY <1>2, <1>3, <1>4 DEF IInv, ActiveApart
<1>6. StaysLive'
    BY <1>2 DEF IInv, StaysLive
<1> QED BY <1>1, <1>2, <1>4, <1>5, <1>6

LEMMA CreateKeeps ==
    ASSUME IInv, NEW c \in Client, NEW p \in Policy, NEW rules \in RuleLists,
           CreatePolicy(c, p, rules)
    PROVE  IInv'
<1> DEFINE v == <<p, 1>>
<1>1. v \in Version /\ rules \in SUBSET Rule
    BY PolicyAssumption DEF Version
<1>2. \A w \in Version : w[1] = p => version[w].status = "none"
    BY DEF CreatePolicy, Of
<1>3. version[v].status = "none"
    BY <1>1, <1>2
<1>4. /\ version' = [version EXCEPT ![v] = [status |-> "DRAFT", rules |-> rules]]
      /\ request' = request
    BY DEF CreatePolicy
<1>5. /\ ActiveApart' /\ StaysLive'
      /\ \A w \in Version \ {v} : ApartFromOthers(version', w) <=> ApartFromOthers(version, w)
      /\ \A w \in Version \ {v} : version'[w] = version[w]
      /\ version'[v].status = "DRAFT"
    BY <1>1, <1>3, <1>4, DraftWritten
<1>6. TypeOK'
    BY <1>1, <1>3, <1>4, DraftWritten DEF IInv, TypeOK
<1>7. LocksExclude'
    BY <1>4 DEF IInv, LocksExclude, HoldsVersion
<1>8. CheckedStands'
    BY <1>3, <1>4, <1>5 DEF IInv, TypeOK, CheckedStands
<1>9. NumbersInOrder'
    <2>1. Numbered(version', p, 1)
        BY <1>2, <1>5, PolicyAssumption DEF Numbered, Version
    <2>2. \A q \in Policy \ {p} : \A n : Numbered(version', q, n) <=> Numbered(version, q, n)
        BY <1>5 DEF Numbered, Version
    <2>3. \A q \in Policy : \E n \in 0..MaxVersions : Numbered(version', q, n)
        BY <2>1, <2>2, PolicyAssumption DEF IInv, NumbersInOrder
    <2>4. ASSUME NEW d \in Client, request[d].stage \in {"cloning", "cloned"}
          PROVE  request[d].on[1] \in Policy \ {p} /\ request[d].on \in Version
        <3>1. request[d].on \in Version
            BY <2>4 DEF IInv, TypeOK
        <3>2. CASE request[d].stage = "cloning"
            BY <1>2, <3>1, <3>2, VersionPair DEF IInv, NumbersInOrder
        <3>3. CASE request[d].stage = "cloned"
            <4>1. version[<<request[d].on[1], 1>>].status # "none"
                BY <3>1, <3>3, VersionPair, PolicyAssumption DEF IInv, NumbersInOrder, Numbered
            <4> QED BY <1>3, <3>1, <4>1, VersionPair
        <3> QED BY <2>4, <3>2, <3>3
    <2>5. \A d \in Client : request[d].stage = "cloning" =>
                                version'[request[d].on].status # "none"
        BY <1>5, <2>4 DEF IInv, NumbersInOrder
    <2>6. \A d \in Client : request[d].stage = "cloned" =>
                /\ request[d].on[2] >= 2
                /\ Numbered(version', request[d].on[1], request[d].on[2] - 1)
        BY <2>2, <2>4 DEF IInv, NumbersInOrder
    <2> QED BY <1>4, <2>3, <2>5, <2>6 DEF NumbersInOrder
<1> QED BY <1>5, <1>6, <1>7, <1>8, <1>9 DEF IInv

LEMMA CloneKeeps ==
    ASSUME IInv, NEW c \in Client, CloneCommits(c)
    PROVE  IInv'
<1> DEFINE v == request[c].on
           p == v[1]
           m == v[2]
<1>1. /\ v \in Version /\ request[c].rules \in SUBSET Rule
      /\ request[c].stage = "cloned"
    BY DEF IInv, TypeOK, CloneCommits
<1>2. m >= 2 /\ m \in 1..MaxVersions /\ Numbered(version, p, m - 1) /\ v = <<p, m>> /\ p \in Policy
    BY <1>1, VersionPair DEF IInv, NumbersInOrder
<1>3. version[v].status = "none"
    <2>1. ~(m <= m - 1)
        BY <1>2
    <2> HIDE DEF p, m
    <2>2. version[<<p, m>>].status = "none"
        BY <1>2, <2>1 DEF Numbered
    <2> QED BY <1>2, <2>2
<1>4. /\ version' = [version EXCEPT ![v] = [status |-> "DRAFT", rules |-> request[c].rules]]
      /\ request' = [request EXCEPT ![c] = Idle]
    BY DEF CloneCommits, End
<1>5. /\ ActiveApart' /\ StaysLive'
      /\ \A w \in Version \ {v} : ApartFromOthers(version', w) <=> ApartFromOthers(version, w)
      /\ \A w \in Version \ {v} : version'[w] = version[w]
      /\ version'[v].status = "DRAFT"
    BY <1>1, <1>3, <1>4, DraftWritten
<1>6. TypeOK'
    <2>1. version' \in [Version -> [status: {"none", "DRAFT", "ACTIVE", "RETIRED"},
                                    rules: SUBSET Rule]]
        BY <1>1, <1>3, <1>4, DraftWritten
    <2> QED BY <1>4, <2>1 DEF IInv, TypeOK, Idle, Stage
<1>7. LocksExclude'
    BY <1>4 DEF IInv, TypeOK, LocksExclude, HoldsVersion, Idle
<1>8. CheckedStands'
    BY <1>3, <1>4, <1>5 DEF IInv, TypeOK, CheckedStands, Idle
<1>9. NumbersInOrder'
    <2>1. Numbered(version', p, m)
        BY <1>2, <1>5, PolicyAssumption DEF Numbered, Version
    <2>2. \A q \in Policy \ {p} : \A n : Numbered(version', q, n) <=> Numbered(version, q, n)
        BY <1>2, <1>5 DEF Numbered, Version
    <2>3. \A q \in Policy : \E n \in 0..MaxVersions : Numbered(version', q, n)
        BY <1>2, <2>1, <2>2, PolicyAssumption DEF IInv, NumbersInOrder
    <2>4. \A d \in Client \ {c} : request'[d] = request[d]
        BY <1>4 DEF IInv, TypeOK
    <2>5. request'[c].stage = "idle"
        BY <1>4 DEF IInv, TypeOK, Idle
    <2>6. ASSUME NEW d \in Client \ {c}, request[d].stage \in {"cloning", "cloned"}
          PROVE  request[d].on[1] \in Policy \ {p} /\ request[d].on \in Version
        <3>1. request[d].on \in Version
            BY <2>6 DEF IInv, TypeOK
        <3> QED BY <1>1, <2>6, <3>1, VersionPair DEF IInv, LocksExclude
    <2>7. \A d \in Client : request'[d].stage = "cloning" =>
                                version'[request'[d].on].status # "none"
        BY <1>2, <1>5, <2>4, <2>5, <2>6 DEF IInv, NumbersInOrder
    <2>8. \A d \in Client : request'[d].stage = "cloned" =>
                /\ request'[d].on[2] >= 2
                /\ Numbered(version', request'[d].on[1], request'[d].on[2] - 1)
        BY <2>2, <2>4, <2>5, <2>6 DEF IInv, NumbersInOrder
    <2> QED BY <2>3, <2>4, <2>5, <2>7, <2>8 DEF NumbersInOrder
<1> QED BY <1>5, <1>6, <1>7, <1>8, <1>9 DEF IInv

LEMMA PatchKeeps ==
    ASSUME IInv, NEW c \in Client, PatchCommits(c)
    PROVE  IInv'
<1> DEFINE v == request[c].on
<1>1. /\ v \in Version /\ request[c].rules \in SUBSET Rule
      /\ request[c].stage = "patching" /\ version[v].status = "DRAFT"
    BY DEF IInv, TypeOK, PatchCommits, CheckedStands
<1>2. /\ version' = [version EXCEPT ![v] = [status |-> "DRAFT", rules |-> request[c].rules]]
      /\ request' = [request EXCEPT ![c] = Idle]
    <2>1. [version[v] EXCEPT !.rules = request[c].rules] =
            [status |-> "DRAFT", rules |-> request[c].rules]
        BY <1>1 DEF IInv, TypeOK
    <2>2. version' = [version EXCEPT ![v] = [version[v] EXCEPT !.rules = request[c].rules]]
        BY DEF PatchCommits
    <2> QED BY <2>1, <2>2 DEF PatchCommits, End
<1>3. /\ ActiveApart' /\ StaysLive'
      /\ \A w \in Version \ {v} : ApartFromOthers(version', w) <=> ApartFromOthers(version, w)
      /\ \A w \in Version \ {v} : version'[w] = version[w]
      /\ version'[v].status = "DRAFT"
    BY <1>1, <1>2, DraftWritten
<1>4. TypeOK'
    <2>1. version' \in [Version -> [status: {"none", "DRAFT", "ACTIVE", "RETIRED"},
                                    rules: SUBSET Rule]]
        BY <1>1, <1>2, DraftWritten
    <2> QED BY <1>2, <2>1 DEF IInv, TypeOK, Idle, Stage
<1>5. LocksExclude'
    BY <1>2 DEF IInv, TypeOK, LocksExclude, HoldsVersion, Idle
<1>6. \A d \in Client : /\ request'[d].stage # "idle" => d # c
                        /\ d # c => request'[d] = request[d]
    BY <1>2 DEF IInv, TypeOK, Idle
<1>7. CheckedStands'
    <2>1. ASSUME NEW d \in Client, d # c, request[d].stage \in {"patching", "activating"}
          PROVE  request[d].on \in Version \ {v}
        BY <1>1, <2>1 DEF IInv, TypeOK, LocksExclude, HoldsVersion
    <2> QED BY <1>3, <1>6, <2>1 DEF IInv, CheckedStands
<1>8. NumbersInOrder'
    <2>1. \A w \in Version : version'[w].status = version[w].status
        BY <1>1, <1>3
    <2>2. \A p \in Policy : \A n : Numbered(version', p, n) <=> Numbered(version, p, n)
        BY <2>1 DEF Numbered, Version
    <2>3. \A d \in Client : request[d].stage \in {"cloning", "cloned"} =>
                            request[d].on \in Version /\ request[d].on[1] \in Policy
        BY VersionPair DEF IInv, TypeOK
    <2> QED BY <1>6, <2>1, <2>2, <2>3 DEF IInv, NumbersInOrder
<1> QED BY <1>3, <1>4, <1>5, <1>7, <1>8 DEF IInv

LEMMA ActivateKeeps ==
    ASSUME IInv, NEW c \in Client, ActivateCommits(c)
    PROVE  IInv'
<1> DEFINE v == request[c].on
<1>1. /\ v \in Version /\ request[c].stage = "activating"
      /\ version[v].status = "DRAFT"
      /\ ValidRules(version[v].rules) /\ ApartFromOthers(version, v)
    BY DEF IInv, TypeOK, ActivateCommits, CheckedStands
<1>2. /\ version' = [w \in Version |->
                        IF w = v THEN [version[w] EXCEPT !.status = "ACTIVE"]
                        ELSE IF Retired(w, v) THEN [version[w] EXCEPT !.status = "RETIRED"]
                        ELSE version[w]]
      /\ request' = [request EXCEPT ![c] = Idle]
    BY DEF ActivateCommits, End
<1>3. version' \in [Version -> [status: {"none", "DRAFT", "ACTIVE", "RETIRED"},
                                rules: SUBSET Rule]]
    BY <1>2 DEF IInv, TypeOK
<1>4. \A w \in Version : version'[w].rules = version[w].rules
    BY <1>2 DEF IInv, TypeOK
<1>5. /\ version'[v].status = "ACTIVE"
      /\ \A w \in Version \ {v} :
            version'[w].status = IF version[w].status = "ACTIVE" /\ w[1] = v[1]
                                 THEN "RETIRED" ELSE version[w].status
    BY <1>1, <1>2 DEF IInv, TypeOK, Retired
<1>6. TypeOK'
    BY <1>2, <1>3 DEF IInv, TypeOK, Idle, Stage
<1>7. LocksExclude'
    BY <1>2 DEF IInv, TypeOK, LocksExclude, HoldsVersion, Idle
<1>8. \A d \in Client : /\ request'[d].stage # "idle" => d # c
                        /\ d # c => request'[d] = request[d]
    BY <1>2 DEF IInv, TypeOK, Idle
<1>9. CheckedStands'
    <2>1. ASSUME NEW d \in Client, d # c
          PROVE  /\ request[d].stage # "activating"
                 /\ request[d].stage = "patching" => request[d].on \in Version \ {v}
        BY <1>1, <2>1 DEF IInv, TypeOK, LocksExclude, HoldsVersion
    <2> QED BY <1>5, <1>8, <2>1 DEF IInv, CheckedStands
<1>10. ActiveApart'
    <2>1. \A w \in Version : version'[w].status = "ACTIVE" =>
                w = v \/ (version[w].status = "ACTIVE" /\ w[1] # v[1])
        BY <1>5
    <2>2. ApartFromOthers(version', v)
        BY <1>1, <1>4, <2>1 DEF ApartFromOthers
    <2>3. ASSUME NEW w \in Version, w # v, version'[w].status = "ACTIVE"
          PROVE  ValidRules(version'[w].rules) /\ ApartFromOthers(version', w)
        <3>1. version[w].status = "ACTIVE" /\ w[1] # v[1]
            BY <2>1, <2>3
        <3>2. ValidRules(version[w].rules) /\ ApartFromOthers(version, w)
            BY <3>1 DEF IInv, ActiveApart
        <3>3. \A r \in version[w].rules, q \in version[v].rules : ~RulesOverlap(r, q)
            BY <1>1, <3>1, OverlapSymmetric DEF ApartFromOthers
        <3> QED BY <1>1, <1>4, <2>1, <3>2, <3>3 DEF ApartFromOthers
    <2>4. ValidRules(version'[v].rules)
        BY <1>1, <1>4
    <2>5. \A w, x \in Version :
            (version'[w].status = "ACTIVE" /\ version'[x].status = "ACTIVE" /\ w[1] = x[1])
                => w = x
        BY <2>1 DEF IInv, ActiveApart
    <2> QED BY <2>2, <2>3, <2>4, <2>5 DEF ActiveApart
<1>11. StaysLive'
    <2>1. ASSUME NEW w \in Version, version'[w].status = "RETIRED"
          PROVE  \E x \in Version : x[1] = w[1] /\ version'[x].status = "ACTIVE"
        <3>1. CASE w[1] = v[1]
            BY <1>1, <1>5, <3>1
        <3>2. CASE w[1] # v[1]
            BY <1>5, <2>1, <3>2 DEF IInv, StaysLive
        <3> QED BY <3>1, <3>2
    <2> QED BY <2>1 DEF StaysLive
<1>12. NumbersInOrder'
    <2>1. \A w \in Version : version'[w].status # "none" <=> version[w].status # "none"
        BY <1>1, <1>5
    <2>2. \A p \in Policy : \A n : Numbered(version', p, n) <=> Numbered(version, p, n)
        BY <2>1 DEF Numbered, Version
    <2>3. \A d \in Client : request[d].stage \in {"cloning", "cloned"} =>
                            request[d].on \in Version /\ request[d].on[1] \in Policy
        BY VersionPair DEF IInv, TypeOK
    <2> QED BY <1>8, <2>1, <2>2, <2>3 DEF IInv, NumbersInOrder
<1> QED BY <1>6, <1>7, <1>9, <1>10, <1>11, <1>12 DEF IInv

\* The steps of a request that only take locks or give them back.
LEMMA LockStepKeeps ==
    ASSUME IInv, NEW c \in Client,
           \/ \E p \in Policy : CloneBegins(c, p)
           \/ CloneReads(c)
           \/ \E v \in Version, rules \in RuleLists : PatchBegins(c, v, rules)
           \/ \E v \in Version : ActivateBegins(c, v)
           \/ ActivateChecks(c)
           \/ ActivateRefused(c) \/ RollBack(c) \/ AbortDeadlock(c)
    PROVE  IInv'
<1>1. ASSUME NEW p \in Policy, CloneBegins(c, p)
      PROVE  IInv'
    <2> DEFINE new == [stage |-> "cloning", on |-> Source(p), rules |-> {}]
    <2>1. Source(p) \in Version /\ Source(p)[1] = p /\ version[Source(p)].status # "none"
        BY <1>1, SourceExists DEF CloneBegins, Of
    <2>2. new \in [stage: Stage \ {"idle"}, on: Version, rules: SUBSET Rule]
        BY <2>1 DEF Stage
    <2>3. request' = [request EXCEPT ![c] = new] /\ UNCHANGED version /\ PolicyFree(c, p)
        BY <1>1 DEF CloneBegins
    <2> QED BY <2>1, <2>2, <2>3, BeginKeeps
<1>2. ASSUME CloneReads(c)
      PROVE  IInv'
    <2> DEFINE p == request[c].on[1]
    <2>1. request[c].on \in Version /\ request[c].stage = "cloning" /\ p \in Policy
        BY <1>2, VersionPair DEF CloneReads, IInv, TypeOK
    <2>2. PICK n \in 0..MaxVersions : Numbered(version, p, n)
        BY <2>1 DEF IInv, NumbersInOrder
    <2>3. n # 0
        <3>1. version[<<p, request[c].on[2]>>].status # "none"
            BY <2>1, VersionPair DEF IInv, NumbersInOrder
        <3>2. request[c].on[2] \in 1..MaxVersions
            BY <2>1, VersionPair
        <3> QED BY <2>2, <3>1, <3>2, PolicyAssumption DEF Numbered
    <2>4. n \in 1..MaxVersions
        BY <2>2, <2>3, PolicyAssumption
    <2>5. Latest(Of(p))[2] = n
        BY <2>1, <2>2, <2>4, LatestOfNumbered
    <2> DEFINE new == [stage |-> "cloned", on |-> <<p, n + 1>>,
                       rules |-> version[request[c].on].rules]
    <2>6. n + 1 <= MaxVersions /\ request' = [request EXCEPT ![c] = new] /\ UNCHANGED version
        BY <1>2, <2>5 DEF CloneReads
    <2>7. <<p, n + 1>> \in Version
        BY <2>1, <2>4, <2>6, PolicyAssumption DEF Version
    <2>8. new \in [stage: Stage \ {"idle"}, on: Version, rules: SUBSET Rule]
        BY <2>1, <2>7 DEF Stage, IInv, TypeOK
    <2>9. PolicyFree(c, p)
        BY <2>1 DEF PolicyFree, IInv, LocksExclude
    <2>10. new.on[1] = p /\ new.on[2] >= 2 /\ new.on[2] - 1 = n
        BY <2>4, PolicyAssumption
    <2> QED BY <2>2, <2>6, <2>8, <2>9, <2>10, BeginKeeps
<1>3. ASSUME NEW v \in Version, NEW rules \in RuleLists, PatchBegins(c, v, rules)
      PROVE  IInv'
    <2> DEFINE new == [stage |-> "patching", on |-> v, rules |-> rules]
    <2>1. new \in [stage: Stage \ {"idle"}, on: Version, rules: SUBSET Rule]
        BY PolicyAssumption DEF Stage
    <2>2. /\ request' = [request EXCEPT ![c] = new] /\ UNCHANGED version
          /\ VersionFree(c, v) /\ version[v].status = "DRAFT"
        BY <1>3 DEF PatchBegins
    <2> QED BY <2>1, <2>2, BeginKeeps
<1>4. ASSUME NEW v \in Version, ActivateBegins(c, v)
      PROVE  IInv'
    <2> DEFINE new == [stage |-> "waiting", on |-> v, rules |-> {}]
    <2>1. new \in [stage: Stage \ {"idle"}, on: Version, rules: SUBSET Rule]
        BY DEF Stage
    <2>2. request' = [request EXCEPT ![c] = new] /\ UNCHANGED version /\ TenantFree(c)
        BY <1>4 DEF ActivateBegins
    <2> QED BY <2>1, <2>2, BeginKeeps
<1>5. ASSUME ActivateChecks(c)
      PROVE  IInv'
    <2> DEFINE new == [request[c] EXCEPT !.stage = "activating"]
    <2>1. request[c].on \in Version /\ request[c].stage = "waiting"
        BY <1>5 DEF ActivateChecks, IInv, TypeOK
    <2>2. /\ new \in [stage: Stage \ {"idle"}, on: Version, rules: SUBSET Rule]
          /\ new.stage = "activating" /\ new.on = request[c].on
        BY <2>1 DEF Stage, IInv, TypeOK
    <2>3. TenantFree(c)
        BY <2>1 DEF TenantFree, IInv, LocksExclude
    <2>4. /\ request' = [request EXCEPT ![c] = new] /\ UNCHANGED version
          /\ VersionFree(c, request[c].on) /\ Activatable(request[c].on)
        BY <1>5 DEF ActivateChecks
    <2> QED BY <2>2, <2>3, <2>4, BeginKeeps
<1>6. CASE ActivateRefused(c) \/ RollBack(c) \/ AbortDeadlock(c)
    BY <1>6, EndKeeps DEF ActivateRefused, RollBack, AbortDeadlock
<1> QED BY <1>1, <1>2, <1>3, <1>4, <1>5, <1>6

LEMMA NextIInv == IInv /\ [Next]_vars => IInv'
<1> SUFFICES ASSUME IInv, [Next]_vars PROVE IInv'
    OBVIOUS
<1>1. CASE UNCHANGED vars
    BY <1>1 DEF vars, IInv, TypeOK, LocksExclude, HoldsVersion, CheckedStands, ActiveApart,
                StaysLive, NumbersInOrder
<1>2. CASE Next
    BY <1>2, CreateKeeps, CloneKeeps, PatchKeeps, ActivateKeeps, LockStepKeeps
       DEF Next, Begin, Continue
<1> QED BY <1>1, <1>2

LEMMA AlwaysIInv == Spec => []IInv
    BY InitIInv, NextIInv, PTL DEF Spec

-----------------------------------------------------------------------------
(* The theorems.                                                            *)

\* Requests hold locks on versions that exist, with rules of the schema.
THEOREM TypeCorrect == Spec => []TypeOK
<1>1. IInv => TypeOK
    BY DEF IInv
<1> QED BY <1>1, AlwaysIInv, PTL

\* No evaluation ever meets two best rules, so active_policy_overlap is answered
\* by activate_policy_version only, never by evaluate_replenishment.
THEOREM SelectionUnambiguous == Spec => []UnambiguousSelection
<1>1. IInv => UnambiguousSelection
    <2> SUFFICES ASSUME IInv, NEW store \in Store, NEW item \in SkuContext,
                        NEW a \in SelectPolicyRule(store, item),
                        NEW b \in SelectPolicyRule(store, item), a # b
                 PROVE  FALSE
        BY DEF UnambiguousSelection
    <2>1. /\ a \in ActiveRules /\ b \in ActiveRules
          /\ RulePrecedence(a[2], store, item) # 0
          /\ ~Outranks(a[2], b[2], store, item) /\ ~Outranks(b[2], a[2], store, item)
        BY DEF SelectPolicyRule, Candidates
    <2>2. PICK v \in Version, r \in Rule :
                a = <<v, r>> /\ version[v].status = "ACTIVE" /\ r \in version[v].rules
        BY <2>1 DEF ActiveRules, IInv, TypeOK
    <2>3. PICK w \in Version, q \in Rule :
                b = <<w, q>> /\ version[w].status = "ACTIVE" /\ q \in version[w].rules
        BY <2>1 DEF ActiveRules, IInv, TypeOK
    <2>4. r.priority \in Int /\ q.priority \in Int
        BY PolicyAssumption DEF Rule
    <2>5. RulePrecedence(r, store, item) \in Int /\ RulePrecedence(q, store, item) \in Int
        BY DEF RulePrecedence
    <2>6. /\ RulePrecedence(r, store, item) = RulePrecedence(q, store, item)
          /\ r.priority = q.priority
        BY <2>1, <2>2, <2>3, <2>4, <2>5 DEF Outranks
    <2>7. RulesOverlap(r, q)
        BY <2>1, <2>2, <2>6, TieMeansOverlap
    <2>8. CASE v = w
        BY <2>2, <2>3, <2>7, <2>8 DEF IInv, ActiveApart, ValidRules
    <2>9. CASE v # w
        BY <2>2, <2>3, <2>7, <2>9 DEF IInv, ActiveApart, ApartFromOthers
    <2> QED BY <2>8, <2>9
<1> QED BY <1>1, AlwaysIInv, PTL

\* The lock on the version, which patch and activation both take, keeps a patch
\* from changing a version that has been activated, and the lock on the policy
\* keeps a clone from taking its number.
THEOREM ActiveImmutable == Spec => ActiveVersionsImmutable
<1> DEFINE Step == \A v \in Version :
        version[v].status \in {"ACTIVE", "RETIRED"} =>
            /\ version'[v].rules = version[v].rules
            /\ version'[v].status \in {version[v].status, "RETIRED"}
<1>1. IInv /\ [Next]_vars => [Step]_vars
    <2> SUFFICES ASSUME IInv, Next, NEW v \in Version,
                        version[v].status \in {"ACTIVE", "RETIRED"}
                 PROVE  /\ version'[v].rules = version[v].rules
                        /\ version'[v].status \in {version[v].status, "RETIRED"}
        OBVIOUS
    <2>1. PICK c \in Client : Begin(c) \/ Continue(c) \/ RollBack(c) \/ AbortDeadlock(c)
        BY DEF Next
    <2>2. CASE UNCHANGED version
        BY <2>2
    <2>3. ASSUME NEW p \in Policy, NEW rules \in RuleLists, CreatePolicy(c, p, rules)
          PROVE  version'[v] = version[v]
        <3>1. v # <<p, 1>>
            BY <2>3 DEF CreatePolicy, Of
        <3> QED BY <2>3, <3>1 DEF CreatePolicy, IInv, TypeOK
    <2>4. ASSUME CloneCommits(c)
          PROVE  version'[v] = version[v]
        <3>1. request[c].on \in Version /\ request[c].on[2] \in 1..MaxVersions
            BY <2>4, VersionPair DEF CloneCommits, IInv, TypeOK
        <3>2. Numbered(version, request[c].on[1], request[c].on[2] - 1)
            BY <2>4 DEF CloneCommits, IInv, NumbersInOrder
        <3>3. v # request[c].on
            BY <3>1, <3>2, VersionPair, PolicyAssumption DEF Numbered
        <3> QED BY <2>4, <3>3 DEF CloneCommits, IInv, TypeOK
    <2>5. ASSUME PatchCommits(c)
          PROVE  version'[v] = version[v]
        BY <2>5 DEF PatchCommits, IInv, TypeOK, CheckedStands
    <2>6. ASSUME ActivateCommits(c)
          PROVE  /\ version'[v].rules = version[v].rules
                 /\ version'[v].status \in {version[v].status, "RETIRED"}
        BY <2>6 DEF ActivateCommits, IInv, TypeOK, CheckedStands
    <2> QED BY <2>1, <2>2, <2>3, <2>4, <2>5, <2>6
            DEF Begin, Continue, CloneBegins, CloneReads, PatchBegins, ActivateBegins,
                ActivateChecks, ActivateRefused, RollBack, AbortDeadlock
<1>2. [][Step]_vars => ActiveVersionsImmutable
    BY PTL DEF ActiveVersionsImmutable
<1> QED BY <1>1, <1>2, AlwaysIInv, PTL DEF Spec

\* A policy that has been active is discovered by the version evaluations use.
THEOREM DiscoveryExact == Spec => []DiscoveryShowsWhatIsEvaluated
<1>1. IInv => DiscoveryShowsWhatIsEvaluated
    <2> SUFFICES ASSUME IInv, NEW v \in Version, version[v].status \in {"ACTIVE", "RETIRED"}
                 PROVE  {w \in Of(v[1]) : version[w].status = "ACTIVE"} = {Discovered(v[1])}
        BY DEF DiscoveryShowsWhatIsEvaluated
    <2> DEFINE active == {w \in Of(v[1]) : version[w].status = "ACTIVE"}
    <2>1. PICK x \in Version : x[1] = v[1] /\ version[x].status = "ACTIVE"
        BY DEF IInv, StaysLive
    <2>2. active = {x}
        BY <2>1 DEF IInv, ActiveApart, Of
    <2>3. Discovered(v[1]) = Latest(active)
        BY <2>2 DEF Discovered
    <2> QED BY <2>1, <2>2, <2>3, LatestOfOne
<1> QED BY <1>1, AlwaysIInv, PTL

\* The unique constraint on version numbers is never violated by a clone.
THEOREM CloneNeverConflicts == Spec => []ClonedNumberIsFree
<1>1. IInv => ClonedNumberIsFree
    <2> SUFFICES ASSUME IInv, NEW c \in Client, request[c].stage = "cloned"
                 PROVE  version[request[c].on].status = "none"
        BY DEF ClonedNumberIsFree
    <2>1. request[c].on \in Version
        BY DEF IInv, TypeOK
    <2>2. Numbered(version, request[c].on[1], request[c].on[2] - 1)
        BY DEF IInv, NumbersInOrder
    <2>3. request[c].on[2] \in 1..MaxVersions /\ ~(request[c].on[2] <= request[c].on[2] - 1)
        BY <2>1, VersionPair, PolicyAssumption
    <2>4. version[<<request[c].on[1], request[c].on[2]>>].status = "none"
        BY <2>2, <2>3 DEF Numbered
    <2> QED BY <2>1, <2>4, VersionPair
<1> QED BY <1>1, AlwaysIInv, PTL

=============================================================================
