---------------------------- MODULE PolicyVersions ----------------------------
(***************************************************************************)
(* Replenishment policies: their versions and rules, the requests that     *)
(* create, clone, patch and activate them with the row locks these take,   *)
(* and the selection of the one rule an evaluation applies to an item.     *)
(*                                                                         *)
(* A version is the pair of its policy and its version_number. A request   *)
(* holds its locks from one of its steps to the last one. Locks of         *)
(* PostgreSQL are modelled where they exclude each other: FOR UPDATE on a  *)
(* policy, a version or the tenant, and the FOR KEY SHARE on the tenant    *)
(* that every insert takes for its foreign key. The unique constraints are *)
(* left out: the properties say that the locks alone rule a conflict out.  *)
(*                                                                         *)
(* A request that is refused before it holds a lock changes nothing and is *)
(* no step. Labels are compared with casefold: elements of Style, Category *)
(* and Size are labels up to case.                                         *)
(***************************************************************************)
EXTENDS Integers, FiniteSets

CONSTANTS
    Client,       \* concurrent requests
    Policy,
    MaxVersions,  \* bound: versions of a policy
    Store, Sku, Style, Category, Size, Priority,
    Null,         \* the absent value of an optional column
    RuleLists     \* the rule lists that requests carry

Rule == [store: Store \cup {Null}, sku: Sku \cup {Null}, style: Style \cup {Null},
         category: Category \cup {Null}, size: Size \cup {Null}, priority: Priority]
SkuContext == [sku: Sku, style: Style, category: Category, size: Size]

\* PolicyRuleWrite.validate_selector
WellFormed(rule) ==
    LET selectors == {f \in {"sku", "style", "category"} : rule[f] # Null} IN
    /\ Cardinality(selectors) <= 1
    /\ rule.size # Null => rule.sku # Null
    /\ rule.store # Null => selectors # {}

ASSUME PolicyAssumption ==
    /\ MaxVersions \in Nat \ {0}
    /\ Priority \subseteq Int
    /\ Null \notin Store \cup Sku \cup Style \cup Category \cup Size
    /\ \A rules \in RuleLists : rules # {} /\ \A r \in rules : r \in Rule /\ WellFormed(r)

Version == Policy \X (1..MaxVersions)
NoVersion == <<Null, 0>>

VARIABLES
    version,  \* per version: status and rules
    request   \* per client: where its request is, on which version, with which rules

vars == <<version, request>>

Idle == [stage |-> "idle", on |-> NoVersion, rules |-> {}]

Stage == {"idle", "patching", "waiting", "activating", "cloning", "cloned"}

TypeOK ==
    /\ version \in [Version -> [status: {"none", "DRAFT", "ACTIVE", "RETIRED"},
                                rules: SUBSET Rule]]
    /\ request \in [Client -> [stage: Stage, on: Version \cup {NoVersion},
                               rules: SUBSET Rule]]
    /\ \A c \in Client : request[c].stage # "idle" => request[c].on \in Version

Init ==
    /\ version = [v \in Version |-> [status |-> "none", rules |-> {}]]
    /\ request = [c \in Client |-> Idle]

-----------------------------------------------------------------------------
(* Rules.                                                                   *)

SelectorKind(rule) ==
    IF rule.sku # Null THEN "SKU"
    ELSE IF rule.style # Null THEN "STYLE"
    ELSE IF rule.category # Null THEN "CATEGORY" ELSE "DEFAULT"

\* Does the rule's selector select the item?
Selects(rule, item) ==
    LET kind == SelectorKind(rule) IN
    \/ kind = "SKU" /\ rule.sku = item.sku /\ rule.size \in {Null, item.size}
    \/ kind = "STYLE" /\ rule.style = item.style
    \/ kind = "CATEGORY" /\ rule.category = item.category
    \/ kind = "DEFAULT" /\ rule.store = Null

\* None is 0.
RulePrecedence(rule, store, item) ==
    LET kind == SelectorKind(rule)
        specificity == IF kind = "SKU" THEN 4
                       ELSE IF kind = "STYLE" THEN 3
                       ELSE IF kind = "CATEGORY" THEN 2 ELSE 1
    IN  IF rule.store \notin {Null, store} \/ ~Selects(rule, item) THEN 0
        ELSE specificity + (IF rule.store = Null THEN 0 ELSE 3)

RulesOverlap(left, right) ==
    /\ left.priority = right.priority /\ left.store = right.store
    /\ SelectorKind(left) = SelectorKind(right)
    /\ \/ SelectorKind(left) = "DEFAULT"
       \/ SelectorKind(left) = "CATEGORY" /\ left.category = right.category
       \/ SelectorKind(left) = "STYLE" /\ left.style = right.style
       \/ /\ SelectorKind(left) = "SKU" /\ left.sku = right.sku
          /\ left.size = Null \/ right.size = Null \/ left.size = right.size

\* _validate_rules, without its look at stores and catalog, which may refuse any
\* list (RollBack). A list with a repeated rule overlaps itself and is refused.
ValidRules(rules) ==
    /\ \A r \in rules : ~(r.store # Null /\ SelectorKind(r) = "DEFAULT")
    /\ \A r, q \in rules : r # q => ~RulesOverlap(r, q)

\* The rules an evaluation reads, each with the version it belongs to.
ActiveRules ==
    UNION {{v} \X version[v].rules : v \in {w \in Version : version[w].status = "ACTIVE"}}

Candidates(store, item) ==
    {a \in ActiveRules : RulePrecedence(a[2], store, item) # 0}

\* The order of the candidates: by precedence, then by priority.
Outranks(left, right, store, item) ==
    LET l == RulePrecedence(left, store, item)
        r == RulePrecedence(right, store, item)
    IN  l > r \/ (l = r /\ left.priority > right.priority)

\* select_policy_rule raises if this set has more than one element.
SelectPolicyRule(store, item) ==
    {a \in Candidates(store, item) :
        \A b \in Candidates(store, item) : ~Outranks(b[2], a[2], store, item)}

-----------------------------------------------------------------------------
(* Row locks.                                                               *)

HoldsVersion(c, v) ==
    request[c].on = v /\ request[c].stage \in {"patching", "activating"}

\* Mutant: a version is read without FOR UPDATE.
VersionUnlocked(c, v) == TRUE

VersionFree(c, v) == \A d \in Client \ {c} : ~HoldsVersion(d, v)

\* Mutant: activation does not lock the tenant.
TenantUnlocked(c) == TRUE

TenantFree(c) ==
    \A d \in Client \ {c} : request[d].stage \notin {"waiting", "activating"}

\* Mutant: a policy is read without FOR UPDATE.
PolicyUnlocked(c, p) == TRUE

PolicyFree(c, p) ==
    \A d \in Client \ {c} :
        ~(request[d].on[1] = p /\ request[d].stage \in {"cloning", "cloned"})

-----------------------------------------------------------------------------
(* The requests.                                                            *)

Of(p) == {v \in Version : v[1] = p /\ version[v].status # "none"}

Latest(vs) == CHOOSE v \in vs : \A w \in vs : w[2] <= v[2]

\* Ends a request, and with it its locks.
End(c) == request' = [request EXCEPT ![c] = Idle]

\* create_policy. A name that is taken is refused.
CreatePolicy(c, p, rules) ==
    /\ request[c].stage = "idle"
    /\ Of(p) = {} /\ ValidRules(rules)
    /\ TenantFree(c)
    /\ version' = [version EXCEPT ![<<p, 1>>] = [status |-> "DRAFT", rules |-> rules]]
    /\ UNCHANGED request

\* Mutant: only an active version can be cloned.
SourceActive(p) ==
    LET active == {v \in Of(p) : version[v].status = "ACTIVE"}
    IN  IF active # {} THEN Latest(active) ELSE NoVersion

\* The version a clone starts from.
Source(p) ==
    LET active == {v \in Of(p) : version[v].status = "ACTIVE"}
    IN  IF active # {} THEN Latest(active) ELSE Latest(Of(p))

\* clone_policy_version locks the policy and selects its source.
CloneBegins(c, p) ==
    /\ request[c].stage = "idle"
    /\ Of(p) # {}
    /\ PolicyFree(c, p)
    /\ request' = [request EXCEPT ![c] = [stage |-> "cloning", on |-> Source(p), rules |-> {}]]
    /\ UNCHANGED version

\* It reads the rules of the source, which a patch may have changed by now, and
\* the next number.
CloneReads(c) ==
    LET source == request[c].on
        next == Latest(Of(source[1]))[2] + 1
    IN  /\ request[c].stage = "cloning"
        /\ next <= MaxVersions
        /\ request' = [request EXCEPT ![c] = [stage |-> "cloned", on |-> <<source[1], next>>,
                                              rules |-> version[source].rules]]
        /\ UNCHANGED version

CloneCommits(c) ==
    /\ request[c].stage = "cloned"
    /\ TenantFree(c)
    /\ version' = [version EXCEPT ![request[c].on] =
                        [status |-> "DRAFT", rules |-> request[c].rules]]
    /\ End(c)

\* patch_policy_version locks the version and checks it and the new rules.
PatchBegins(c, v, rules) ==
    /\ request[c].stage = "idle"
    /\ VersionFree(c, v)
    /\ version[v].status = "DRAFT" /\ ValidRules(rules)
    /\ request' = [request EXCEPT ![c] = [stage |-> "patching", on |-> v, rules |-> rules]]
    /\ UNCHANGED version

PatchCommits(c) ==
    /\ request[c].stage = "patching"
    /\ TenantFree(c)
    /\ version' = [version EXCEPT ![request[c].on].rules = request[c].rules]
    /\ End(c)

\* activate_policy_version locks the tenant first.
ActivateBegins(c, v) ==
    /\ request[c].stage = "idle"
    /\ version[v].status # "none"
    /\ TenantFree(c)
    /\ request' = [request EXCEPT ![c] = [stage |-> "waiting", on |-> v, rules |-> {}]]
    /\ UNCHANGED version

\* The active rules of the other policies.
OtherActiveRules(p) == {a[2] : a \in {b \in ActiveRules : b[1][1] # p}}

Activatable(v) ==
    /\ version[v].status = "DRAFT"
    /\ version[v].rules # {} /\ ValidRules(version[v].rules)
    /\ \A r \in version[v].rules, q \in OtherActiveRules(v[1]) : ~RulesOverlap(r, q)

\* Then it locks the version, reads it and the rules of others and checks them.
ActivateChecks(c) ==
    /\ request[c].stage = "waiting"
    /\ VersionFree(c, request[c].on)
    /\ Activatable(request[c].on)
    /\ request' = [request EXCEPT ![c].stage = "activating"]
    /\ UNCHANGED version

\* Mutant: the transaction of a refused request is not ended.
ActivateRefusedHolding(c) ==
    /\ request[c].stage = "waiting"
    /\ VersionFree(c, request[c].on)
    /\ ~Activatable(request[c].on)
    /\ UNCHANGED vars

\* The version is active already, retired, empty, invalid or overlaps.
ActivateRefused(c) ==
    /\ request[c].stage = "waiting"
    /\ VersionFree(c, request[c].on)
    /\ ~Activatable(request[c].on)
    /\ End(c)
    /\ UNCHANGED version

Retired(w, v) == w[1] = v[1] /\ w # v /\ version[w].status = "ACTIVE"

ActivateCommits(c) ==
    LET v == request[c].on IN
    /\ request[c].stage = "activating"
    /\ version' = [w \in Version |->
                    IF w = v THEN [version[w] EXCEPT !.status = "ACTIVE"]
                    ELSE IF Retired(w, v) THEN [version[w] EXCEPT !.status = "RETIRED"]
                    ELSE version[w]]
    /\ End(c)

\* Refused for its scope, stores or catalog entries, or its connection is lost.
RollBack(c) ==
    /\ request[c].stage # "idle"
    /\ End(c)
    /\ UNCHANGED version

\* A patch waits for the tenant, and the activation that holds it waits for the
\* version of the patch. PostgreSQL aborts one of the two.
Deadlocked(c, d) ==
    /\ request[c].stage = "patching" /\ request[d].stage = "waiting"
    /\ request[c].on = request[d].on

AbortDeadlock(c) ==
    /\ \E d \in Client : Deadlocked(c, d) \/ Deadlocked(d, c)
    /\ End(c)
    /\ UNCHANGED version

-----------------------------------------------------------------------------
Continue(c) ==
    \/ CloneReads(c) \/ CloneCommits(c)
    \/ PatchCommits(c)
    \/ ActivateChecks(c) \/ ActivateRefused(c) \/ ActivateCommits(c)

Begin(c) ==
    \/ \E p \in Policy, rules \in RuleLists : CreatePolicy(c, p, rules)
    \/ \E p \in Policy : CloneBegins(c, p)
    \/ \E v \in Version, rules \in RuleLists : PatchBegins(c, v, rules)
    \/ \E v \in Version : ActivateBegins(c, v)

Next ==
    \E c \in Client : Begin(c) \/ Continue(c) \/ RollBack(c) \/ AbortDeadlock(c)

Spec == Init /\ [][Next]_vars

\* A request runs on while it need not wait; waiters for a row lock are served in
\* turn; the deadlock detector runs after deadlock_timeout. A clone that the bound
\* on versions stops is rolled back.
FairSpec ==
    /\ Spec
    /\ \A c \in Client : /\ SF_vars(Continue(c))
                         /\ WF_vars(AbortDeadlock(c))
                         /\ WF_vars(request[c].stage = "cloning" /\ RollBack(c))

-----------------------------------------------------------------------------
(* Properties.                                                              *)

\* "Equal-specificity rules use explicit priority; equal-priority overlaps are
\* rejected": whatever was activated, in whatever order and next to whatever
\* patches, no evaluation finds two best rules for an item and answers 409.
UnambiguousSelection ==
    \A store \in Store, item \in SkuContext :
        \A a, b \in SelectPolicyRule(store, item) : a = b

\* "Active policy versions are immutable", and so are retired ones, which the
\* tasks they created refer to. A retired version does not come back.
ActiveVersionsImmutable ==
    [][\A v \in Version :
        version[v].status \in {"ACTIVE", "RETIRED"} =>
            /\ version'[v].rules = version[v].rules
            /\ version'[v].status \in {version[v].status, "RETIRED"}]_vars

\* Mutant: the latest version is shown.
DiscoveredLatest(p) == Latest(Of(p))

\* What _selected_policy_versions ranks first: active, draft, retired, and then
\* the greatest number.
Discovered(p) ==
    LET of(status) == {v \in Of(p) : version[v].status = status} IN
    IF of("ACTIVE") # {} THEN Latest(of("ACTIVE"))
    ELSE IF of("DRAFT") # {} THEN Latest(of("DRAFT")) ELSE Latest(of("RETIRED"))

\* "Policy discovery returns the active version by default": the version shown
\* for a policy that has ever been active is the one, and the only one, whose
\* rules evaluations use.
DiscoveryShowsWhatIsEvaluated ==
    \A v \in Version :
        version[v].status \in {"ACTIVE", "RETIRED"} =>
            {w \in Of(v[1]) : version[w].status = "ACTIVE"} = {Discovered(v[1])}

\* The number a clone has read is still free when it is inserted: "a draft or
\* version number was created concurrently" is never answered.
ClonedNumberIsFree ==
    \A c \in Client : request[c].stage = "cloned" => version[request[c].on].status = "none"

\* Every request ends, one that meets the wait cycle of patch and activation
\* included, and gives its locks back to the others.
RequestsEnd == \A c \in Client : request[c].stage # "idle" ~> request[c].stage = "idle"

=============================================================================
