------------------------------ MODULE Monitors ------------------------------
(***************************************************************************)
(* The monitors of a chain at work: a block is processed by attempts, each *)
(* of which runs the rules of MonitorRules on the storage, the events and  *)
(* the calls of the block, until one gets through (watcher.ts); the        *)
(* incident handler opens and resolves the incidents of the conditions     *)
(* that are tracked and makes the reports (incident-handler.ts).           *)
(*                                                                         *)
(* What ChainWatcher leaves open - what a monitor has to say of a block -  *)
(* is what this module is about; what ChainWatcher is about - handlers and *)
(* requests that overlap, restarts - is left out here.  An attempt that    *)
(* fails has done part of it.                                              *)
(***************************************************************************)
EXTENDS MonitorRules

CONSTANTS
  Worlds,       \* what may be watched: [files, chain, storages, blocks] by name
  Leaves(_),    \* the calls of an extrinsic, with their origins (CallTree)
  MaxFailures   \* bound: reports and requests that fail

ASSUME WorldsAssumption ==
  \A w \in DOMAIN Worlds : ~ConfigsAreRejected(Worlds[w].files)
ASSUME MaxFailuresAssumption == MaxFailures \in Nat

VARIABLES
  world,      \* which of Worlds this is
  monitors,   \* the monitors of the watcher: the registry of each
  prev,       \* storage of the block before
  now,        \* storage of the block
  block,      \* the events and extrinsics of the block
  pc,         \* "first": to be processed, "retry": an attempt failed, "done"
  tracked,    \* the keys of the ongoing incidents, in the KV store and open
  made,       \* the one-time incidents made of the block: key and position
  failures    \* failures so far

vars == <<world, monitors, prev, now, block, pc, tracked, made, failures>>

Chain == Worlds[world].chain
Monitor == DOMAIN monitors

\* A monitor is made for each type some group names; its handlers run on the
\* chains they are written for.
InitializeMonitors(w) ==
  LET groups == MonitoringGroups(Worlds[w].files, Worlds[w].chain)
      named == UNION {{m.name : m \in ToSet(g.monitors)} : g \in ToSet(groups)}
  IN [type \in {m \in named : Worlds[w].chain \in MonitorChains[m]} |-> Registry(groups, type)]

Quiet == [events |-> <<>>, body |-> <<>>]

Init ==
  /\ world \in DOMAIN Worlds
  /\ monitors = InitializeMonitors(world)
  /\ now \in Worlds[world].storages /\ prev = now
  /\ block = Quiet
  /\ pc = "first" /\ tracked = {} /\ made = {}
  /\ failures = 0

-----------------------------------------------------------------------------
At(reports, position) == {[key |-> x.key, at |-> position, what |-> x.what] : x \in reports}

StateOutcome(areCached) ==
  At(UNION {StateReports(monitors[m], now, prev, areCached) : m \in Monitor}, <<>>)

EventOutcome ==
  UNION {At(UNION {EventReports(monitors[m], now, prev, block.events[i]) : m \in Monitor}, <<i>>) :
           i \in DOMAIN block.events}

CallOutcome ==
  UNION {LET leaves == Leaves(block.body[x])
         IN UNION {At(UNION {CallReports(monitors[m], leaves[j]) : m \in Monitor}, <<x, j>>) :
                     j \in DOMAIN leaves} : x \in DOMAIN block.body}

Position(x) == <<x.key, x.at>>
Positions(reports) == {Position(x) : x \in reports}

AllTracks == UNION {Tracks(monitors[m], now) : m \in Monitor}

\* handle, of the conditions in done.
AfterTracking(done) ==
  (tracked \ {t.key : t \in done}) \union {t.key : t \in {t \in done : t.isFiring}}

Throws == "Assets" \in Monitor /\ AssetBalancesThrow(monitors["Assets"], Chain)

\* A report of a call that fails is passed over by the loop over the extrinsics.
Completes(areCached) ==
  /\ ~Throws
  /\ tracked' = AfterTracking(AllTracks)
  /\ \E done \in SUBSET CallOutcome :
       /\ made' = made \union Positions(StateOutcome(areCached) \union EventOutcome \union done)
       /\ \/ done = CallOutcome /\ UNCHANGED failures
          \/ done # CallOutcome /\ failures < MaxFailures /\ failures' = failures + 1
  /\ pc' = "done"

\* Another report or request fails, or a query throws: the block is tried again.
Fails(areCached) ==
  /\ \/ failures < MaxFailures /\ failures' = failures + 1
     \/ Throws /\ UNCHANGED failures
  /\ \E done \in SUBSET AllTracks : tracked' = AfterTracking(done)
  /\ \E done \in SUBSET (StateOutcome(areCached) \union EventOutcome) :
       made' = made \union Positions(done)
  /\ pc' = "retry"

\* On the first attempt the balances of the block are not in the cache; on a
\* later one they are, with those of the block before, or both have expired.
Attempt ==
  /\ pc \in {"first", "retry"}
  /\ \E areCached \in BOOLEAN :
       /\ areCached => pc = "retry"
       /\ Completes(areCached) \/ Fails(areCached)
  /\ UNCHANGED <<world, monitors, prev, now, block>>

NextBlock ==
  /\ pc = "done"
  /\ prev' = now
  /\ now' \in Worlds[world].storages
  /\ block' \in Worlds[world].blocks
  /\ pc' = "first" /\ made' = {}
  /\ UNCHANGED <<world, monitors, tracked, failures>>

Next == Attempt \/ NextBlock

Spec == Init /\ [][Next]_vars

-----------------------------------------------------------------------------
(***************************************************************************)
(* What the documentation says the handlers do (packages/config/MONITORS,  *)
(* CONFIG_GUIDE), read off the files themselves: a wish is a handler of a  *)
(* monitor of a group, for an account of the group.                        *)
(***************************************************************************)
AccountsOf(file, g) == UNION {ToSet(file.accountSets[set]) : set \in ToSet(g.accountSetNames)}
ChainsOf(file, g) == Or(g.chains, file.defaults.chains)
MonitorsOf(file, g) == Or(g.monitors, file.defaults.monitors)

WishesOf(chain, file, g) ==
  IF chain \notin ToSet(ChainsOf(file, g)) \/ MonitorsOf(file, g) = None THEN {}
  ELSE UNION {{[group |-> g.id, account |-> a.address, handler |-> h, own |-> a.settings,
                shared |-> m.settings] : a \in AccountsOf(file, g), h \in m.handlers} :
                m \in {m \in ToSet(MonitorsOf(file, g)) : chain \in MonitorChains[m.name]}}

WishesIn(w) ==
  UNION {UNION {WishesOf(Worlds[w].chain, file, g) : g \in ToSet(file.groups)} :
           file \in ToSet(Worlds[w].files)}
Wishes == WishesIn(world)

\* "most specific first": the account's setting, or else the monitor's.
Wanted(w, key) == Or(Lookup(w.own, key), Lookup(w.shared, key))

IsDuring(w, era) ==
  /\ Wanted(w, "fromEra") # None => Wanted(w, "fromEra") <= era
  /\ Wanted(w, "untilEra") # None => era < Wanted(w, "untilEra")

\* amount < decimal, without rounding.
IsBelowDecimal(amount, decimal, decimals) ==
  amount * TenTo[decimal.places] < decimal.units * TenTo[decimals]

Identity(w) ==
  LET holder == Or(Lookup(now.superOf, w.account), w.account)
  IN Lookup(now.identity, holder)

ShownField(w, field) ==
  LET info == Identity(w)
  IN IF info = None \/ field \notin DOMAIN Or(info, <<>>) THEN None
     ELSE IF info[field].type = "None" THEN None ELSE info[field].value

Active(w) == Lookup(now.ledger, now.bonded[w.account])

\* The handlers that follow a condition, and those of them that can tell.
OngoingHandlers ==
  {"CommissionUnexpectedState", "SelfStakeUnexpectedState", "DestinationUnexpectedState",
   "ValidatorIntentionMissingState", "ActiveSetPresenceState", "BalanceThresholdState",
   "AssetBalanceThresholdState", "IdentityUnexpectedState", "IdentityMissingState",
   "IdentityFieldsMissingState"}

IsJudged(w) ==
  CASE w.handler = "CommissionUnexpectedState" ->
         w.account \in DOMAIN now.prefs /\ Wanted(w, "commission") \notin {None, 0}
    [] w.handler = "SelfStakeUnexpectedState" ->
         /\ w.account \in DOMAIN now.bonded /\ Wanted(w, "selfStake") # None
         /\ now.bonded[w.account] \in DOMAIN now.ledger
    [] w.handler = "DestinationUnexpectedState" ->
         w.account \in DOMAIN now.payee /\ Wanted(w, "payee") # None
    [] w.handler = "BalanceThresholdState" -> Wanted(w, "threshold") # None
    [] w.handler = "AssetBalanceThresholdState" -> Wanted(w, "tokenThresholds") # None
    [] w.handler = "IdentityFieldsMissingState" -> Identity(w) # None
    [] OTHER -> TRUE

\* The condition of a wish holds in this block, of a token for the assets.
Holds(w, token) ==
  LET era == Or(now.activeEra, 0)
  IN CASE w.handler = "CommissionUnexpectedState" ->
            IsDuring(w, era) /\ now.prefs[w.account] > Wanted(w, "commission")
       [] w.handler = "SelfStakeUnexpectedState" ->
            IsDuring(w, era) /\ IsBelowDecimal(Active(w), Wanted(w, "selfStake"), Decimals[Chain])
       [] w.handler = "DestinationUnexpectedState" ->
            IsDuring(w, era) /\ now.payee[w.account] # Wanted(w, "payee")
       [] w.handler = "ValidatorIntentionMissingState" ->
            IsDuring(w, era) /\ w.account \notin DOMAIN now.bonded \intersect DOMAIN now.prefs
       [] w.handler = "ActiveSetPresenceState" ->
            IsDuring(w, era) /\ w.account \notin Or(Lookup(now.elected, era), {})
       [] w.handler = "BalanceThresholdState" ->
            IsBelowDecimal(Or(Lookup(now.free, w.account), 0), Wanted(w, "threshold"), Decimals[Chain])
       [] w.handler = "AssetBalanceThresholdState" ->
            IsBelowDecimal(TokenAccountBalance(now, token, w.account),
                           Wanted(w, "tokenThresholds")[token], Decimals[token])
       [] w.handler = "IdentityUnexpectedState" ->
            \E f \in IdentityFields : Wanted(w, f) \notin {None, ShownField(w, f)}
       [] w.handler = "IdentityMissingState" -> Identity(w) = None
       [] w.handler = "IdentityFieldsMissingState" ->
            \E f \in {"email", "matrix"} : ShownField(w, f) = None

\* An event concerns the account of a wish.
Concerns(w, e) ==
  CASE w.handler \in {"TransferIngressEvent", "AssetTransferIngressEvent"} ->
         /\ e.name = (IF w.handler = "TransferIngressEvent" THEN "balances.Transfer" ELSE "assets.Transferred")
         /\ e.to = w.account
         /\ w.handler = "AssetTransferIngressEvent" => e.token \in Or(Wanted(w, "tokens"), {})
    [] w.handler \in {"TransferEgressEvent", "AssetTransferEgressEvent"} ->
         /\ e.name = (IF w.handler = "TransferEgressEvent" THEN "balances.Transfer" ELSE "assets.Transferred")
         /\ e.from = w.account
         /\ w.handler = "AssetTransferEgressEvent" => e.token \in Or(Wanted(w, "tokens"), {})
    [] w.handler = "UnbondedEvent" -> e.name = "staking.Unbonded" /\ e.who = w.account
    [] w.handler = "OffenceReportedEvent" -> e.name = "staking.OffenceReported" /\ e.who = w.account
    [] w.handler = "CommissionChangedEvent" -> e.name = "staking.ValidatorPrefsSet" /\ e.who = w.account
    [] w.handler = "XcmTransferEgressEvent" ->
         /\ e.name \in {"polkadotxcm.Sent", "xcmpallet.Sent"}
         /\ e.origin # None /\ e.origin.interior = "X1" /\ e.origin.junction = "AccountId32"
         /\ e.origin.value = w.account
    [] w.handler = "IdentityChangedEvent" ->
         /\ e.name \in {"identity.IdentitySet", "identity.IdentityCleared", "identity.IdentityKilled"}
         /\ e.who = Or(Lookup(now.superOf, w.account), w.account)
    [] OTHER -> FALSE

TokenOf(w, e) ==
  IF w.handler \in {"AssetTransferIngressEvent", "AssetTransferEgressEvent"} THEN e.token ELSE None

TokensWanted(w) ==
  IF w.handler = "AssetBalanceThresholdState" THEN DOMAIN Wanted(w, "tokenThresholds") ELSE {None}

Judged == {w \in Wishes : w.handler \in OngoingHandlers /\ IsJudged(w)}
IncidentOf(w, token) == Key(w, w.handler, token)

-----------------------------------------------------------------------------
(***************************************************************************)
(* What the theorems about the conditions take of a world.                 *)
(***************************************************************************)
IsList(s) == s \in Seq(ToSet(s))
NamesAreDistinct(watch) == \A i, j \in DOMAIN watch : watch[i].name = watch[j].name => i = j

\* Lists are lists; of a monitor that a group names twice, the code keeps one.
FileIsTyped(file) ==
  /\ IsList(file.groups)
  /\ \A g \in ToSet(file.groups) :
       /\ IsList(g.accountSetNames) /\ IsList(ChainsOf(file, g))
       /\ \A set \in ToSet(g.accountSetNames) : IsList(file.accountSets[set])
       /\ MonitorsOf(file, g) # None =>
            IsList(MonitorsOf(file, g)) /\ NamesAreDistinct(MonitorsOf(file, g))

\* The code cuts off the digits that the token does not have.
AmountFits(amount, decimals) ==
  amount.units \in Int /\ amount.places \in Nat /\ decimals \in Nat /\ amount.places <= decimals

SettingsFit(settings, chain) ==
  /\ \A key \in DOMAIN settings : settings[key] # None
  /\ \A key \in DOMAIN settings \intersect {"selfStake", "threshold"} :
       AmountFits(settings[key], Decimals[chain])
  /\ "tokenThresholds" \in DOMAIN settings =>
       \A t \in DOMAIN settings["tokenThresholds"] : AmountFits(settings["tokenThresholds"][t], Decimals[t])

IdentityIsTyped(info) ==
  /\ info # None /\ ProcessIdentityInfo(info) # None
  /\ \A f \in DOMAIN info :
       /\ info[f].type \in {"None", "Raw", "Sha256"}
       /\ info[f].type # "None" => info[f].value # None

StorageIsTyped(s) ==
  /\ \A a \in DOMAIN s.prefs : s.prefs[a] # None
  /\ \A a \in DOMAIN s.bonded : s.bonded[a] # None
  /\ \A a \in DOMAIN s.payee : s.payee[a] # None
  /\ \A a \in DOMAIN s.ledger : s.ledger[a] \in Nat
  /\ \A a \in DOMAIN s.free : s.free[a] \in Nat
  /\ \A t \in DOMAIN s.assets : s.assets[t] # None /\ \A a \in DOMAIN s.assets[t] : s.assets[t][a] \in Nat
  /\ \A a \in DOMAIN s.identity : IdentityIsTyped(s.identity[a])

WorldIsTyped(w) ==
  /\ IsList(Worlds[w].files) /\ \A file \in ToSet(Worlds[w].files) : FileIsTyped(file)
  /\ \A x \in WishesIn(w) :
       SettingsFit(x.own, Worlds[w].chain) /\ SettingsFit(x.shared, Worlds[w].chain)
  /\ \A s \in Worlds[w].storages : StorageIsTyped(s)

WorldsAreTyped == None \notin Int /\ \A w \in DOMAIN Worlds : WorldIsTyped(w)

\* A group asks for a handler of an account in one way only.
WishesAreClear ==
  \A w \in DOMAIN Worlds : \A x, y \in WishesIn(w) :
    x.group = y.group /\ x.account = y.account /\ x.handler = y.handler => x = y

\* An address is the address of an account, and no two accounts that are
\* watched have one identity; the pallet of an event's name is in lower case.
HappeningsAreClear ==
  \A w \in DOMAIN Worlds :
    /\ \A x \in WishesIn(w) : x.account # None
    /\ \A x, y \in WishesIn(w), s \in Worlds[w].storages :
         /\ {x.handler, y.handler} \subseteq MonitorHandlers["Identity"]
         /\ ParentOf(s, x.account) = ParentOf(s, y.account)
         => x.account = y.account
    /\ \A b \in Worlds[w].blocks : \A e \in ToSet(b.events) :
         /\ e.name # "ormlTokens.Transfer"
         /\ e.name \in {"polkadotxcm.Sent", "xcmpallet.Sent"} =>
              \A x \in WishesIn(w) :
                ParseLocation(e.origin) = x.account => e.origin.junction = "AccountId32"

-----------------------------------------------------------------------------
\* Once a block is processed, every condition the configuration asks for and
\* that holds has its open incident: for each account with its own settings
\* over the group's over the defaults, amounts in the chain's decimals, and
\* through any failed attempts.  Not judged are an account without the value that
\* is looked at, and an expected commission of 0, which the code takes for none.
\* (MONITORS.md, "Fires when")
ConditionsAreAlerted ==
  pc = "done" =>
    \A w \in Judged : \A t \in TokensWanted(w) : Holds(w, t) => IncidentOf(w, t) \in tracked

\* And an incident that is open is one whose condition holds.  Left out, besides
\* what is not judged, is a token back above its threshold: the code does not
\* speak of it, and leaves its incident open.
\* (MONITORS.md, "resolves automatically when it clears")
OpenIncidentsAreTrue ==
  pc = "done" =>
    \A w \in Judged :
      w.handler # "AssetBalanceThresholdState" /\ IncidentOf(w, None) \in tracked => Holds(w, None)

\* Every event is reported, at its place, for each account that it concerns and
\* whose group wants to know, and for no other.  (MONITORS.md, "Fires when".  Of
\* several watched accounts with one identity the code has a report for the first
\* only, and no world has such accounts; the transfers of ormlTokens, which it
\* never reports, concern nobody here.)
HappeningsAreReported ==
  pc = "done" =>
    {x \in made : Len(x[2]) = 1 /\ x[1].handler # "ReferendaSubmittedEvent"} =
      UNION {{<<IncidentOf(w, TokenOf(w, block.events[i])), <<i>>>> :
                w \in {w \in Wishes : Concerns(w, block.events[i])}} : i \in DOMAIN block.events}

\* No report takes another's place: two things to report of a block differ in
\* their incident key or position, so that the incident service, which keeps
\* one incident for each, keeps both.  The transfers of one XCM message do not.
NoReportSwallowed ==
  LET all == StateOutcome(FALSE) \union EventOutcome \union CallOutcome
  IN \A x, y \in all :
       Position(x) = Position(y) => x = y \/ x.key.handler = "XcmTransferEgressEvent"

\* No account that is watched has two balances, one after the other, that both come
\* back from the cache as objects.
BalancesCompareAsNumbers ==
  \A m \in Monitor : \A c \in ToSet(monitors[m].accounts) :
    /\ ~AreObjects(SystemAccountBalance(now, c.account), SystemAccountBalance(prev, c.account))
    /\ \A t \in TokensOf(c) :
         ~AreObjects(TokenAccountBalance(now, t, c.account), TokenAccountBalance(prev, t, c.account))

\* A block that is processed has the reports of its storage and events, and no
\* other, however many attempts it took and whether they found its balances in
\* the cache.  Left out are the blocks in which two balances that are compared
\* both have more digits than the cache keeps as a number: a replay compares
\* their texts, and reports of them what is not so.  Of the calls it says only
\* that nothing is invented: one whose report failed has none.
ReplaysReportTheSame ==
  pc = "done" /\ BalancesCompareAsNumbers =>
    LET sure == StateOutcome(FALSE) \union EventOutcome
    IN /\ Positions(sure) \subseteq made
       /\ made \subseteq Positions(sure \union CallOutcome)
=============================================================================
