-------------------------- MODULE MonitoringConfig --------------------------
(***************************************************************************)
(* The configuration package (packages/config/src): what a YAML file may   *)
(* say, the groups that are made of it, and the settings each account ends *)
(* up with.  No state; the services that read it are modelled elsewhere.   *)
(*                                                                         *)
(* A file has account sets, defaults and groups; what is left out is None. *)
(* Settings are functions on the keys that are set.  An amount is written  *)
(* as a decimal: units with a number of places after the point.            *)
(***************************************************************************)
EXTENDS Optional

CONSTANTS
  Tokens,     \* the tokens known on each chain (CHAIN_TOKENS)
  Decimals    \* decimals of the native token of each chain, and of each token

IdentityFields == {"display", "email", "matrix"}

\* The keys of each monitor's schema, which an account may set too.
MonitorTypeKeys ==
  [Staking |-> {"commission", "selfStake", "payee", "fromEra", "untilEra"},
   Identity |-> IdentityFields,
   Balances |-> {"threshold"},
   Assets |-> {"tokens", "tokenThresholds"},
   Governance |-> {}, Xcm |-> {}]

\* The handlers each monitor's schema takes.
MonitorHandlers ==
  [Staking |-> {"OffenceReportedEvent", "CommissionChangedEvent", "UnbondedEvent",
                "DestinationChangedCall", "DestinationChangedState", "CommissionUnexpectedState",
                "DestinationUnexpectedState", "SelfStakeUnexpectedState",
                "ActiveSetPresenceState", "ValidatorIntentionMissingState"},
   Identity |-> {"IdentityUnexpectedState", "IdentityChangedEvent", "IdentityMissingState",
                 "IdentityFieldsMissingState"},
   Balances |-> {"BalanceDecreaseState", "BalanceThresholdState", "TransferIngressEvent",
                 "TransferEgressEvent", "TransferCall"},
   Assets |-> {"AssetBalanceDecreaseState", "AssetBalanceThresholdState",
               "AssetTransferIngressEvent", "AssetTransferEgressEvent"},
   Governance |-> {"ReferendaSubmittedEvent", "ConvictionVoteCall"},
   Xcm |-> {"XcmTransferEgressEvent"}]

-----------------------------------------------------------------------------
(***************************************************************************)
(* Validation.  Era bounds are compared where they are written: on the     *)
(* monitor, on the account.  Tokens are looked up on the monitor only.     *)
(***************************************************************************)
EraBoundsAreValid(settings) ==
  {"fromEra", "untilEra"} \subseteq DOMAIN settings =>
    settings["fromEra"] < settings["untilEra"]

AssetsMonitorIsValid(monitor, chains) ==
  \A chain \in ToSet(chains) :
    /\ Or(Lookup(monitor.settings, "tokens"), {}) \subseteq Tokens[chain]
    /\ DOMAIN Or(Lookup(monitor.settings, "tokenThresholds"), <<>>) \subseteq Tokens[chain]

MonitorIsValid(monitor, chains) ==
  /\ monitor.name \in DOMAIN MonitorHandlers
  /\ monitor.handlers # {} /\ monitor.handlers \subseteq MonitorHandlers[monitor.name]
  /\ DOMAIN monitor.settings \subseteq MonitorTypeKeys[monitor.name]
  /\ EraBoundsAreValid(monitor.settings)
  /\ monitor.name = "Assets" => AssetsMonitorIsValid(monitor, chains)

GroupIsValid(group, defaults) ==
  LET chains == Or(group.chains, defaults.chains)
      monitors == Or(group.monitors, defaults.monitors)
  IN /\ chains \notin {None, <<>>}
     /\ monitors \notin {None, <<>>} =>
          /\ Or(group.notifications, defaults.notifications) # None
          /\ \A m \in ToSet(monitors) : MonitorIsValid(m, chains)

AccountIsValid(account) ==
  /\ DOMAIN account.settings \subseteq
       UNION {MonitorTypeKeys[name] : name \in DOMAIN MonitorTypeKeys}
  /\ EraBoundsAreValid(account.settings)

ConfigIsValid(file) ==
  /\ \A set \in DOMAIN file.accountSets :
       /\ file.accountSets[set] # <<>>
       /\ \A a \in ToSet(file.accountSets[set]) : AccountIsValid(a)
  /\ file.groups # <<>>
  /\ \A i, j \in DOMAIN file.groups : file.groups[i].id = file.groups[j].id => i = j
  /\ \A g \in ToSet(file.groups) :
       /\ g.accountSetNames # <<>>
       /\ ToSet(g.accountSetNames) \subseteq DOMAIN file.accountSets
       /\ GroupIsValid(g, file.defaults)

-----------------------------------------------------------------------------
(***************************************************************************)
(* The settings of an account under the monitors of its group.             *)
(***************************************************************************)
\* Mutant: the digits of the fraction are not padded.
AtomizeUnpadded(amount, decimals) == amount.units

TenTo[n \in Nat] == IF n = 0 THEN 1 ELSE 10 * TenTo[n - 1]

\* Digits beyond the decimals are cut off, the sign kept aside.
AtomizeBalance(amount, decimals) ==
  LET size == IF amount.units < 0 THEN -amount.units ELSE amount.units
      atoms == IF amount.places <= decimals
               THEN size * TenTo[decimals - amount.places]
               ELSE size \div TenTo[amount.places - decimals]
  IN IF amount.units < 0 THEN -atoms ELSE atoms

Restricted(settings, keys) == [key \in DOMAIN settings \intersect keys |-> settings[key]]

Over(own, base) ==
  [key \in DOMAIN own \union DOMAIN base |-> IF key \in DOMAIN own THEN own[key] ELSE base[key]]

\* A monitor named twice in a group is the last one's.
MonitorNamed(monitors, name) ==
  monitors[CHOOSE i \in DOMAIN monitors :
             /\ monitors[i].name = name
             /\ \A j \in DOMAIN monitors : monitors[j].name = name => j <= i]

MergeSettings(monitor, own) ==
  Over(Restricted(own, MonitorTypeKeys[monitor.name]), monitor.settings)

TransformDecimalBalances(settings, chain) ==
  [key \in DOMAIN settings |->
     CASE key \in {"selfStake", "threshold"} -> AtomizeBalance(settings[key], Decimals[chain])
       [] key = "tokenThresholds" ->
            [t \in DOMAIN settings[key] |-> AtomizeBalance(settings[key][t], Decimals[t])]
       [] OTHER -> settings[key]]

\* What it throws on: the decimals of a token the chain does not have.
TransformThrows(settings, chain) ==
  "tokenThresholds" \in DOMAIN settings /\ ~(DOMAIN settings["tokenThresholds"] \subseteq Tokens[chain])

BuildSettings(monitor, own, chain) ==
  [settings |-> TransformDecimalBalances(MergeSettings(monitor, own), chain),
   handlers |-> monitor.handlers]

-----------------------------------------------------------------------------
(***************************************************************************)
(* The groups: a group of the file for each of its chains.                 *)
(***************************************************************************)
GroupsWithDefaults(file) ==
  [i \in DOMAIN file.groups |->
     LET g == file.groups[i]
     IN [id |-> g.id,
         accounts |-> FlattenSeq([j \in DOMAIN g.accountSetNames |->
                                    file.accountSets[g.accountSetNames[j]]]),
         chains |-> Or(g.chains, file.defaults.chains),
         monitors |-> Or(g.monitors, file.defaults.monitors),
         notifications |-> Or(g.notifications, file.defaults.notifications),
         operations |-> Or(g.operations, file.defaults.operations)]]

TransformAccount(account, chain, monitors) ==
  [ss58 |-> account.address,
   operations |-> account.operations,
   monitored |-> [name \in {m.name : m \in ToSet(monitors)} |->
                    BuildSettings(MonitorNamed(monitors, name), account.settings, chain)]]

TransformGroup(group) ==
  LET monitors == Or(group.monitors, <<>>)
  IN [i \in DOMAIN Or(group.chains, <<>>) |->
        [id |-> group.id, chain |-> group.chains[i], monitors |-> monitors,
         accounts |-> [j \in DOMAIN group.accounts |->
                         TransformAccount(group.accounts[j], group.chains[i], monitors)],
         notifications |-> group.notifications,
         operations |-> group.operations]]

\* Files are taken one after the other; one that is not valid rejects them all.
ProcessConfigs(files) ==
  LET groups == FlattenSeq([i \in DOMAIN files |-> GroupsWithDefaults(files[i])])
  IN FlattenSeq([i \in DOMAIN groups |-> TransformGroup(groups[i])])

ConfigsAreRejected(files) ==
  \/ \E file \in ToSet(files) : ~ConfigIsValid(file)
  \/ \E file \in ToSet(files) : \E g \in ToSet(GroupsWithDefaults(file)) :
       \E chain \in ToSet(g.chains), m \in ToSet(Or(g.monitors, <<>>)), a \in ToSet(g.accounts) :
         TransformThrows(MergeSettings(m, a.settings), chain)

\* getMonitoringGroups: the groups of a chain that monitor something.
MonitoringGroups(files, chain) ==
  LET groups == ProcessConfigs(files)
      IsMonitoring(g) == g.chain = chain /\ g.monitors # <<>>
  IN FlattenSeq([i \in DOMAIN groups |-> IF IsMonitoring(groups[i]) THEN <<groups[i]>> ELSE <<>>])

-----------------------------------------------------------------------------
(***************************************************************************)
(* Payouts: the accounts whose rewards are claimed.  The first group that  *)
(* names an account on a chain decides for it.                             *)
(***************************************************************************)
PayoutOf(operations) == IF operations = None THEN None ELSE Lookup(operations, "payout")

PayoutCandidates(files) ==
  LET groups == SelectSeq(ProcessConfigs(files), LAMBDA g : PayoutOf(g.operations) # None)
      Candidate(g, account) ==
        LET resolved == Over(Or(PayoutOf(account.operations), [k \in {} |-> None]),
                             PayoutOf(g.operations))
        IN [ss58 |-> account.ss58, chain |-> g.chain, group |-> g.id,
            signer |-> Lookup(resolved, "signer"),
            notifications |-> Or(Lookup(resolved, "notifications"), g.notifications)]
  IN FlattenSeq([i \in DOMAIN groups |->
       [j \in DOMAIN groups[i].accounts |-> Candidate(groups[i], groups[i].accounts[j])]])

PayoutsAreRejected(files) ==
  ConfigsAreRejected(files) \/ \E c \in ToSet(PayoutCandidates(files)) : c.signer = None

SameAccount(c, d) == c.chain = d.chain /\ c.ss58 = d.ss58

\* Mutant: an account that two groups name is there twice.
AllPayoutAccounts(files) == PayoutCandidates(files)

\* The accounts by their place among the candidates, in which the Map keeps them.
PayoutAccounts(files) ==
  LET all == PayoutCandidates(files)
      first == {i \in 1 .. Len(all) : \A j \in 1 .. i - 1 : ~SameAccount(all[i], all[j])}
  IN [i \in first |-> all[i]]
=============================================================================
