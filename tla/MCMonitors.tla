----------------------------- MODULE MCMonitors -----------------------------
(***************************************************************************)
(* Small worlds for Monitors: one for each family of handlers.             *)
(***************************************************************************)
EXTENDS Monitors, CallTree

MCTokens == [c \in {"AssetHubPolkadot", "PeoplePolkadot"} |->
               IF c = "AssetHubPolkadot" THEN {"USDC", "USDT"} ELSE {}]
MCDecimals == [c \in {"AssetHubPolkadot", "PeoplePolkadot", "USDC", "USDT"} |-> 1]

NoKeys == [k \in {} |-> None]
Amount(units, places) == [units |-> units, places |-> places]
Account(a, settings) == [address |-> a, settings |-> settings, operations |-> None]
Monitoring(name, handlers, settings) == [name |-> name, handlers |-> handlers, settings |-> settings]
Group(id, sets, watch) ==
  [id |-> id, accountSetNames |-> sets, chains |-> None, monitors |-> watch,
   notifications |-> None, operations |-> None]
File(chain, accountSets, watch, groups) ==
  [accountSets |-> accountSets, groups |-> groups,
   defaults |-> [chains |-> <<chain>>, monitors |-> watch, notifications |-> "room",
                 operations |-> None]]

Empty ==
  [prefs |-> NoKeys, bonded |-> NoKeys, ledger |-> NoKeys, payee |-> NoKeys, elected |-> NoKeys,
   activeEra |-> None, free |-> NoKeys, assets |-> NoKeys, superOf |-> NoKeys, identity |-> NoKeys,
   proposers |-> NoKeys]

Event(name, fields) == Over(fields, [name |-> name, who |-> None, from |-> None, to |-> None,
                                     token |-> None, amount |-> 1, index |-> 1])
Events(events) == [events |-> events, body |-> <<>>]
Signed(a, call) == [signer |-> a, call |-> call]
Body(extrinsics) == [events |-> <<>>, body |-> extrinsics]
Call(name) == [name |-> name, args |-> name]
Id(a) == [type |-> "Id", value |-> a]
Account32(a) == [interior |-> "X1", junction |-> "AccountId32", value |-> a]

(***************************************************************************)
(* Two cohorts: a until era 2, and the same account from era 2 on, with    *)
(* settings of the defaults, the group and the account.                    *)
(***************************************************************************)
StakingFile ==
  File("AssetHubPolkadot",
    "old" :> <<Account("a", "untilEra" :> 2 @@ "selfStake" :> Amount(1, 0))>>
      @@ "new" :> <<Account("a", "fromEra" :> 2 @@ "payee" :> "Stash")>>,
    <<Monitoring("Staking", {"CommissionUnexpectedState", "SelfStakeUnexpectedState",
                             "ActiveSetPresenceState"},
                 "commission" :> 5 @@ "selfStake" :> Amount(2, 0))>>,
    <<Group("cohort-1", <<"old">>, None),
      Group("cohort-2", <<"new">>,
        <<Monitoring("Staking", {"DestinationUnexpectedState", "ValidatorIntentionMissingState",
                                 "DestinationChangedState", "UnbondedEvent",
                                 "OffenceReportedEvent", "CommissionChangedEvent"}, NoKeys)>>)>>)

StakingStorages ==
  {[Empty EXCEPT !.activeEra = era, !.prefs = prefs, !.elected = 1 :> {"a"},
                 !.bonded = IF stake = None THEN NoKeys ELSE "a" :> "b",
                 !.ledger = IF stake = None THEN NoKeys ELSE "b" :> stake] :
     era \in 1 .. 2, prefs \in {NoKeys, "a" :> 5, "a" :> 6}, stake \in {None, 9, 10}}
  \union
  {[Empty EXCEPT !.activeEra = era, !.payee = payee, !.elected = 1 :> {} @@ 2 :> {"a"}] :
     era \in 1 .. 2, payee \in {NoKeys, "a" :> "Stash", "a" :> "Staked"}}

StakingBlocks ==
  {Quiet, Events(<<Event("staking.Unbonded", "who" :> "a"), Event("staking.Unbonded", "who" :> "a"),
                   Event("staking.OffenceReported", "who" :> "a"),
                   Event("staking.ValidatorPrefsSet", "who" :> "a")>>)}

(***************************************************************************)
(* The balances of an account, native and of two tokens, its transfers and *)
(* its calls, some of them nested.                                         *)
(***************************************************************************)
MoneyFile ==
  File("AssetHubPolkadot",
    "treasury" :> <<Account("a", "threshold" :> Amount(9, 1)), Account("b", NoKeys)>>,
    None,
    <<Group("balances", <<"treasury">>,
        <<Monitoring("Balances", {"BalanceThresholdState", "BalanceDecreaseState", "TransferIngressEvent",
                                  "TransferEgressEvent", "TransferCall"}, NoKeys),
          Monitoring("Assets", {"AssetBalanceThresholdState", "AssetBalanceDecreaseState",
                                "AssetTransferIngressEvent", "AssetTransferEgressEvent"},
                     "tokens" :> {"USDC", "USDT"}
                       @@ "tokenThresholds" :> ("USDC" :> Amount(5, 1))),
          Monitoring("Staking", {"DestinationChangedCall"}, NoKeys)>>)>>)

MoneyStorages ==
  {[Empty EXCEPT !.free = IF n = 0 THEN NoKeys ELSE "a" :> n, !.activeEra = 1,
                 !.assets = "USDC" :> ("a" :> c) @@ "USDT" :> ("a" :> c)] :
     n \in {0, 9, 20, 100}, c \in {4, 5}}

Transfer == "from" :> "a" @@ "to" :> "b"
MoneyBlocks ==
  {Quiet,
   Events(<<Event("balances.Transfer", Transfer), Event("assets.Transferred", Transfer @@ "token" :> "USDC")>>),
   Body(<<Signed("b", [name |-> "Utility.batch", calls |->
                         <<Call("Balances.transfer_keep_alive"), Call("Balances.transfer_keep_alive"),
                           [name |-> "Proxy.proxy", real |-> Id("a"), call |-> Call("Staking.bond")]>>]),
          Signed(None, Call("Staking.bond")),
          Signed("a", [name |-> "Sudo.sudo", call |-> Call("Balances.transfer_keep_alive")])>>)}

(***************************************************************************)
(* An identity with a sub-identity, watched or not.                        *)
(***************************************************************************)
IdentityFile ==
  File("PeoplePolkadot",
    "validators" :> <<Account("sub", "display" :> "Val")>>,
    <<Monitoring("Identity", {"IdentityUnexpectedState", "IdentityMissingState",
                              "IdentityFieldsMissingState", "IdentityChangedEvent"}, NoKeys)>>,
    <<Group("identities", <<"validators">>, None)>>)

Raw(v) == [type |-> "Raw", value |-> v]
IdentityStorages ==
  {[Empty EXCEPT !.superOf = super,
                 !.identity = IF shown = None THEN NoKeys ELSE holder :> shown] :
     super \in {NoKeys, "sub" :> "main"}, holder \in {"sub", "main"},
     shown \in {None, "display" :> Raw("Val"),
                "display" :> Raw("Other") @@ "email" :> Raw("e") @@ "matrix" :> Raw("m"),
                "display" :> [type |-> "None", value |-> None] @@ "email" :> Raw("e")}}

IdentityBlocks == {Quiet, Events(<<Event("identity.IdentitySet", "who" :> "main")>>)}

(***************************************************************************)
(* XCM messages and governance.                                            *)
(***************************************************************************)
RouterFile ==
  File("AssetHubPolkadot", "senders" :> <<Account("a", NoKeys)>>, None,
    <<Group("senders", <<"senders">>,
        <<Monitoring("Xcm", {"XcmTransferEgressEvent"}, NoKeys),
          Monitoring("Governance", {"ReferendaSubmittedEvent", "ConvictionVoteCall"}, NoKeys)>>)>>)

Asset(token, amount) == [fungible |-> TRUE, interior |-> "Here", token |-> token, amount |-> amount]
Sent(message) ==
  Event("polkadotxcm.Sent", "origin" :> Account32("a") @@ "destination" :> None @@ "message" :> message)
Deposit == [type |-> "DepositAsset", beneficiary |-> Account32("b")]

RouterBlocks ==
  {Events(<<Sent(<<[type |-> "ReserveAssetDeposited", assets |-> <<Asset("DOT", 1), Asset("USDC", 2)>>],
                   Deposit>>),
            Sent(<<[type |-> "DepositReserveAsset", xcm |-> <<Deposit>>, dest |-> None]>>),
            Event("referenda.Submitted", NoKeys)>>),
   Body(<<Signed("a", Call("ConvictionVoting.vote"))>>)}

(***************************************************************************)
(* A token nobody knows, on an account: every block fails, for good.       *)
(***************************************************************************)
TypoFile ==
  File("AssetHubPolkadot", "treasury" :> <<Account("a", "tokens" :> {"USDX"})>>, None,
    <<Group("balances", <<"treasury">>,
        <<Monitoring("Assets", {"AssetBalanceDecreaseState"}, "tokens" :> {"USDC"})>>)>>)

World(file, chain, storages, blocks) ==
  [files |-> <<file>>, chain |-> chain, storages |-> storages, blocks |-> blocks]

MCWorlds ==
  [staking |-> World(StakingFile, "AssetHubPolkadot", StakingStorages, StakingBlocks),
   money |-> World(MoneyFile, "AssetHubPolkadot", MoneyStorages, MoneyBlocks),
   identity |-> World(IdentityFile, "PeoplePolkadot", IdentityStorages, IdentityBlocks),
   router |-> World(RouterFile, "AssetHubPolkadot", {Empty}, RouterBlocks),
   typo |-> World(TypoFile, "AssetHubPolkadot", {Empty}, {Quiet})]

\* The theorems are about worlds such as these.
ASSUME MCWorldsAreTyped == WorldsAreTyped /\ WishesAreClear /\ HappeningsAreClear
=============================================================================
