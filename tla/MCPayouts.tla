------------------------------ MODULE MCPayouts ------------------------------
(***************************************************************************)
(* Two chains, two signers with a secret and one without, an account that  *)
(* two groups name, one whose signer has no secret, a stranger; and        *)
(* configurations in which nothing can be planned, or not all.             *)
(***************************************************************************)
EXTENDS Payouts

MCTokens == [c \in {"AssetHubPolkadot", "AssetHubKusama", "Polkadot"} |-> {}]
MCDecimals == [c \in {"AssetHubPolkadot", "AssetHubKusama", "Polkadot"} |-> 1]

NoSettings == [k \in {} |-> None]
Room(channels) == [messengerType |-> "Matrix", channels |-> channels]
Payout(signer) == "payout" :> ("signer" :> signer)
Account(a, operations) == [address |-> a, settings |-> NoSettings, operations |-> operations]
AGroup(id, set, chains, operations) ==
  [id |-> id, accountSetNames |-> <<set>>, chains |-> chains, monitors |-> None,
   notifications |-> None, operations |-> operations]
File(accountSets, groups, operations) ==
  [accountSets |-> accountSets, groups |-> groups,
   defaults |-> [chains |-> None, monitors |-> None, operations |-> operations,
                 notifications |-> Room({"all"})]]

Two ==
  File("own" :> <<Account("a", None),
                  Account("b", "payout" :> ("signer" :> "second" @@ "notifications" :> Room({"all", "b"})))>>
         @@ "shared" :> <<Account("a", None), Account("c", None)>>
         @@ "keyless" :> <<Account("d", None)>>,
       <<AGroup("own", "own", <<"AssetHubPolkadot">>, None),
         AGroup("shared", "shared", <<"AssetHubPolkadot", "AssetHubKusama">>, Payout("second")),
         AGroup("keyless", "keyless", <<"AssetHubKusama">>, Payout("none"))>>,
       Payout("first"))
OnRelay ==
  File("own" :> <<Account("a", None)>>,
       <<AGroup("own", "own", <<"AssetHubKusama", "Polkadot", "AssetHubPolkadot">>, Payout("first"))>>, None)
Signerless ==
  File("own" :> <<Account("a", None)>>,
       <<AGroup("own", "own", <<"AssetHubKusama">>, "payout" :> NoSettings)>>, None)
Unpaid ==
  File("own" :> <<Account("a", Payout("first"))>>,
       <<AGroup("own", "own", <<"AssetHubKusama">>, None)>>, None)

MCConfigurations == {<<Two>>, <<OnRelay>>, <<Signerless>>, <<Unpaid>>}

MCOverview ==
  "AssetHubPolkadot" :> (1 :> ("a" :> 2 @@ "x" :> 1) @@ 2 :> ("b" :> 1))
    @@ "AssetHubKusama" :> (0 :> ("c" :> 1 @@ "d" :> 1))

MCFirstEra == "AssetHubPolkadot" :> 3 @@ "AssetHubKusama" :> 2
MCLastEra == "AssetHubPolkadot" :> 4 @@ "AssetHubKusama" :> 2
=============================================================================
