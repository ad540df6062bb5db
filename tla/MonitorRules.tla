---------------------------- MODULE MonitorRules ----------------------------
(***************************************************************************)
(* The rules of the monitors (packages/chain/src/lib/monitors): what each  *)
(* handler says of a block.  A handler either tracks a condition, on every *)
(* block, or reports something once.                                       *)
(*                                                                         *)
(* A registry (config-registry.ts) holds the accounts a monitor watches on *)
(* a chain, in the order of the groups, and the groups' own handlers.  In  *)
(* what follows r is a registry, s the storage of a block and p that of    *)
(* the block before it.                                                    *)
(***************************************************************************)
EXTENDS ChainData

Hubs == {"AssetHubPolkadot", "AssetHubKusama", "AssetHubPaseo"}

\* The chains the handlers of a monitor are written for.
MonitorChains ==
  [Staking |-> Hubs, Governance |-> Hubs, Xcm |-> Hubs,
   Balances |-> Hubs \union {"Frequency"},
   Assets |-> Hubs \union {"Centrifuge"},
   Identity |-> {"PeoplePolkadot", "PeopleKusama", "PeoplePaseo"}]

BuildAccountLookup(group, monitor) ==
  [i \in DOMAIN group.accounts |->
     [account |-> group.accounts[i].ss58, group |-> group.id,
      settings |-> group.accounts[i].monitored[monitor].settings,
      handlers |-> group.accounts[i].monitored[monitor].handlers]]

\* The handlers of a group are those of the first monitor of the name.
Registry(groups, monitor) ==
  LET Named(g) == {i \in DOMAIN g.monitors : g.monitors[i].name = monitor}
      FirstNamed(g) == g.monitors[CHOOSE i \in Named(g) : \A j \in Named(g) : i <= j]
      Lookups(g) == IF Named(g) = {} THEN <<>> ELSE BuildAccountLookup(g, monitor)
  IN [accounts |-> FlattenSeq([i \in DOMAIN groups |-> Lookups(groups[i])]),
      groups |-> {[id |-> g.id, handlers |-> FirstNamed(g).handlers] :
                    g \in {g \in ToSet(groups) : Named(g) # {}}}]

Watched(r, handler) == {c \in ToSet(r.accounts) : handler \in c.handlers}

Matched(r, handler, account) == {c \in Watched(r, handler) : c.account = account}

Setting(c, key) == Lookup(c.settings, key)

\* JavaScript takes 0 for false as well.
IsTruthy(x) == x \notin {None, 0}

Key(c, handler, token) ==
  [group |-> c.group, handler |-> handler, account |-> c.account, token |-> token]

Track(c, handler, token, isFiring) == [key |-> Key(c, handler, token), isFiring |-> isFiring]
Report(c, handler, token, what) == [key |-> Key(c, handler, token), what |-> what]
ReportAll(cs, handler, what) == {Report(c, handler, None, what) : c \in cs}

-----------------------------------------------------------------------------
(***************************************************************************)
(* Staking.  A handler says nothing of an account that has no value, or no *)
(* expectation.                                                            *)
(***************************************************************************)
\* Mutant: the last era belongs to the window.
IsInClosedEraRange(c, era) ==
  /\ Setting(c, "fromEra") # None => era >= Setting(c, "fromEra")
  /\ Setting(c, "untilEra") # None => era <= Setting(c, "untilEra")

IsAccountInEraRange(c, era) ==
  /\ Setting(c, "fromEra") # None => era >= Setting(c, "fromEra")
  /\ Setting(c, "untilEra") # None => era < Setting(c, "untilEra")

CommissionUnexpected(r, s) ==
  LET h == "CommissionUnexpectedState"
      judged == {c \in Watched(r, h) : /\ StakingCommission(s, c.account) # None
                                       /\ IsTruthy(Setting(c, "commission"))}
  IN {Track(c, h, None, /\ IsAccountInEraRange(c, StakingActiveEra(s))
                        /\ StakingCommission(s, c.account) > Setting(c, "commission")) : c \in judged}

\* The ledger is found through the address the account is bonded to.
SelfStake(s, a) ==
  LET bonded == StakingBonded(s, a)
  IN IF bonded = None THEN None ELSE StakingLedgerActive(s, bonded)

SelfStakeUnexpected(r, s) ==
  LET h == "SelfStakeUnexpectedState"
      judged == {c \in Watched(r, h) : /\ SelfStake(s, c.account) # None
                                       /\ IsTruthy(Setting(c, "selfStake"))}
  IN {Track(c, h, None, /\ IsAccountInEraRange(c, StakingActiveEra(s))
                        /\ SelfStake(s, c.account) < Setting(c, "selfStake")) : c \in judged}

DestinationUnexpected(r, s) ==
  LET h == "DestinationUnexpectedState"
      judged == {c \in Watched(r, h) : /\ StakingPayee(s, c.account) # None
                                       /\ Setting(c, "payee") # None}
  IN {Track(c, h, None, /\ IsAccountInEraRange(c, StakingActiveEra(s))
                        /\ StakingPayee(s, c.account) # Setting(c, "payee")) : c \in judged}

ValidatorIntentionMissing(r, s) ==
  LET h == "ValidatorIntentionMissingState"
  IN {Track(c, h, None, /\ IsAccountInEraRange(c, StakingActiveEra(s))
                        /\ \/ StakingBonded(s, c.account) = None
                           \/ StakingCommission(s, c.account) = None) : c \in Watched(r, h)}

ActiveSetPresence(r, s) ==
  LET h == "ActiveSetPresenceState"
      era == StakingActiveEra(s)
  IN {Track(c, h, None, /\ IsAccountInEraRange(c, era)
                        /\ c.account \notin StakingEraValidators(s, era)) : c \in Watched(r, h)}

DestinationChangedState(r, s, p) ==
  LET h == "DestinationChangedState"
      changed == {c \in Watched(r, h) :
                    /\ StakingPayee(s, c.account) # None /\ StakingPayee(p, c.account) # None
                    /\ StakingPayee(s, c.account) # StakingPayee(p, c.account)}
  IN {Report(c, h, None, <<StakingPayee(p, c.account), StakingPayee(s, c.account)>>) : c \in changed}

-----------------------------------------------------------------------------
(***************************************************************************)
(* Balances and assets.                                                    *)
(***************************************************************************)
BalanceThreshold(r, s) ==
  LET h == "BalanceThresholdState"
      judged == {c \in Watched(r, h) : IsTruthy(Setting(c, "threshold"))}
  IN {Track(c, h, None, SystemAccountBalance(s, c.account) < Setting(c, "threshold")) : c \in judged}

BalanceDecrease(r, s, p, areCached) ==
  LET h == "BalanceDecreaseState"
  IN {Report(c, h, None, SystemAccountBalance(s, c.account)) :
        c \in {c \in Watched(r, h) : IsLower(SystemAccountBalance(s, c.account),
                                             SystemAccountBalance(p, c.account), areCached)}}

TokensOf(c) == Or(Setting(c, "tokens"), {})
ThresholdsOf(c) ==
  IF "tokenThresholds" \in DOMAIN c.settings THEN c.settings["tokenThresholds"] ELSE <<>>

\* A token below its threshold is tracked; one above it is not spoken of.
HandleBalanceThreshold(r, s) ==
  LET h == "AssetBalanceThresholdState"
      IsBelow(c, t) == TokenAccountBalance(s, t, c.account) < ThresholdsOf(c)[t]
  IN UNION {{Track(c, h, t, TRUE) : t \in {t \in DOMAIN ThresholdsOf(c) : IsBelow(c, t)}} :
              c \in Watched(r, h)}

\* Mutant: the key of a token's report does not name the token.
DecreaseWithoutToken(r, s, p, areCached) ==
  LET h == "AssetBalanceDecreaseState"
      Fell(c, t) == IsLower(TokenAccountBalance(s, t, c.account),
                            TokenAccountBalance(p, t, c.account), areCached)
  IN UNION {{Report(c, h, None, <<t, TokenAccountBalance(s, t, c.account)>>) :
               t \in {t \in TokensOf(c) : Fell(c, t)}} : c \in Watched(r, h)}

HandleBalanceDecrease(r, s, p, areCached) ==
  LET h == "AssetBalanceDecreaseState"
      Fell(c, t) == IsLower(TokenAccountBalance(s, t, c.account),
                            TokenAccountBalance(p, t, c.account), areCached)
  IN UNION {{Report(c, h, t, <<t, TokenAccountBalance(s, t, c.account)>>) :
               t \in {t \in TokensOf(c) : Fell(c, t)}} : c \in Watched(r, h)}

UniqueTokens(r) == UNION {TokensOf(c) \union DOMAIN ThresholdsOf(c) : c \in ToSet(r.accounts)}

\* The balances of every token are asked for; one the chain does not know throws.
AssetBalancesThrow(r, chain) ==
  /\ \E c \in ToSet(r.accounts) :
       c.handlers \intersect {"AssetBalanceDecreaseState", "AssetBalanceThresholdState"} # {}
  /\ ~(UniqueTokens(r) \subseteq Tokens[chain])

-----------------------------------------------------------------------------
(***************************************************************************)
(* Identity.  A sub-identity is judged by the identity of its parent.      *)
(***************************************************************************)
ParentOf(s, a) == Or(IdentitySuperOf(s, a), a)
IdentityFor(s, c) == IdentityOf(s, ParentOf(s, c.account))

FieldOf(identity, field) == IF identity = None THEN None ELSE Lookup(identity, field)

IdentityUnexpected(r, s) ==
  LET h == "IdentityUnexpectedState"
      mismatched(c) == {f \in IdentityFields : /\ Setting(c, f) # None
                                               /\ Setting(c, f) # FieldOf(IdentityFor(s, c), f)}
  IN {Track(c, h, None, mismatched(c) # {}) : c \in Watched(r, h)}

IdentityMissing(r, s) ==
  LET h == "IdentityMissingState"
  IN {Track(c, h, None, IdentityFor(s, c) = None) : c \in Watched(r, h)}

IdentityFieldsMissing(r, s) ==
  LET h == "IdentityFieldsMissingState"
      required == {"email", "matrix"}
  IN {Track(c, h, None, ~(required \subseteq DOMAIN IdentityFor(s, c))) :
        c \in {c \in Watched(r, h) : IdentityFor(s, c) # None}}

\* Mutant: an identity event is about the account it names.
AddressItself(r, s, parent) ==
  IF \E c \in ToSet(r.accounts) : c.account = parent THEN parent ELSE None

\* The account an identity event is about: the first that has this parent.
FindAddressByParent(r, s, parent) ==
  LET own == {i \in DOMAIN r.accounts : ParentOf(s, r.accounts[i].account) = parent}
  IN IF own = {} THEN None
     ELSE r.accounts[CHOOSE i \in own : \A j \in own : i <= j].account

ChangedFields(s, p, parent) ==
  {f \in IdentityFields : FieldOf(IdentityOf(p, parent), f) # FieldOf(IdentityOf(s, parent), f)}

IdentityChanged(r, s, p, e) ==
  LET h == "IdentityChangedEvent"
  IN IF e.name \notin {"identity.IdentitySet", "identity.IdentityCleared", "identity.IdentityKilled"}
     THEN {}
     ELSE ReportAll(Matched(r, h, FindAddressByParent(r, s, e.who)), h, ChangedFields(s, p, e.who))

-----------------------------------------------------------------------------
(***************************************************************************)
(* Events and calls.                                                       *)
(***************************************************************************)
StakingEvents(r, e) ==
  (IF e.name # "staking.OffenceReported" THEN {}
   ELSE ReportAll(Matched(r, "OffenceReportedEvent", e.who), "OffenceReportedEvent", e.name))
  \union
  (IF e.name # "staking.ValidatorPrefsSet" THEN {}
   ELSE ReportAll(Matched(r, "CommissionChangedEvent", e.who), "CommissionChangedEvent", e.amount))
  \union
  (IF e.name # "staking.Unbonded" THEN {}
   ELSE ReportAll(Matched(r, "UnbondedEvent", e.who), "UnbondedEvent", e.amount))

BalancesTransfers(r, e) ==
  IF e.name # "balances.Transfer" THEN {}
  ELSE ReportAll(Matched(r, "TransferIngressEvent", e.to), "TransferIngressEvent", <<e.from, e.amount>>)
       \union ReportAll(Matched(r, "TransferEgressEvent", e.from), "TransferEgressEvent", <<e.to, e.amount>>)

\* The pallet of an event's name is in lower case, so that what is asked for
\* under "ormlTokens.Transfer" is never reported.
AssetTransfers(r, e) ==
  LET Moved(h, a, what) == {Report(c, h, e.token, what) :
                              c \in {c \in Matched(r, h, a) : e.token \in TokensOf(c)}}
  IN IF e.name \notin {"assets.Transferred", "ormlTokens.Transfer"} THEN {}
     ELSE Moved("AssetTransferIngressEvent", e.to, <<e.from, e.amount>>)
          \union Moved("AssetTransferEgressEvent", e.from, <<e.to, e.amount>>)

\* The reports of one message differ in what was sent, but not in their key.
XcmTransferEgress(r, e) ==
  LET h == "XcmTransferEgressEvent"
      origin == ParseLocation(e.origin)
      beneficiary == Beneficiary(e.message, e.destination)
      place == <<ParseLocation(beneficiary.to), ParseLocation(beneficiary.chain)>>
  IN IF origin = None THEN {}
     ELSE {Report(c, h, None, <<place, transfer>>) :
             c \in Matched(r, h, origin), transfer \in XcmTransfers(e.message)}

\* Once for each group that wants it, whatever its accounts.
ReferendaSubmitted(r, s, e) ==
  LET h == "ReferendaSubmittedEvent"
  IN IF e.name # "referenda.Submitted" THEN {}
     ELSE {Report([group |-> g.id, account |-> None], h, None, <<e.index, Lookup(s.proposers, e.index)>>) :
             g \in {g \in r.groups : h \in g.handlers}}

EventReports(r, s, p, e) ==
  StakingEvents(r, e) \union BalancesTransfers(r, e) \union AssetTransfers(r, e)
  \union IdentityChanged(r, s, p, e) \union ReferendaSubmitted(r, s, e)
  \union (IF e.name \in {"polkadotxcm.Sent", "xcmpallet.Sent"} THEN XcmTransferEgress(r, e) ELSE {})

CallHandlers ==
  [h \in {"DestinationChangedCall", "TransferCall", "ConvictionVoteCall"} |->
     CASE h = "DestinationChangedCall" -> {"Staking.set_payee", "Staking.bond"}
       [] h = "TransferCall" -> {"Balances.transfer_allow_death", "Balances.transfer_keep_alive"}
       [] h = "ConvictionVoteCall" -> {"ConvictionVoting.vote"}]

CallReports(r, leaf) ==
  UNION {ReportAll(Matched(r, h, leaf.origin), h, leaf.call.args) :
           h \in {h \in DOMAIN CallHandlers : leaf.call.name \in CallHandlers[h]}}

-----------------------------------------------------------------------------
Tracks(r, s) ==
  CommissionUnexpected(r, s) \union SelfStakeUnexpected(r, s) \union DestinationUnexpected(r, s)
  \union ValidatorIntentionMissing(r, s) \union ActiveSetPresence(r, s)
  \union BalanceThreshold(r, s) \union HandleBalanceThreshold(r, s)
  \union IdentityUnexpected(r, s) \union IdentityMissing(r, s) \union IdentityFieldsMissing(r, s)

StateReports(r, s, p, areCached) ==
  DestinationChangedState(r, s, p) \union BalanceDecrease(r, s, p, areCached)
  \union HandleBalanceDecrease(r, s, p, areCached)
=============================================================================
