-------------------------- MODULE Monitors_proofs --------------------------
(***************************************************************************)
(* Proofs about the monitors at work, for any configuration, storage,      *)
(* events and calls.                                                       *)
(***************************************************************************)
EXTENDS Monitors, WellFoundedInduction, TLAPS

-----------------------------------------------------------------------------
(***************************************************************************)
(* What a report says follows from its key and its place.                  *)
(***************************************************************************)
LEMMA ReportIs ==
  ASSUME NEW c, NEW h, NEW token, NEW what, NEW x, x = Report(c, h, token, what)
  PROVE  x.key.handler = h /\ x.key.account = c.account /\ x.key.token = token /\ x.what = what
  BY DEF Report, Key

LEMMA ReportAllIs ==
  ASSUME NEW cs, NEW h, NEW what, NEW x \in ReportAll(cs, h, what)
  PROVE  x.key.handler = h /\ x.what = what
  BY ReportIs DEF ReportAll

StateSays(key) ==
  CASE key.handler = "DestinationChangedState" ->
         <<StakingPayee(prev, key.account), StakingPayee(now, key.account)>>
    [] key.handler = "BalanceDecreaseState" -> SystemAccountBalance(now, key.account)
    [] key.handler = "AssetBalanceDecreaseState" ->
         <<key.token, TokenAccountBalance(now, key.token, key.account)>>

LEMMA StateReportsSay ==
  ASSUME NEW r, NEW areCached, NEW x \in StateReports(r, now, prev, areCached)
  PROVE  x.what = StateSays(x.key)
<1>1. CASE x \in DestinationChangedState(r, now, prev)
  <2>1. PICK c : x = Report(c, "DestinationChangedState", None,
                            <<StakingPayee(prev, c.account), StakingPayee(now, c.account)>>)
    BY <1>1 DEF DestinationChangedState
  <2> QED
    BY <2>1, ReportIs DEF StateSays
<1>2. CASE x \in BalanceDecrease(r, now, prev, areCached)
  <2>1. PICK c : x = Report(c, "BalanceDecreaseState", None, SystemAccountBalance(now, c.account))
    BY <1>2 DEF BalanceDecrease
  <2> QED
    BY <2>1, ReportIs DEF StateSays
<1>3. CASE x \in HandleBalanceDecrease(r, now, prev, areCached)
  <2>1. PICK c, t : x = Report(c, "AssetBalanceDecreaseState", t,
                               <<t, TokenAccountBalance(now, t, c.account)>>)
    BY <1>3 DEF HandleBalanceDecrease
  <2> QED
    BY <2>1, ReportIs DEF StateSays
<1> QED
  BY <1>1, <1>2, <1>3 DEF StateReports

EventSays(key, e) ==
  CASE key.handler \in {"OffenceReportedEvent"} -> e.name
    [] key.handler \in {"CommissionChangedEvent", "UnbondedEvent"} -> e.amount
    [] key.handler \in {"TransferIngressEvent", "AssetTransferIngressEvent"} -> <<e.from, e.amount>>
    [] key.handler \in {"TransferEgressEvent", "AssetTransferEgressEvent"} -> <<e.to, e.amount>>
    [] key.handler = "IdentityChangedEvent" -> ChangedFields(now, prev, e.who)
    [] key.handler = "ReferendaSubmittedEvent" -> <<e.index, Lookup(now.proposers, e.index)>>

LEMMA EventReportsSay ==
  ASSUME NEW r, NEW e, NEW x \in EventReports(r, now, prev, e)
  PROVE  x.key.handler = "XcmTransferEgressEvent" \/ x.what = EventSays(x.key, e)
<1>1. CASE x \in StakingEvents(r, e)
  BY <1>1, ReportAllIs DEF StakingEvents, EventSays
<1>2. CASE x \in BalancesTransfers(r, e)
  BY <1>2, ReportAllIs DEF BalancesTransfers, EventSays
<1>3. CASE x \in AssetTransfers(r, e)
  <2>1. \E c : \/ x = Report(c, "AssetTransferIngressEvent", e.token, <<e.from, e.amount>>)
               \/ x = Report(c, "AssetTransferEgressEvent", e.token, <<e.to, e.amount>>)
    BY <1>3 DEF AssetTransfers
  <2> QED
    BY <2>1, ReportIs DEF EventSays
<1>4. CASE x \in IdentityChanged(r, now, prev, e)
  <2>1. \E cs : x \in ReportAll(cs, "IdentityChangedEvent", ChangedFields(now, prev, e.who))
    BY <1>4 DEF IdentityChanged
  <2> QED
    BY <2>1, ReportAllIs DEF EventSays
<1>5. CASE x \in ReferendaSubmitted(r, now, e)
  <2>1. \E c : x = Report(c, "ReferendaSubmittedEvent", None, <<e.index, Lookup(now.proposers, e.index)>>)
    BY <1>5 DEF ReferendaSubmitted
  <2> QED
    BY <2>1, ReportIs DEF EventSays
<1>6. CASE x \in XcmTransferEgress(r, e)
  <2>1. ParseLocation(e.origin) # None
    BY <1>6 DEF XcmTransferEgress
  <2> DEFINE there == Beneficiary(e.message, e.destination)
             place == <<ParseLocation(there.to), ParseLocation(there.chain)>>
  <2>2. x \in {Report(c, "XcmTransferEgressEvent", None, <<place, transfer>>) :
                 c \in Matched(r, "XcmTransferEgressEvent", ParseLocation(e.origin)),
                 transfer \in XcmTransfers(e.message)}
    BY <1>6, <2>1 DEF XcmTransferEgress
  <2> HIDE DEF place
  <2>3. PICK c, transfer : x = Report(c, "XcmTransferEgressEvent", None, <<place, transfer>>)
    BY <2>2
  <2>4. x.key.handler = "XcmTransferEgressEvent"
    BY <2>3, ReportIs
  <2> QED
    BY <2>4
<1> QED
  BY <1>1, <1>2, <1>3, <1>4, <1>5, <1>6 DEF EventReports

LEMMA CallReportsSay ==
  ASSUME NEW r, NEW leaf, NEW x \in CallReports(r, leaf)
  PROVE  x.what = leaf.call.args
  BY ReportAllIs DEF CallReports

LEMMA AtIs ==
  ASSUME NEW reports, NEW position, NEW x \in At(reports, position)
  PROVE  /\ x.at = position
         /\ \E y \in reports : /\ x.key = y.key /\ x.what = y.what
                             /\ x = [key |-> y.key, at |-> position, what |-> y.what]
  BY DEF At

LEMMA StateOutcomeIs ==
  ASSUME NEW areCached, NEW x \in StateOutcome(areCached)
  PROVE  /\ Len(x.at) = 0 /\ x.what = StateSays(x.key)
         /\ x = [key |-> x.key, at |-> x.at, what |-> x.what]
<1>1. PICK m \in Monitor : \E y \in StateReports(monitors[m], now, prev, areCached) :
        /\ x.at = <<>> /\ x.key = y.key /\ x.what = y.what
        /\ x = [key |-> y.key, at |-> <<>>, what |-> y.what]
  BY AtIs DEF StateOutcome
<1> QED
  BY <1>1, StateReportsSay

\* The reports of the block's storage, of balances read from the chain.
FreshOutcome == StateOutcome(FALSE)

LEMMA StateOutcomeSays ==
  ASSUME NEW x \in FreshOutcome
  PROVE  /\ Len(x.at) = 0 /\ x.what = StateSays(x.key)
         /\ x = [key |-> x.key, at |-> x.at, what |-> x.what]
  BY StateOutcomeIs DEF FreshOutcome

LEMMA EventOutcomeSays ==
  ASSUME NEW x \in EventOutcome
  PROVE  \E i \in DOMAIN block.events :
           /\ Len(x.at) = 1 /\ x.at[1] = i
           /\ x.key.handler = "XcmTransferEgressEvent" \/ x.what = EventSays(x.key, block.events[i])
           /\ x = [key |-> x.key, at |-> x.at, what |-> x.what]
<1>1. PICK i \in DOMAIN block.events :
        x \in At(UNION {EventReports(monitors[m], now, prev, block.events[i]) : m \in Monitor}, <<i>>)
  BY DEF EventOutcome
<1>2. PICK m \in Monitor : \E y \in EventReports(monitors[m], now, prev, block.events[i]) :
        /\ x.at = <<i>> /\ x.key = y.key /\ x.what = y.what
        /\ x = [key |-> y.key, at |-> <<i>>, what |-> y.what]
  BY <1>1, AtIs
<1> QED
  BY <1>2, EventReportsSay

LEMMA CallOutcomeSays ==
  ASSUME NEW x \in CallOutcome
  PROVE  \E e \in DOMAIN block.body : \E j \in DOMAIN Leaves(block.body[e]) :
           /\ Len(x.at) = 2 /\ x.at[1] = e /\ x.at[2] = j
           /\ x.what = Leaves(block.body[e])[j].call.args
           /\ x = [key |-> x.key, at |-> x.at, what |-> x.what]
<1>1. PICK e \in DOMAIN block.body :
        x \in UNION {At(UNION {CallReports(monitors[m], Leaves(block.body[e])[j]) : m \in Monitor}, <<e, j>>) :
                       j \in DOMAIN Leaves(block.body[e])}
  BY DEF CallOutcome
<1>2. PICK j \in DOMAIN Leaves(block.body[e]) :
        x \in At(UNION {CallReports(monitors[m], Leaves(block.body[e])[j]) : m \in Monitor}, <<e, j>>)
  BY <1>1
<1>3. PICK m \in Monitor : \E y \in CallReports(monitors[m], Leaves(block.body[e])[j]) :
        /\ x.at = <<e, j>> /\ x.key = y.key /\ x.what = y.what
        /\ x = [key |-> y.key, at |-> <<e, j>>, what |-> y.what]
  BY <1>2, AtIs
<1>4. x.what = Leaves(block.body[e])[j].call.args
  BY <1>3, CallReportsSay
<1> QED
  BY <1>3, <1>4

LEMMA NoneSwallowed == NoReportSwallowed
<1> DEFINE all == FreshOutcome \union EventOutcome \union CallOutcome
<1> SUFFICES ASSUME NEW x \in all, NEW y \in all, Position(x) = Position(y)
             PROVE  x = y \/ x.key.handler = "XcmTransferEgressEvent"
  BY DEF NoReportSwallowed, FreshOutcome
<1>1. x.key = y.key /\ x.at = y.at
  BY DEF Position
<1>5. \A z \in FreshOutcome : Len(z.at) = 0
  BY StateOutcomeSays
<1>6. \A z \in EventOutcome : Len(z.at) = 1
  BY EventOutcomeSays
<1>7. \A z \in CallOutcome : Len(z.at) = 2
  BY CallOutcomeSays
<1>8. ASSUME NEW z \in all
      PROVE  /\ Len(z.at) = 0 => z \in FreshOutcome
             /\ Len(z.at) = 1 => z \in EventOutcome
             /\ Len(z.at) = 2 => z \in CallOutcome
  <2>1. z \in FreshOutcome \/ z \in EventOutcome \/ z \in CallOutcome
    OBVIOUS
  <2>2. Len(z.at) = 0 => z \notin EventOutcome /\ z \notin CallOutcome
    BY <1>6, <1>7
  <2>3. Len(z.at) = 1 => z \notin FreshOutcome /\ z \notin CallOutcome
    BY <1>5, <1>7
  <2>4. Len(z.at) = 2 => z \notin FreshOutcome /\ z \notin EventOutcome
    BY <1>5, <1>6
  <2> HIDE DEF all
  <2> QED
    BY <2>1, <2>2, <2>3, <2>4
<1>2. ASSUME NEW z \in all PROVE z = [key |-> z.key, at |-> z.at, what |-> z.what]
  BY <1>2, StateOutcomeSays, EventOutcomeSays, CallOutcomeSays
<1>3. x.what = y.what \/ x.key.handler = "XcmTransferEgressEvent"
  <2>1. CASE x \in FreshOutcome
    <3>0. Len(x.at) = Len(y.at)
      BY <1>1
    <3>1. Len(x.at) = 0 /\ x.what = StateSays(x.key)
      BY <2>1, StateOutcomeSays
    <3>2. y \in FreshOutcome
      BY <1>8, <3>0, <3>1
    <3> QED
      BY <1>1, <3>1, <3>2, StateOutcomeSays
  <2>2. CASE x \in EventOutcome
    <3>0. Len(x.at) = Len(y.at)
      BY <1>1
    <3>1. PICK i \in DOMAIN block.events :
            /\ Len(x.at) = 1 /\ x.at[1] = i
            /\ x.key.handler = "XcmTransferEgressEvent" \/ x.what = EventSays(x.key, block.events[i])
      BY <2>2, EventOutcomeSays
    <3>2. y \in EventOutcome
      BY <1>8, <3>0, <3>1
    <3>3. PICK k \in DOMAIN block.events :
            /\ Len(y.at) = 1 /\ y.at[1] = k
            /\ y.key.handler = "XcmTransferEgressEvent" \/ y.what = EventSays(y.key, block.events[k])
      BY <3>2, EventOutcomeSays
    <3>4. i = k
      BY <1>1, <3>1, <3>3
    <3> QED
      BY <1>1, <3>1, <3>3, <3>4
  <2>3. CASE x \in CallOutcome
    <3>0. Len(x.at) = Len(y.at)
      BY <1>1
    <3>1. PICK e \in DOMAIN block.body : \E j \in DOMAIN Leaves(block.body[e]) :
            Len(x.at) = 2 /\ x.at[1] = e /\ x.at[2] = j /\ x.what = Leaves(block.body[e])[j].call.args
      BY <2>3, CallOutcomeSays
    <3>2. PICK j \in DOMAIN Leaves(block.body[e]) :
            Len(x.at) = 2 /\ x.at[1] = e /\ x.at[2] = j /\ x.what = Leaves(block.body[e])[j].call.args
      BY <3>1
    <3>3. y \in CallOutcome
      BY <1>8, <3>0, <3>2
    <3>4. PICK f \in DOMAIN block.body : \E k \in DOMAIN Leaves(block.body[f]) :
            Len(y.at) = 2 /\ y.at[1] = f /\ y.at[2] = k /\ y.what = Leaves(block.body[f])[k].call.args
      BY <3>3, CallOutcomeSays
    <3>5. PICK k \in DOMAIN Leaves(block.body[f]) :
            Len(y.at) = 2 /\ y.at[1] = f /\ y.at[2] = k /\ y.what = Leaves(block.body[f])[k].call.args
      BY <3>4
    <3>6. e = f /\ j = k
      BY <1>1, <3>2, <3>5
    <3> QED
      BY <3>2, <3>5, <3>6
  <2> QED
    BY <2>1, <2>2, <2>3
<1>4. CASE x.what = y.what
  <2>1. x = [key |-> x.key, at |-> x.at, what |-> x.what] /\ y = [key |-> y.key, at |-> y.at, what |-> y.what]
    BY <1>2
  <2> QED
    BY <1>1, <1>4, <2>1
<1> QED
  BY <1>3, <1>4

\* No report of a block takes another's place with the incident service, for any
\* configuration, storage, events and calls, except the transfers of one XCM message.
THEOREM NoReportTakesAnothersPlace == Spec => []NoReportSwallowed
  BY NoneSwallowed, PTL

-----------------------------------------------------------------------------
(***************************************************************************)
(* Attempts.                                                               *)
(***************************************************************************)
LEMMA NumbersAreLower ==
  ASSUME NEW x, NEW y, NEW areCached, ~AreObjects(x, y)
  PROVE  IsLower(x, y, areCached) = IsLower(x, y, FALSE)
  BY DEF IsLower

\* The cache makes no difference.
LEMMA CacheIsFaithful ==
  ASSUME BalancesCompareAsNumbers, NEW areCached
  PROVE  StateOutcome(areCached) = FreshOutcome
<1>1. ASSUME NEW m \in Monitor
      PROVE  StateReports(monitors[m], now, prev, areCached)
               = StateReports(monitors[m], now, prev, FALSE)
  <2> DEFINE r == monitors[m]
  <2>1. BalanceDecrease(r, now, prev, areCached) = BalanceDecrease(r, now, prev, FALSE)
    <3>1. \A c \in Watched(r, "BalanceDecreaseState") :
            IsLower(SystemAccountBalance(now, c.account), SystemAccountBalance(prev, c.account), areCached)
              = IsLower(SystemAccountBalance(now, c.account), SystemAccountBalance(prev, c.account), FALSE)
      BY NumbersAreLower DEF BalancesCompareAsNumbers, Watched
    <3> QED
      BY <3>1 DEF BalanceDecrease
  <2>2. HandleBalanceDecrease(r, now, prev, areCached) = HandleBalanceDecrease(r, now, prev, FALSE)
    <3> DEFINE Fallen(c, cached) ==
             {t \in TokensOf(c) : IsLower(TokenAccountBalance(now, t, c.account),
                                          TokenAccountBalance(prev, t, c.account), cached)}
               Said(c, cached) ==
                 {Report(c, "AssetBalanceDecreaseState", t, <<t, TokenAccountBalance(now, t, c.account)>>) :
                    t \in Fallen(c, cached)}
    <3>1. \A c \in Watched(r, "AssetBalanceDecreaseState") : Fallen(c, areCached) = Fallen(c, FALSE)
      BY NumbersAreLower DEF BalancesCompareAsNumbers, Watched
    <3>2. \A c \in Watched(r, "AssetBalanceDecreaseState") : Said(c, areCached) = Said(c, FALSE)
      BY <3>1
    <3>3. \A cached : HandleBalanceDecrease(r, now, prev, cached)
                        = UNION {Said(c, cached) : c \in Watched(r, "AssetBalanceDecreaseState")}
      BY DEF HandleBalanceDecrease
    <3> HIDE DEF Said
    <3> QED
      BY <3>2, <3>3
  <2> QED
    BY <2>1, <2>2 DEF StateReports
<1> QED
  BY <1>1 DEF StateOutcome, FreshOutcome

Sure == FreshOutcome \union EventOutcome

\* What was made of a block so far is to be made of it, and what is done has all.
IsReplayed ==
  /\ made \subseteq Positions(Sure \union CallOutcome)
  /\ pc = "done" => Positions(Sure) \subseteq made

ReplayInv == pc \in {"first", "retry", "done"} /\ (BalancesCompareAsNumbers => IsReplayed)

LEMMA Replays == Spec => []ReplayInv
<1>1. Init => ReplayInv
  BY DEF Init, ReplayInv, IsReplayed
<1>2. ASSUME ReplayInv, [Next]_vars
      PROVE  ReplayInv'
  <2>1. CASE UNCHANGED <<world, monitors, prev, now, block>> /\ (Attempt \/ UNCHANGED vars)
    <3>1. /\ Sure' = Sure /\ CallOutcome' = CallOutcome
          /\ BalancesCompareAsNumbers' = BalancesCompareAsNumbers
      BY <2>1 DEF Sure, FreshOutcome, StateOutcome, EventOutcome, CallOutcome, Monitor,
                  BalancesCompareAsNumbers
    <3>2. CASE Attempt
      <4>1. PICK areCached \in BOOLEAN : Completes(areCached) \/ Fails(areCached)
        BY <3>2 DEF Attempt
      <4>2. pc' \in {"retry", "done"}
        BY <4>1 DEF Completes, Fails
      <4>3. ASSUME BalancesCompareAsNumbers PROVE IsReplayed'
        <5>1. StateOutcome(areCached) \union EventOutcome = Sure
          BY <4>3, CacheIsFaithful DEF Sure
        <5>2. IsReplayed
          BY <1>2, <4>3 DEF ReplayInv
        <5>3. CASE Completes(areCached)
          <6>1. PICK done \in SUBSET CallOutcome :
                  made' = made \union Positions(Sure \union done) /\ pc' = "done"
            BY <5>1, <5>3 DEF Completes
          <6> QED
            BY <3>1, <5>2, <6>1 DEF IsReplayed, Positions
        <5>4. CASE Fails(areCached)
          <6>1. PICK done \in SUBSET Sure : made' = made \union Positions(done) /\ pc' = "retry"
            BY <5>1, <5>4 DEF Fails
          <6> QED
            BY <3>1, <5>2, <6>1 DEF IsReplayed, Positions
        <5> QED
          BY <4>1, <5>3, <5>4
      <4> QED
        BY <3>1, <4>2, <4>3 DEF ReplayInv
    <3>3. CASE UNCHANGED vars
      BY <1>2, <3>1, <3>3 DEF ReplayInv, IsReplayed, Positions, vars
    <3> QED
      BY <2>1, <3>2, <3>3
  <2>2. CASE NextBlock
    <3>1. made' = {} /\ pc' = "first"
      BY <2>2 DEF NextBlock
    <3> QED
      BY <3>1 DEF ReplayInv, IsReplayed
  <2> QED
    BY <1>2, <2>1, <2>2 DEF Next, Attempt, vars
<1> QED
  BY <1>1, <1>2, PTL DEF Spec

\* However many attempts a block takes, and whether they find its balances in the
\* cache or not, the reports of its storage and events are made and no others, as
\* long as no two balances that are compared both have more digits than the cache
\* keeps as a number.
THEOREM ReplaysAreTheSame == Spec => []ReplaysReportTheSame
<1>1. ReplayInv => ReplaysReportTheSame
  BY DEF ReplayInv, IsReplayed, ReplaysReportTheSame, Sure, FreshOutcome
<1> QED
  BY <1>1, Replays, PTL

-----------------------------------------------------------------------------
(***************************************************************************)
(* Lists put together, and powers of ten.                                  *)
(***************************************************************************)
\* A set of numbers has a first.
LEMMA HasFirst ==
  ASSUME NEW S \in SUBSET Nat, S # {}
  PROVE  \E n \in S : \A m \in S : n <= m
<1>1. PICK n \in S : \A m \in S : <<m, n>> \notin OpToRel(<, Nat)
  BY NatLessThanWellFounded, WFMin
<1>2. \A m \in S : ~(m < n)
  BY <1>1 DEF OpToRel
<1> QED
  BY <1>2

\* A sequence of the sequences of T, taken together up to each place.
IsJoining(f, ss) ==
  \A i \in DOMAIN f : f[i] = IF i = 1 THEN ss[i] ELSE f[i - 1] \o ss[i]

LEMMA ToSetOfConcat ==
  ASSUME NEW T, NEW s \in Seq(T), NEW t \in Seq(T)
  PROVE  s \o t \in Seq(T) /\ ToSet(s \o t) = ToSet(s) \union ToSet(t)
<1>1. s \o t \in Seq(T) /\ DOMAIN (s \o t) = 1 .. Len(s) + Len(t)
  OBVIOUS
<1>2. \A i \in 1 .. Len(s) : (s \o t)[i] = s[i]
  OBVIOUS
<1>3. \A i \in 1 .. Len(t) : Len(s) + i \in 1 .. Len(s) + Len(t) /\ (s \o t)[Len(s) + i] = t[i]
  OBVIOUS
<1>4. \A i \in 1 .. Len(s) + Len(t) : i \in 1 .. Len(s) \/ i - Len(s) \in 1 .. Len(t)
  OBVIOUS
<1>5. ToSet(s \o t) \subseteq ToSet(s) \union ToSet(t)
  <2> SUFFICES ASSUME NEW i \in 1 .. Len(s) + Len(t) PROVE (s \o t)[i] \in ToSet(s) \union ToSet(t)
    BY <1>1 DEF ToSet
  <2>1. CASE i \in 1 .. Len(s)
    BY <1>2, <2>1 DEF ToSet
  <2>2. CASE i - Len(s) \in 1 .. Len(t)
    BY <1>3, <2>2 DEF ToSet
  <2> QED
    BY <1>4, <2>1, <2>2
<1>6. ToSet(s) \union ToSet(t) \subseteq ToSet(s \o t)
  <2>1. \A i \in DOMAIN s : s[i] \in ToSet(s \o t)
    BY <1>1, <1>2 DEF ToSet
  <2>2. \A i \in DOMAIN t : t[i] \in ToSet(s \o t)
    <3> SUFFICES ASSUME NEW i \in 1 .. Len(t) PROVE t[i] \in ToSet(s \o t)
      OBVIOUS
    <3>1. Len(s) + i \in DOMAIN (s \o t) /\ (s \o t)[Len(s) + i] = t[i]
      BY <1>1, <1>3
    <3> QED
      BY <3>1 DEF ToSet
  <2> QED
    BY <2>1, <2>2 DEF ToSet
<1> QED
  BY <1>1, <1>5, <1>6

LEMMA JoiningExists ==
  ASSUME NEW T, NEW ss \in Seq(Seq(T))
  PROVE  \E f \in [1 .. Len(ss) -> Seq(T)] :
           IsJoining(f, ss) /\ \A i \in 1 .. Len(ss) : ToSet(f[i]) = UNION {ToSet(ss[k]) : k \in 1 .. i}
<1> DEFINE IsFor(f, n) ==
             IsJoining(f, ss) /\ \A i \in 1 .. n : ToSet(f[i]) = UNION {ToSet(ss[k]) : k \in 1 .. i}
           Bad == {n \in 0 .. Len(ss) : ~(\E f \in [1 .. n -> Seq(T)] : IsFor(f, n))}
<1> SUFFICES ASSUME Bad # {} PROVE FALSE
  <2>1. Len(ss) \in 0 .. Len(ss)
    OBVIOUS
  <2>2. Bad = {} => \E f \in [1 .. Len(ss) -> Seq(T)] : IsFor(f, Len(ss))
    BY <2>1
  <2> QED
    BY <2>2
<1>0. Bad \in SUBSET Nat
  BY DEF Bad
<1>1. PICK n \in Bad : \A m \in Bad : n <= m
  <2> HIDE DEF Bad
  <2> QED
    BY <1>0, HasFirst
<1>2. n # 0
  <2>1. [i \in 1 .. 0 |-> <<>>] \in [1 .. 0 -> Seq(T)]
    OBVIOUS
  <2>2. IsFor([i \in 1 .. 0 |-> <<>>], 0)
    BY DEF IsJoining
  <2> QED
    BY <2>1, <2>2
<1>3. n \in 1 .. Len(ss) /\ n - 1 \in 0 .. Len(ss) /\ n - 1 \notin Bad
  <2>1. n \in 0 .. Len(ss) /\ Len(ss) \in Nat
    BY <1>1
  <2> HIDE DEF Bad
  <2> QED
    BY <1>1, <1>2, <2>1
<1>4. PICK f \in [1 .. n - 1 -> Seq(T)] : IsFor(f, n - 1)
  BY <1>3
<1> DEFINE last == IF n = 1 THEN ss[n] ELSE f[n - 1] \o ss[n]
           g == [i \in 1 .. n |-> IF i = n THEN last ELSE f[i]]
<1>5. last \in Seq(T) /\ ToSet(last) = UNION {ToSet(ss[k]) : k \in 1 .. n}
  <2>0. ss[n] \in Seq(T)
    BY <1>3
  <2>1. CASE n = 1
    BY <2>0, <2>1
  <2>2. CASE n # 1
    <3>1. n - 1 \in 1 .. n - 1 /\ f[n - 1] \in Seq(T)
      BY <1>3, <2>2
    <3>2. ToSet(f[n - 1]) = UNION {ToSet(ss[k]) : k \in 1 .. n - 1}
      BY <1>4, <3>1
    <3>3. last \in Seq(T) /\ ToSet(last) = ToSet(f[n - 1]) \union ToSet(ss[n])
      BY <2>0, <2>2, <3>1, ToSetOfConcat
    <3>4. 1 .. n = 1 .. n - 1 \union {n}
      BY <1>3
    <3> HIDE DEF last
    <3> QED
      BY <3>2, <3>3, <3>4
  <2> QED
    BY <2>1, <2>2
<1>6. g \in [1 .. n -> Seq(T)]
  <2> HIDE DEF last
  <2> QED
    BY <1>3, <1>5
<1>7. IsJoining(g, ss)
  <2> SUFFICES ASSUME NEW i \in 1 .. n PROVE g[i] = IF i = 1 THEN ss[i] ELSE g[i - 1] \o ss[i]
    BY DEF IsJoining
  <2>1. CASE i = n
    BY <1>3, <2>1
  <2>2. CASE i # n
    <3>1. i \in 1 .. n - 1 /\ (i # 1 => i - 1 \in 1 .. n - 1)
      BY <1>3, <2>2
    <3>2. f[i] = IF i = 1 THEN ss[i] ELSE f[i - 1] \o ss[i]
      BY <1>4, <3>1 DEF IsJoining
    <3> HIDE DEF last
    <3>3. g[i] = f[i]
      BY <2>2
    <3>4. i # 1 => g[i - 1] = f[i - 1]
      BY <1>3, <3>1
    <3> HIDE DEF g
    <3> QED
      BY <3>2, <3>3, <3>4
  <2> QED
    BY <2>1, <2>2
<1>8. \A i \in 1 .. n : ToSet(g[i]) = UNION {ToSet(ss[k]) : k \in 1 .. i}
  <2> TAKE i \in 1 .. n
  <2>1. CASE i = n
    BY <1>5, <2>1
  <2>2. CASE i # n
    <3>1. i \in 1 .. n - 1 /\ g[i] = f[i]
      BY <1>3, <2>2
    <3> QED
      BY <1>4, <3>1
  <2> QED
    BY <2>1, <2>2
<1> QED
  BY <1>1, <1>6, <1>7, <1>8

\* What is in the parts is in the whole.
LEMMA FlattenIs ==
  ASSUME NEW T, NEW ss \in Seq(Seq(T))
  PROVE  /\ FlattenSeq(ss) \in Seq(T)
         /\ ToSet(FlattenSeq(ss)) = UNION {ToSet(ss[i]) : i \in DOMAIN ss}
<1>1. CASE Len(ss) = 0
  <2>1. ss = <<>> /\ FlattenSeq(ss) = ss
    BY <1>1 DEF FlattenSeq
  <2>2. DOMAIN ss = {} /\ <<>> \in Seq(T)
    BY <2>1
  <2>3. ToSet(ss) = {} /\ UNION {ToSet(ss[i]) : i \in DOMAIN ss} = {}
    BY <2>2 DEF ToSet
  <2> QED
    BY <2>1, <2>2, <2>3
<1>2. CASE Len(ss) # 0
  <2> DEFINE flatten[i \in 1 .. Len(ss)] == IF i = 1 THEN ss[i] ELSE flatten[i-1] \o ss[i]
  <2>1. FlattenSeq(ss) = flatten[Len(ss)]
    BY <1>2 DEF FlattenSeq
  <2>2. PICK f \in [1 .. Len(ss) -> Seq(T)] :
           IsJoining(f, ss) /\ \A i \in 1 .. Len(ss) : ToSet(f[i]) = UNION {ToSet(ss[k]) : k \in 1 .. i}
    BY JoiningExists
  <2>3. flatten = [i \in 1 .. Len(ss) |-> IF i = 1 THEN ss[i] ELSE flatten[i-1] \o ss[i]]
    <3>1. DOMAIN f = 1 .. Len(ss) /\ \A i \in 1 .. Len(ss) : f[i] = IF i = 1 THEN ss[i] ELSE f[i - 1] \o ss[i]
      BY <2>2 DEF IsJoining
    <3>2. f = [i \in 1 .. Len(ss) |-> IF i = 1 THEN ss[i] ELSE f[i - 1] \o ss[i]]
      BY <3>1
    <3> QED
      BY <3>2
  <2> HIDE DEF flatten
  <2>5. \A i \in 1 .. Len(ss) : flatten[i] = f[i]
    <3> DEFINE Bad == {i \in 1 .. Len(ss) : flatten[i] # f[i]}
    <3> SUFFICES ASSUME Bad # {} PROVE FALSE
      OBVIOUS
    <3>0. Bad \in SUBSET Nat
      BY DEF Bad
    <3>1. PICK n \in Bad : \A m \in Bad : n <= m
      <4> HIDE DEF Bad
      <4> QED
        BY <3>0, HasFirst
    <3>2. n - 1 \in 1 .. Len(ss) => flatten[n - 1] = f[n - 1]
      BY <3>1
    <3>3. flatten[n] = IF n = 1 THEN ss[n] ELSE flatten[n - 1] \o ss[n]
      BY <2>3
    <3>4. f[n] = IF n = 1 THEN ss[n] ELSE f[n - 1] \o ss[n]
      BY <2>2 DEF IsJoining
    <3>5. n = 1 \/ n - 1 \in 1 .. Len(ss)
      BY <3>1
    <3>6. flatten[n] = f[n]
      BY <3>2, <3>3, <3>4, <3>5
    <3> QED
      BY <3>1, <3>6
  <2>6. Len(ss) \in 1 .. Len(ss) /\ DOMAIN ss = 1 .. Len(ss)
    BY <1>2
  <2>7. FlattenSeq(ss) = f[Len(ss)]
    BY <2>1, <2>5, <2>6
  <2>8. f[Len(ss)] \in Seq(T) /\ ToSet(f[Len(ss)]) = UNION {ToSet(ss[k]) : k \in 1 .. Len(ss)}
    BY <2>2, <2>6
  <2> QED
    BY <2>6, <2>7, <2>8
<1> QED
  BY <1>1, <1>2

IsPowers(f, n) ==
  /\ f \in [0 .. n -> Nat \ {0}]
  /\ \A i \in 0 .. n : f[i] = IF i = 0 THEN 1 ELSE 10 * f[i - 1]

LEMMA PowersExist ==
  ASSUME NEW n \in Nat
  PROVE  \E f : IsPowers(f, n)
<1> DEFINE Bad == {k \in Nat : ~(\E f : IsPowers(f, k))}
<1> SUFFICES ASSUME Bad # {} PROVE FALSE
  OBVIOUS
<1>0. Bad \in SUBSET Nat
  BY DEF Bad
<1>1. PICK k \in Bad : \A m \in Bad : k <= m
  <2> HIDE DEF Bad
  <2> QED
    BY <1>0, HasFirst
<1>2. k # 0
  <2>1. IsPowers([i \in 0 .. 0 |-> 1], 0)
    BY DEF IsPowers
  <2> QED
    BY <2>1
<1>3. k \in Nat /\ k - 1 \in Nat /\ k - 1 \notin Bad
  <2>1. k \in Nat /\ k - 1 \in Nat
    BY <1>0, <1>1, <1>2
  <2> HIDE DEF Bad
  <2> QED
    BY <1>1, <2>1
<1>4. PICK f : IsPowers(f, k - 1)
  BY <1>3
<1> DEFINE g == [i \in 0 .. k |-> IF i = k THEN 10 * f[k - 1] ELSE f[i]]
<1>5. IsPowers(g, k)
  <2>1. f[k - 1] \in Nat \ {0}
    BY <1>3, <1>4 DEF IsPowers
  <2>2. g \in [0 .. k -> Nat \ {0}]
    BY <1>3, <1>4, <2>1 DEF IsPowers
  <2>3. ASSUME NEW i \in 0 .. k PROVE g[i] = IF i = 0 THEN 1 ELSE 10 * g[i - 1]
    BY <1>2, <1>3, <1>4 DEF IsPowers
  <2> QED
    BY <2>2, <2>3 DEF IsPowers
<1> QED
  BY <1>1, <1>5

LEMMA PowersAgree ==
  ASSUME NEW m \in Nat, NEW n \in Nat, m <= n, NEW f, IsPowers(f, m), NEW g, IsPowers(g, n),
         NEW i \in 0 .. m
  PROVE  f[i] = g[i]
<1> DEFINE Bad == {k \in 0 .. m : f[k] # g[k]}
<1> SUFFICES ASSUME Bad # {} PROVE FALSE
  OBVIOUS
<1>0. Bad \in SUBSET Nat
  BY DEF Bad
<1>1. PICK k \in Bad : \A l \in Bad : k <= l
  <2> HIDE DEF Bad
  <2> QED
    BY <1>0, HasFirst
<1>2. k \in 0 .. m /\ k \in 0 .. n /\ f[k] # g[k]
  BY <1>1
<1>3. k # 0 => k - 1 \in 0 .. m /\ f[k - 1] = g[k - 1]
  <2> SUFFICES ASSUME k # 0 PROVE k - 1 \in 0 .. m /\ f[k - 1] = g[k - 1]
    OBVIOUS
  <2>1. k - 1 \in 0 .. m /\ ~(k <= k - 1)
    BY <1>2
  <2> QED
    BY <1>1, <2>1
<1> QED
  BY <1>2, <1>3 DEF IsPowers

\* The powers of ten.
LEMMA TenToIs ==
  /\ TenTo \in [Nat -> Nat \ {0}]
  /\ TenTo[0] = 1
  /\ \A n \in Nat : TenTo[n + 1] = 10 * TenTo[n]
<1> DEFINE P(n) == CHOOSE f : IsPowers(f, n)
           h == [n \in Nat |-> P(n)[n]]
<1>1. ASSUME NEW n \in Nat PROVE IsPowers(P(n), n)
  BY PowersExist
<1> HIDE DEF P
<1>2. h \in [Nat -> Nat \ {0}]
  <2>1. ASSUME NEW n \in Nat PROVE P(n)[n] \in Nat \ {0}
    BY <1>1 DEF IsPowers
  <2> QED
    BY <2>1
<1>3. \A n \in Nat : h[n] = IF n = 0 THEN 1 ELSE 10 * h[n - 1]
  <2> TAKE n \in Nat
  <2>1. CASE n = 0
    BY <1>1, <2>1 DEF IsPowers
  <2>2. CASE n # 0
    <3>1. n - 1 \in Nat /\ n - 1 \in 0 .. n - 1 /\ n \in 0 .. n /\ n - 1 <= n
      BY <2>2
    <3>2. P(n)[n] = 10 * P(n)[n - 1]
      BY <1>1, <2>2, <3>1 DEF IsPowers
    <3>3. P(n - 1)[n - 1] = P(n)[n - 1]
      BY <1>1, <3>1, PowersAgree
    <3> QED
      BY <2>2, <3>1, <3>2, <3>3
  <2> QED
    BY <2>1, <2>2
<1>4. h = [n \in Nat |-> IF n = 0 THEN 1 ELSE 10 * h[n - 1]]
  <2>1. DOMAIN h = Nat /\ h = [n \in Nat |-> h[n]]
    BY <1>2
  <2> HIDE DEF h
  <2> QED
    BY <1>3, <2>1
<1>5. TenTo = [n \in Nat |-> IF n = 0 THEN 1 ELSE 10 * TenTo[n - 1]]
  <2> HIDE DEF h
  <2> QED
    BY <1>4 DEF TenTo
<1> HIDE DEF h
<1>6. \A n \in Nat : TenTo[n] = h[n]
  <2> DEFINE Bad == {n \in Nat : TenTo[n] # h[n]}
  <2> SUFFICES ASSUME Bad # {} PROVE FALSE
    OBVIOUS
  <2>0. Bad \in SUBSET Nat
    BY DEF Bad
  <2>1. PICK k \in Bad : \A l \in Bad : k <= l
    <3> HIDE DEF Bad
    <3> QED
      BY <2>0, HasFirst
  <2>2. k \in Nat /\ TenTo[k] # h[k]
    BY <2>1
  <2>3. k # 0 => k - 1 \in Nat /\ TenTo[k - 1] = h[k - 1]
    <3> SUFFICES ASSUME k # 0 PROVE k - 1 \in Nat /\ TenTo[k - 1] = h[k - 1]
      OBVIOUS
    <3>1. k - 1 \in Nat /\ ~(k <= k - 1)
      BY <2>2
    <3> QED
      BY <2>1, <3>1
  <2>4. TenTo[k] = IF k = 0 THEN 1 ELSE 10 * TenTo[k - 1]
    BY <1>5, <2>2
  <2>5. h[k] = IF k = 0 THEN 1 ELSE 10 * h[k - 1]
    BY <1>3, <2>2
  <2> QED
    BY <2>2, <2>3, <2>4, <2>5
<1>7. DOMAIN TenTo = Nat /\ TenTo = [n \in Nat |-> TenTo[n]]
  BY <1>5
<1>8. TenTo = h
  BY <1>2, <1>6, <1>7
<1>9. \A n \in Nat : n + 1 \in Nat /\ n + 1 # 0 /\ (n + 1) - 1 = n
  OBVIOUS
<1> QED
  BY <1>2, <1>3, <1>8, <1>9

LEMMA TenToAdds ==
  ASSUME NEW a \in Nat, NEW b \in Nat
  PROVE  TenTo[a + b] = TenTo[a] * TenTo[b]
<1> DEFINE Bad == {n \in Nat : TenTo[a + n] # TenTo[a] * TenTo[n]}
<1> SUFFICES ASSUME Bad # {} PROVE FALSE
  OBVIOUS
<1>0. Bad \in SUBSET Nat
  BY DEF Bad
<1>1. PICK k \in Bad : \A l \in Bad : k <= l
  <2> HIDE DEF Bad
  <2> QED
    BY <1>0, HasFirst
<1>2. k \in Nat /\ TenTo[a + k] # TenTo[a] * TenTo[k]
  BY <1>1
<1>3. TenTo[a] \in Nat
  BY TenToIs
<1>4. k # 0
  BY <1>2, <1>3, TenToIs
<1>5. k - 1 \in Nat /\ ~(k <= k - 1)
  BY <1>2, <1>4
<1>6. TenTo[a + (k - 1)] = TenTo[a] * TenTo[k - 1]
  BY <1>1, <1>5
<1>7. TenTo[k] = 10 * TenTo[k - 1] /\ TenTo[a + k] = 10 * TenTo[a + (k - 1)]
  <2>1. (k - 1) + 1 = k /\ (a + (k - 1)) + 1 = a + k /\ a + (k - 1) \in Nat
    BY <1>2, <1>5
  <2> QED
    BY <1>5, <2>1, TenToIs
<1>8. TenTo[k - 1] \in Nat
  BY <1>5, TenToIs
<1>9. TenTo[a] * (10 * TenTo[k - 1]) = 10 * (TenTo[a] * TenTo[k - 1])
  <2>1. \A x, y \in Nat : x * (10 * y) = 10 * (x * y)
    OBVIOUS
  <2> QED
    BY <1>3, <1>8, <2>1
<1> QED
  BY <1>2, <1>6, <1>7, <1>9

-----------------------------------------------------------------------------
(***************************************************************************)
(* The groups that are made of the files: each group of a file, with the   *)
(* defaults, once for each of its chains.                                  *)
(***************************************************************************)
LEMMA ListOf ==
  ASSUME NEW n \in Nat, NEW f, f = [i \in 1 .. n |-> f[i]]
  PROVE  IsList(f) /\ Len(f) = n /\ DOMAIN f = 1 .. n /\ ToSet(f) = {f[i] : i \in 1 .. n}
<1>1. DOMAIN f = 1 .. n
  BY DEF IsList
<1>2. ToSet(f) = {f[i] : i \in 1 .. n}
  BY <1>1 DEF ToSet
<1>3. f \in [1 .. n -> ToSet(f)]
  BY <1>1, <1>2
<1>4. f \in Seq(ToSet(f))
  BY <1>3
<1> QED
  BY <1>1, <1>2, <1>4 DEF IsList

LEMMA ListIs ==
  ASSUME NEW f, IsList(f)
  PROVE  /\ Len(f) \in Nat /\ DOMAIN f = 1 .. Len(f) /\ f = [i \in 1 .. Len(f) |-> f[i]]
         /\ ToSet(f) = {f[i] : i \in 1 .. Len(f)}
<1>1. Len(f) \in Nat /\ f \in [1 .. Len(f) -> ToSet(f)]
  BY DEF IsList
<1> QED
  BY <1>1 DEF ToSet

LEMMA ListOfTyped ==
  ASSUME NEW T, NEW f \in Seq(T)
  PROVE  IsList(f)
<1>1. Len(f) \in Nat /\ f = [i \in 1 .. Len(f) |-> f[i]]
  OBVIOUS
<1> QED
  BY <1>1, ListOf

LEMMA FlattenOf ==
  ASSUME NEW n \in Nat, NEW ss, ss = [i \in 1 .. n |-> ss[i]],
         \A i \in 1 .. n : IsList(ss[i])
  PROVE  /\ IsList(FlattenSeq(ss))
         /\ ToSet(FlattenSeq(ss)) = UNION {ToSet(ss[i]) : i \in 1 .. n}
<1> DEFINE T == UNION {ToSet(ss[i]) : i \in 1 .. n}
<1>1. ASSUME NEW i \in 1 .. n PROVE ss[i] \in Seq(T)
  <2>1. Len(ss[i]) \in Nat /\ ss[i] = [k \in 1 .. Len(ss[i]) |-> ss[i][k]] /\ ToSet(ss[i]) \subseteq T
    BY ListIs
  <2>2. \A k \in 1 .. Len(ss[i]) : ss[i][k] \in ToSet(ss[i])
    BY ListIs
  <2>3. ss[i] \in [1 .. Len(ss[i]) -> T]
    BY <2>1, <2>2
  <2> QED
    BY <2>1, <2>3
<1>2. DOMAIN ss = 1 .. n
  OBVIOUS
<1>3. ss \in [1 .. n -> Seq(T)]
  BY <1>1
<1>4. ss \in Seq(Seq(T))
  BY <1>3
<1> HIDE DEF T
<1>5. FlattenSeq(ss) \in Seq(T) /\ ToSet(FlattenSeq(ss)) = UNION {ToSet(ss[i]) : i \in DOMAIN ss}
  BY <1>4, FlattenIs
<1> QED
  BY <1>2, <1>5, ListOfTyped

\* y is group g of a file as it was read, with the defaults.
IsFilled(y, file, g) ==
  /\ y.id = g.id /\ y.chains = ChainsOf(file, g) /\ y.monitors = MonitorsOf(file, g)
  /\ IsList(y.accounts) /\ ToSet(y.accounts) = AccountsOf(file, g)

LEMMA AccountsAre ==
  ASSUME NEW file, FileIsTyped(file), NEW g \in ToSet(file.groups)
  PROVE  LET accounts == FlattenSeq([j \in DOMAIN g.accountSetNames |->
                                       file.accountSets[g.accountSetNames[j]]])
         IN IsList(accounts) /\ ToSet(accounts) = AccountsOf(file, g)
<1> DEFINE names == g.accountSetNames
           ss == [j \in DOMAIN names |-> file.accountSets[names[j]]]
<1>1. Len(names) \in Nat /\ DOMAIN names = 1 .. Len(names) /\ ToSet(names) = {names[i] : i \in 1 .. Len(names)}
  BY ListIs DEF FileIsTyped
<1>2. ss = [j \in 1 .. Len(names) |-> ss[j]] /\ \A j \in 1 .. Len(names) : ss[j] = file.accountSets[names[j]]
  BY <1>1
<1>3. \A j \in 1 .. Len(names) : IsList(ss[j])
  BY <1>1, <1>2 DEF FileIsTyped
<1> HIDE DEF ss
<1>4. IsList(FlattenSeq(ss)) /\ ToSet(FlattenSeq(ss)) = UNION {ToSet(ss[i]) : i \in 1 .. Len(names)}
  BY <1>1, <1>2, <1>3, FlattenOf
<1>5. UNION {ToSet(ss[i]) : i \in 1 .. Len(names)} = AccountsOf(file, g)
  <2>1. {ToSet(ss[i]) : i \in 1 .. Len(names)} = {ToSet(file.accountSets[names[i]]) : i \in 1 .. Len(names)}
    BY <1>2
  <2>2. {ToSet(file.accountSets[names[i]]) : i \in 1 .. Len(names)}
          = {ToSet(file.accountSets[set]) : set \in ToSet(names)}
    BY <1>1
  <2> QED
    BY <2>1, <2>2 DEF AccountsOf
<1> QED
  BY <1>4, <1>5 DEF ss

LEMMA FilledGroups ==
  ASSUME NEW file, FileIsTyped(file)
  PROVE  /\ IsList(GroupsWithDefaults(file))
         /\ \A y \in ToSet(GroupsWithDefaults(file)) :
              \E g \in ToSet(file.groups) : IsFilled(y, file, g)
         /\ \A g \in ToSet(file.groups) :
              \E y \in ToSet(GroupsWithDefaults(file)) : IsFilled(y, file, g)
<1> DEFINE gs == GroupsWithDefaults(file)
           n == Len(file.groups)
<1>1. n \in Nat /\ DOMAIN file.groups = 1 .. n /\ ToSet(file.groups) = {file.groups[i] : i \in 1 .. n}
  BY ListIs DEF FileIsTyped
<1>2. gs = [i \in 1 .. n |-> gs[i]]
  BY <1>1 DEF GroupsWithDefaults
<1>3. IsList(gs) /\ ToSet(gs) = {gs[i] : i \in 1 .. n}
  <2> HIDE DEF gs
  <2> QED
    BY <1>1, <1>2, ListOf
<1>4. ASSUME NEW i \in 1 .. n PROVE file.groups[i] \in ToSet(file.groups) /\ IsFilled(gs[i], file, file.groups[i])
  <2> DEFINE g == file.groups[i]
             accounts == FlattenSeq([j \in DOMAIN g.accountSetNames |->
                                       file.accountSets[g.accountSetNames[j]]])
  <2>1. /\ gs[i].id = g.id /\ gs[i].chains = ChainsOf(file, g) /\ gs[i].monitors = MonitorsOf(file, g)
        /\ gs[i].accounts = accounts
    BY <1>1 DEF GroupsWithDefaults, ChainsOf, MonitorsOf
  <2>2. g \in ToSet(file.groups)
    BY <1>1
  <2>3. IsList(accounts) /\ ToSet(accounts) = AccountsOf(file, g)
    BY <2>2, AccountsAre
  <2> QED
    BY <2>1, <2>2, <2>3 DEF IsFilled
<1> HIDE DEF gs
<1>5. \A y \in ToSet(gs) : \E g \in ToSet(file.groups) : IsFilled(y, file, g)
  BY <1>3, <1>4
<1>6. \A g \in ToSet(file.groups) : \E y \in ToSet(gs) : IsFilled(y, file, g)
  BY <1>1, <1>3, <1>4
<1> QED
  BY <1>3, <1>5, <1>6 DEF gs

\* y is what group g of a file is on a chain.
IsPlaced(y, file, g, chain) ==
  /\ y.id = g.id /\ y.chain = chain /\ y.monitors = Or(MonitorsOf(file, g), <<>>)
  /\ IsList(y.accounts)
  /\ ToSet(y.accounts) = {TransformAccount(a, chain, y.monitors) : a \in AccountsOf(file, g)}

LEMMA TransformedGroups ==
  ASSUME NEW file, FileIsTyped(file), NEW g \in ToSet(file.groups), NEW y, IsFilled(y, file, g),
         ChainsOf(file, g) # None
  PROVE  /\ IsList(TransformGroup(y))
         /\ \A z \in ToSet(TransformGroup(y)) :
              \E chain \in ToSet(ChainsOf(file, g)) : IsPlaced(z, file, g, chain)
         /\ \A chain \in ToSet(ChainsOf(file, g)) :
              \E z \in ToSet(TransformGroup(y)) : IsPlaced(z, file, g, chain)
<1> DEFINE zs == TransformGroup(y)
           chains == ChainsOf(file, g)
           watch == Or(y.monitors, <<>>)
           n == Len(chains)
<1>0. y.chains = chains /\ y.monitors = MonitorsOf(file, g) /\ y.id = g.id
  BY DEF IsFilled
<1>1. n \in Nat /\ DOMAIN chains = 1 .. n /\ ToSet(chains) = {chains[i] : i \in 1 .. n}
  BY ListIs DEF FileIsTyped
<1>2. DOMAIN zs = 1 .. n /\ zs = [i \in 1 .. n |-> zs[i]]
  BY <1>0, <1>1 DEF TransformGroup, Or
<1>3. IsList(zs) /\ ToSet(zs) = {zs[i] : i \in 1 .. n}
  <2> HIDE DEF zs
  <2> QED
    BY <1>1, <1>2, ListOf
<1>4. ASSUME NEW i \in 1 .. n PROVE chains[i] \in ToSet(chains) /\ IsPlaced(zs[i], file, g, chains[i])
  <2> DEFINE accs == [j \in DOMAIN y.accounts |-> TransformAccount(y.accounts[j], chains[i], watch)]
             m == Len(y.accounts)
  <2>1. /\ zs[i].id = g.id /\ zs[i].chain = chains[i] /\ zs[i].monitors = watch
        /\ zs[i].accounts = accs
    BY <1>0, <1>1 DEF TransformGroup, Or
  <2>2. m \in Nat /\ DOMAIN y.accounts = 1 .. m /\ ToSet(y.accounts) = {y.accounts[j] : j \in 1 .. m}
    BY ListIs DEF IsFilled
  <2>3. accs = [j \in 1 .. m |-> accs[j]]
    BY <2>2
  <2>6. \A j \in 1 .. m : accs[j] = TransformAccount(y.accounts[j], chains[i], watch)
    BY <2>2
  <2> HIDE DEF accs, m, watch
  <2>4. IsList(accs) /\ ToSet(accs) = {accs[j] : j \in 1 .. m}
    BY <2>2, <2>3, ListOf
  <2>5. ToSet(accs) = {TransformAccount(a, chains[i], watch) : a \in ToSet(y.accounts)}
    BY <2>2, <2>4, <2>6
  <2> QED
    BY <1>0, <1>1, <2>1, <2>4, <2>5 DEF IsPlaced, IsFilled, watch
<1> HIDE DEF zs
<1>5. /\ IsList(zs)
      /\ \A z \in ToSet(zs) : \E chain \in ToSet(chains) : IsPlaced(z, file, g, chain)
      /\ \A chain \in ToSet(chains) : \E z \in ToSet(zs) : IsPlaced(z, file, g, chain)
  BY <1>1, <1>3, <1>4
<1> QED
  BY <1>5 DEF zs

FilesAreTyped(files) ==
  IsList(files) /\ \A file \in ToSet(files) :
    FileIsTyped(file) /\ \A g \in ToSet(file.groups) : ChainsOf(file, g) # None

LEMMA Processed ==
  ASSUME NEW files, FilesAreTyped(files)
  PROVE  /\ IsList(ProcessConfigs(files))
         /\ \A z \in ToSet(ProcessConfigs(files)) :
              \E file \in ToSet(files) : \E g \in ToSet(file.groups) : \E chain \in ToSet(ChainsOf(file, g)) :
                IsPlaced(z, file, g, chain)
         /\ \A file \in ToSet(files) : \A g \in ToSet(file.groups) : \A chain \in ToSet(ChainsOf(file, g)) :
              \E z \in ToSet(ProcessConfigs(files)) : IsPlaced(z, file, g, chain)
<1> DEFINE n == Len(files)
           fs == [i \in DOMAIN files |-> GroupsWithDefaults(files[i])]
           groups == FlattenSeq(fs)
           k == Len(groups)
           ts == [i \in DOMAIN groups |-> TransformGroup(groups[i])]
<1>1. n \in Nat /\ DOMAIN files = 1 .. n /\ ToSet(files) = {files[i] : i \in 1 .. n}
  BY ListIs DEF FilesAreTyped
<1>2. fs = [i \in 1 .. n |-> fs[i]] /\ \A i \in 1 .. n : fs[i] = GroupsWithDefaults(files[i])
  BY <1>1
<1>3. \A i \in 1 .. n : files[i] \in ToSet(files) /\ IsList(fs[i])
  BY <1>1, <1>2, FilledGroups DEF FilesAreTyped
<1>4. IsList(groups) /\ ToSet(groups) = UNION {ToSet(fs[i]) : i \in 1 .. n}
  <2> HIDE DEF fs
  <2> QED
    BY <1>1, <1>2, <1>3, FlattenOf
<1>5. ProcessConfigs(files) = FlattenSeq(ts)
  BY DEF ProcessConfigs
<1> HIDE DEF groups
<1>6. \A y \in ToSet(groups) : \E file \in ToSet(files) : \E g \in ToSet(file.groups) : IsFilled(y, file, g)
  <2> TAKE y \in ToSet(groups)
  <2>1. PICK i \in 1 .. n : y \in ToSet(fs[i])
    BY <1>4
  <2>2. y \in ToSet(GroupsWithDefaults(files[i])) /\ files[i] \in ToSet(files) /\ FileIsTyped(files[i])
    BY <1>2, <1>3, <2>1 DEF FilesAreTyped
  <2> QED
    BY <2>2, FilledGroups
<1>7. \A file \in ToSet(files) : \A g \in ToSet(file.groups) : \E y \in ToSet(groups) : IsFilled(y, file, g)
  <2> TAKE file \in ToSet(files)
  <2> TAKE g \in ToSet(file.groups)
  <2>1. PICK i \in 1 .. n : file = files[i]
    BY <1>1
  <2>2. PICK y \in ToSet(GroupsWithDefaults(file)) : IsFilled(y, file, g)
    BY FilledGroups DEF FilesAreTyped
  <2>3. y \in ToSet(groups)
    BY <1>2, <1>4, <2>1, <2>2
  <2> QED
    BY <2>2, <2>3
<1> HIDE DEF fs
<1>8. k \in Nat /\ DOMAIN groups = 1 .. k /\ ToSet(groups) = {groups[i] : i \in 1 .. k}
  BY <1>4, ListIs
<1>9. ts = [i \in 1 .. k |-> ts[i]] /\ \A i \in 1 .. k : ts[i] = TransformGroup(groups[i])
  BY <1>8
<1>10. \A i \in 1 .. k : IsList(ts[i])
  <2> TAKE i \in 1 .. k
  <2>1. PICK file \in ToSet(files) : \E g \in ToSet(file.groups) : IsFilled(groups[i], file, g)
    BY <1>6, <1>8
  <2> QED
    BY <1>9, <2>1, TransformedGroups DEF FilesAreTyped
<1> HIDE DEF ts, k
<1>11. IsList(FlattenSeq(ts)) /\ ToSet(FlattenSeq(ts)) = UNION {ToSet(ts[i]) : i \in 1 .. k}
  BY <1>8, <1>9, <1>10, FlattenOf
<1>12. ASSUME NEW z \in ToSet(FlattenSeq(ts))
       PROVE  \E file \in ToSet(files) : \E g \in ToSet(file.groups) : \E chain \in ToSet(ChainsOf(file, g)) :
                IsPlaced(z, file, g, chain)
  <2>1. PICK i \in 1 .. k : z \in ToSet(TransformGroup(groups[i]))
    BY <1>9, <1>11
  <2>2. PICK file \in ToSet(files) : \E g \in ToSet(file.groups) : IsFilled(groups[i], file, g)
    BY <1>6, <1>8
  <2>3. PICK g \in ToSet(file.groups) : IsFilled(groups[i], file, g)
    BY <2>2
  <2>4. FileIsTyped(file) /\ ChainsOf(file, g) # None
    BY <2>3 DEF FilesAreTyped
  <2> QED
    BY <2>1, <2>3, <2>4, TransformedGroups
<1>13. ASSUME NEW file \in ToSet(files), NEW g \in ToSet(file.groups), NEW chain \in ToSet(ChainsOf(file, g))
       PROVE  \E z \in ToSet(FlattenSeq(ts)) : IsPlaced(z, file, g, chain)
  <2>1. PICK y \in ToSet(groups) : IsFilled(y, file, g)
    BY <1>7
  <2>2. PICK i \in 1 .. k : y = groups[i]
    BY <1>8
  <2>3. FileIsTyped(file) /\ ChainsOf(file, g) # None
    BY DEF FilesAreTyped
  <2>4. PICK z \in ToSet(TransformGroup(y)) : IsPlaced(z, file, g, chain)
    BY <2>1, <2>3, TransformedGroups
  <2>5. z \in ToSet(FlattenSeq(ts))
    BY <1>9, <1>11, <2>2, <2>4
  <2> QED
    BY <2>4, <2>5
<1> QED
  BY <1>5, <1>11, <1>12, <1>13

-----------------------------------------------------------------------------
(***************************************************************************)
(* The registries: who is watched is who some monitor of a group has.      *)
(***************************************************************************)
IsMonitoredOn(z, chain) == z.chain = chain /\ z.monitors # <<>>

LEMMA MonitoringGroupsAre ==
  ASSUME NEW files, FilesAreTyped(files), NEW chain
  PROVE  /\ IsList(MonitoringGroups(files, chain))
         /\ ToSet(MonitoringGroups(files, chain)) = {z \in ToSet(ProcessConfigs(files)) : IsMonitoredOn(z, chain)}
<1> DEFINE groups == ProcessConfigs(files)
           n == Len(groups)
           ss == [i \in DOMAIN groups |-> IF IsMonitoredOn(groups[i], chain) THEN <<groups[i]>> ELSE <<>>]
<1>1. n \in Nat /\ DOMAIN groups = 1 .. n /\ ToSet(groups) = {groups[i] : i \in 1 .. n}
  BY Processed, ListIs
<1>2. MonitoringGroups(files, chain) = FlattenSeq(ss)
  BY DEF MonitoringGroups, IsMonitoredOn
<1> HIDE DEF groups, n
<1>3. ss = [i \in 1 .. n |-> ss[i]]
  BY <1>1
<1>4. ASSUME NEW i \in 1 .. n
      PROVE  /\ IsList(ss[i])
             /\ ToSet(ss[i]) = IF IsMonitoredOn(groups[i], chain) THEN {groups[i]} ELSE {}
  <2>1. CASE IsMonitoredOn(groups[i], chain)
    <3>1. ss[i] = <<groups[i]>>
      BY <1>1, <2>1
    <3>2. ToSet(<<groups[i]>>) = {groups[i]}
      BY DEF ToSet
    <3>3. <<groups[i]>> \in Seq({groups[i]})
      OBVIOUS
    <3>4. IsList(<<groups[i]>>)
      BY <3>2, <3>3 DEF IsList
    <3> QED
      BY <2>1, <3>1, <3>2, <3>4
  <2>2. CASE ~IsMonitoredOn(groups[i], chain)
    <3>1. ss[i] = <<>>
      BY <1>1, <2>2
    <3>2. ToSet(<<>>) = {} /\ IsList(<<>>)
      BY DEF ToSet, IsList
    <3> QED
      BY <2>2, <3>1, <3>2
  <2> QED
    BY <2>1, <2>2
<1> HIDE DEF ss
<1>5. IsList(FlattenSeq(ss)) /\ ToSet(FlattenSeq(ss)) = UNION {ToSet(ss[i]) : i \in 1 .. n}
  BY <1>1, <1>3, <1>4, FlattenOf
<1>6. UNION {ToSet(ss[i]) : i \in 1 .. n} = {z \in ToSet(groups) : IsMonitoredOn(z, chain)}
  <2>1. ASSUME NEW i \in 1 .. n, NEW z \in ToSet(ss[i])
        PROVE  z \in ToSet(groups) /\ IsMonitoredOn(z, chain)
    BY <1>1, <1>4, <2>1
  <2>2. ASSUME NEW z \in ToSet(groups), IsMonitoredOn(z, chain)
        PROVE  \E i \in 1 .. n : z \in ToSet(ss[i])
    <3>1. PICK i \in 1 .. n : z = groups[i]
      BY <1>1
    <3>2. ToSet(ss[i]) = {z}
      BY <1>4, <2>2, <3>1
    <3> QED
      BY <3>2
  <2> QED
    BY <2>1, <2>2
<1> QED
  BY <1>2, <1>5, <1>6 DEF groups

EntryOf(g, a, m, chain) ==
  [account |-> a.address, group |-> g.id,
   settings |-> TransformDecimalBalances(MergeSettings(m, a.settings), chain),
   handlers |-> m.handlers]

\* Monitor m of a group of the files has account a on a chain.
IsWatching(files, file, g, m, a, chain) ==
  /\ file \in ToSet(files) /\ g \in ToSet(file.groups) /\ chain \in ToSet(ChainsOf(file, g))
  /\ MonitorsOf(file, g) # None /\ m \in ToSet(MonitorsOf(file, g)) /\ a \in AccountsOf(file, g)

LEMMA NamedIs ==
  ASSUME NEW watch, NamesAreDistinct(watch), NEW m \in ToSet(watch), IsList(watch)
  PROVE  MonitorNamed(watch, m.name) = m
<1>1. PICK i \in DOMAIN watch : m = watch[i]
  BY DEF ToSet
<1>2. \A j \in DOMAIN watch : watch[j].name = m.name => j = i
  BY <1>1 DEF NamesAreDistinct
<1>3. i \in Nat
  BY <1>1, ListIs
<1> DEFINE IsLast(k) == watch[k].name = m.name /\ \A j \in DOMAIN watch : watch[j].name = m.name => j <= k
<1>4. IsLast(i) /\ \A k \in DOMAIN watch : IsLast(k) => k = i
  BY <1>1, <1>2, <1>3
<1>5. MonitorNamed(watch, m.name) = watch[CHOOSE k \in DOMAIN watch : IsLast(k)]
  BY DEF MonitorNamed
<1> HIDE DEF IsLast
<1>6. (CHOOSE k \in DOMAIN watch : IsLast(k)) = i
  BY <1>4
<1> QED
  BY <1>1, <1>5, <1>6

LookupsOf(z, type) == IF {i \in DOMAIN z.monitors : z.monitors[i].name = type} = {} THEN <<>>
                      ELSE BuildAccountLookup(z, type)

LEMMA LookupsAre ==
  ASSUME NEW file, FileIsTyped(file), NEW g \in ToSet(file.groups), NEW chain, NEW z,
         IsPlaced(z, file, g, chain), z.monitors # <<>>, NamesAreDistinct(z.monitors), NEW type
  PROVE  /\ MonitorsOf(file, g) # None
         /\ IsList(LookupsOf(z, type))
         /\ ToSet(LookupsOf(z, type)) =
              UNION {{EntryOf(g, a, m, chain) : a \in AccountsOf(file, g)} :
                       m \in {m \in ToSet(MonitorsOf(file, g)) : m.name = type}}
<1> DEFINE watch == z.monitors
           n == Len(z.accounts)
           ls == BuildAccountLookup(z, type)
<1>1. MonitorsOf(file, g) # None /\ watch = MonitorsOf(file, g) /\ IsList(watch)
  BY DEF IsPlaced, Or, FileIsTyped
<1>2. CASE {i \in DOMAIN watch : watch[i].name = type} = {}
  <2>1. {m \in ToSet(MonitorsOf(file, g)) : m.name = type} = {}
    BY <1>1, <1>2 DEF ToSet
  <2>2. LookupsOf(z, type) = <<>>
    BY <1>2 DEF LookupsOf
  <2>3. ToSet(<<>>) = {} /\ IsList(<<>>)
    BY DEF ToSet, IsList
  <2> QED
    BY <1>1, <2>1, <2>2, <2>3
<1>3. ASSUME NEW k \in DOMAIN watch, watch[k].name = type
      PROVE  /\ IsList(LookupsOf(z, type))
             /\ ToSet(LookupsOf(z, type)) =
                  UNION {{EntryOf(g, a, m, chain) : a \in AccountsOf(file, g)} :
                           m \in {m \in ToSet(MonitorsOf(file, g)) : m.name = type}}
  <2> DEFINE m == watch[k]
  <2>1. m \in ToSet(watch)
    BY DEF ToSet
  <2>2. MonitorNamed(watch, type) = m
    BY <1>1, <1>3, <2>1, NamedIs
  <2>3. {x \in ToSet(watch) : x.name = type} = {m}
    BY <1>3, <2>1 DEF NamesAreDistinct, ToSet
  <2>4. LookupsOf(z, type) = ls
    BY <1>3 DEF LookupsOf
  <2>5. n \in Nat /\ DOMAIN z.accounts = 1 .. n /\ ToSet(z.accounts) = {z.accounts[i] : i \in 1 .. n}
    BY ListIs DEF IsPlaced
  <2>6. ls = [i \in 1 .. n |-> ls[i]]
    BY <2>5 DEF BuildAccountLookup
  <2>7. \A i \in 1 .. n : ls[i] = [account |-> z.accounts[i].ss58, group |-> z.id,
                                   settings |-> z.accounts[i].monitored[type].settings,
                                   handlers |-> z.accounts[i].monitored[type].handlers]
    BY <2>5 DEF BuildAccountLookup
  <2> HIDE DEF ls, n, m
  <2>8. IsList(ls) /\ ToSet(ls) = {ls[i] : i \in 1 .. n}
    BY <2>5, <2>6, ListOf
  <2>9. ASSUME NEW a
        PROVE  LET b == TransformAccount(a, chain, watch)
               IN [account |-> b.ss58, group |-> z.id, settings |-> b.monitored[type].settings,
                   handlers |-> b.monitored[type].handlers] = EntryOf(g, a, m, chain)
    <3>1. type \in {x.name : x \in ToSet(watch)}
      BY <1>3, <2>1 DEF m
    <3>2. TransformAccount(a, chain, watch).monitored[type] = BuildSettings(m, a.settings, chain)
      BY <2>2, <3>1 DEF TransformAccount
    <3>3. TransformAccount(a, chain, watch).ss58 = a.address /\ z.id = g.id
      BY DEF TransformAccount, IsPlaced
    <3> QED
      BY <3>2, <3>3 DEF BuildSettings, EntryOf
  <2>10. ToSet(z.accounts) = {TransformAccount(a, chain, watch) : a \in AccountsOf(file, g)}
    BY DEF IsPlaced
  <2>11. ToSet(ls) = {EntryOf(g, a, m, chain) : a \in AccountsOf(file, g)}
    <3>1. ASSUME NEW i \in 1 .. n PROVE \E a \in AccountsOf(file, g) : ls[i] = EntryOf(g, a, m, chain)
      <4>1. PICK a \in AccountsOf(file, g) : z.accounts[i] = TransformAccount(a, chain, watch)
        BY <2>5, <2>10
      <4> QED
        BY <2>7, <2>9, <4>1
    <3>2. ASSUME NEW a \in AccountsOf(file, g) PROVE \E i \in 1 .. n : ls[i] = EntryOf(g, a, m, chain)
      <4>1. PICK i \in 1 .. n : z.accounts[i] = TransformAccount(a, chain, watch)
        BY <2>5, <2>10
      <4> QED
        BY <2>7, <2>9, <4>1
    <3> QED
      BY <2>8, <3>1, <3>2
  <2> DEFINE named == {x \in ToSet(MonitorsOf(file, g)) : x.name = type}
  <2>12. named = {m}
    BY <1>1, <2>3
  <2> HIDE DEF named
  <2>13. UNION {{EntryOf(g, a, x, chain) : a \in AccountsOf(file, g)} : x \in named}
           = {EntryOf(g, a, m, chain) : a \in AccountsOf(file, g)}
    BY <2>12
  <2> QED
    BY <2>4, <2>8, <2>11, <2>13 DEF named
<1> QED
  BY <1>1, <1>2, <1>3

\* c is how a registry has an account.
IsEntry(files, chain, type, c) ==
  \E file, g, m, a : /\ IsWatching(files, file, g, m, a, chain) /\ m.name = type
                     /\ c = EntryOf(g, a, m, chain)

LEMMA RegistryIs ==
  ASSUME NEW files, FilesAreTyped(files), NEW chain, NEW type, NEW c
  PROVE  /\ IsList(Registry(MonitoringGroups(files, chain), type).accounts)
         /\ c \in ToSet(Registry(MonitoringGroups(files, chain), type).accounts) <=> IsEntry(files, chain, type, c)
<1> DEFINE groups == MonitoringGroups(files, chain)
           n == Len(groups)
           ss == [i \in DOMAIN groups |-> LookupsOf(groups[i], type)]
<1>1. n \in Nat /\ DOMAIN groups = 1 .. n /\ ToSet(groups) = {groups[i] : i \in 1 .. n}
  BY MonitoringGroupsAre, ListIs
<1>2. ToSet(groups) = {z \in ToSet(ProcessConfigs(files)) : IsMonitoredOn(z, chain)}
  BY MonitoringGroupsAre
<1>3. ASSUME NEW z \in ToSet(groups)
      PROVE  \E file \in ToSet(files) : \E g \in ToSet(file.groups) :
               /\ IsPlaced(z, file, g, chain) /\ chain \in ToSet(ChainsOf(file, g))
               /\ z.monitors # <<>> /\ z.monitors = MonitorsOf(file, g) /\ NamesAreDistinct(z.monitors)
  <2>1. PICK file \in ToSet(files) : \E g \in ToSet(file.groups) : \E ch \in ToSet(ChainsOf(file, g)) :
          IsPlaced(z, file, g, ch)
    BY <1>2, Processed
  <2>2. PICK g \in ToSet(file.groups) : \E ch \in ToSet(ChainsOf(file, g)) : IsPlaced(z, file, g, ch)
    BY <2>1
  <2>3. IsPlaced(z, file, g, chain) /\ chain \in ToSet(ChainsOf(file, g)) /\ z.monitors # <<>>
    BY <1>2, <2>2 DEF IsPlaced, IsMonitoredOn
  <2>4. z.monitors = MonitorsOf(file, g) /\ MonitorsOf(file, g) # None
    BY <2>3 DEF IsPlaced, Or
  <2>5. NamesAreDistinct(z.monitors)
    BY <2>4 DEF FilesAreTyped, FileIsTyped
  <2> QED
    BY <2>3, <2>4, <2>5
<1>4. ASSUME NEW file \in ToSet(files), NEW g \in ToSet(file.groups), chain \in ToSet(ChainsOf(file, g)),
             MonitorsOf(file, g) \notin {None, <<>>}
      PROVE  \E z \in ToSet(groups) : IsPlaced(z, file, g, chain) /\ z.monitors # <<>> /\ z.monitors = MonitorsOf(file, g)
  <2>1. PICK z \in ToSet(ProcessConfigs(files)) : IsPlaced(z, file, g, chain)
    BY <1>4, Processed
  <2>2. z.monitors = MonitorsOf(file, g) /\ IsMonitoredOn(z, chain)
    BY <1>4, <2>1 DEF IsPlaced, IsMonitoredOn, Or
  <2> QED
    BY <1>2, <1>4, <2>1, <2>2
<1>5. Registry(groups, type).accounts = FlattenSeq(ss)
  BY DEF Registry, LookupsOf
<1> HIDE DEF groups
<1>6. ss = [i \in 1 .. n |-> ss[i]] /\ \A i \in 1 .. n : ss[i] = LookupsOf(groups[i], type)
  BY <1>1
<1> HIDE DEF n, ss
<1>7. ASSUME NEW i \in 1 .. n PROVE IsList(ss[i])
  <2>1. PICK file \in ToSet(files) : \E g \in ToSet(file.groups) :
               /\ IsPlaced(groups[i], file, g, chain) /\ chain \in ToSet(ChainsOf(file, g))
               /\ groups[i].monitors # <<>> /\ groups[i].monitors = MonitorsOf(file, g) /\ NamesAreDistinct(groups[i].monitors)
    BY <1>1, <1>3
  <2>2. FileIsTyped(file)
    BY DEF FilesAreTyped
  <2> QED
    BY <1>6, <2>1, <2>2, LookupsAre
<1>8. IsList(FlattenSeq(ss)) /\ ToSet(FlattenSeq(ss)) = UNION {ToSet(ss[i]) : i \in 1 .. n}
  BY <1>1, <1>6, <1>7, FlattenOf
<1>9. ASSUME c \in ToSet(FlattenSeq(ss))
      PROVE  \E file, g, m, a : /\ IsWatching(files, file, g, m, a, chain) /\ m.name = type
                                /\ c = EntryOf(g, a, m, chain)
  <2>1. PICK i \in 1 .. n : c \in ToSet(LookupsOf(groups[i], type))
    BY <1>6, <1>8, <1>9
  <2>2. PICK file \in ToSet(files) : \E g \in ToSet(file.groups) :
               /\ IsPlaced(groups[i], file, g, chain) /\ chain \in ToSet(ChainsOf(file, g))
               /\ groups[i].monitors # <<>> /\ groups[i].monitors = MonitorsOf(file, g) /\ NamesAreDistinct(groups[i].monitors)
    BY <1>1, <1>3
  <2>3. PICK g \in ToSet(file.groups) :
               /\ IsPlaced(groups[i], file, g, chain) /\ chain \in ToSet(ChainsOf(file, g))
               /\ groups[i].monitors # <<>> /\ groups[i].monitors = MonitorsOf(file, g) /\ NamesAreDistinct(groups[i].monitors)
    BY <2>2
  <2>4. FileIsTyped(file)
    BY DEF FilesAreTyped
  <2>5. /\ MonitorsOf(file, g) # None
        /\ ToSet(LookupsOf(groups[i], type)) =
              UNION {{EntryOf(g, a, m, chain) : a \in AccountsOf(file, g)} :
                       m \in {m \in ToSet(MonitorsOf(file, g)) : m.name = type}}
    BY <2>3, <2>4, LookupsAre
  <2>6. PICK m \in ToSet(MonitorsOf(file, g)) : m.name = type /\ \E a \in AccountsOf(file, g) : c = EntryOf(g, a, m, chain)
    BY <2>1, <2>5
  <2> QED
    BY <2>3, <2>5, <2>6 DEF IsWatching
<1>10. ASSUME NEW file, NEW g, NEW m, NEW a, IsWatching(files, file, g, m, a, chain), m.name = type,
              c = EntryOf(g, a, m, chain)
       PROVE  c \in ToSet(FlattenSeq(ss))
  <2>1. /\ file \in ToSet(files) /\ g \in ToSet(file.groups) /\ chain \in ToSet(ChainsOf(file, g))
        /\ MonitorsOf(file, g) # None /\ m \in ToSet(MonitorsOf(file, g)) /\ a \in AccountsOf(file, g)
    BY <1>10 DEF IsWatching
  <2>2. MonitorsOf(file, g) # <<>>
    BY <2>1 DEF ToSet
  <2>3. PICK z \in ToSet(groups) : IsPlaced(z, file, g, chain) /\ z.monitors # <<>> /\ z.monitors = MonitorsOf(file, g)
    BY <1>4, <2>1, <2>2
  <2>4. NamesAreDistinct(z.monitors) /\ FileIsTyped(file)
    BY <2>1, <2>3 DEF FileIsTyped, FilesAreTyped
  <2>5. c \in ToSet(LookupsOf(z, type))
    <3>1. ToSet(LookupsOf(z, type)) =
              UNION {{EntryOf(g, b, k, chain) : b \in AccountsOf(file, g)} :
                       k \in {k \in ToSet(MonitorsOf(file, g)) : k.name = type}}
      BY <2>1, <2>3, <2>4, LookupsAre
    <3> QED
      BY <1>10, <2>1, <3>1
  <2>6. PICK i \in 1 .. n : z = groups[i]
    BY <1>1
  <2> QED
    BY <1>6, <1>8, <2>5, <2>6
<1>11. c \in ToSet(FlattenSeq(ss)) <=> IsEntry(files, chain, type, c)
  BY <1>9, <1>10 DEF IsEntry
<1> QED
  BY <1>5, <1>8, <1>11 DEF groups

LEMMA WatchedNames ==
  ASSUME NEW files, FilesAreTyped(files), NEW chain, NEW file, NEW g, NEW m, NEW a,
         IsWatching(files, file, g, m, a, chain)
  PROVE  m.name \in UNION {{x.name : x \in ToSet(z.monitors)} : z \in ToSet(MonitoringGroups(files, chain))}
<1>1. /\ file \in ToSet(files) /\ g \in ToSet(file.groups) /\ chain \in ToSet(ChainsOf(file, g))
      /\ MonitorsOf(file, g) # None /\ m \in ToSet(MonitorsOf(file, g))
  BY DEF IsWatching
<1>2. PICK z \in ToSet(ProcessConfigs(files)) : IsPlaced(z, file, g, chain)
  BY <1>1, Processed
<1>3. z.monitors = MonitorsOf(file, g) /\ z.monitors # <<>> /\ z.chain = chain
  BY <1>1, <1>2 DEF IsPlaced, Or, ToSet
<1>4. z \in ToSet(MonitoringGroups(files, chain))
  BY <1>2, <1>3, MonitoringGroupsAre DEF IsMonitoredOn
<1> QED
  BY <1>1, <1>3, <1>4

-----------------------------------------------------------------------------
(***************************************************************************)
(* What is watched is what is wished.                                      *)
(***************************************************************************)
FilesOf(w) == Worlds[w].files
ChainOf(w) == Worlds[w].chain

LEMMA WorldFiles ==
  ASSUME WorldsAreTyped, NEW w \in DOMAIN Worlds
  PROVE  /\ FilesAreTyped(FilesOf(w))
         /\ \A file, g, m, a, chain :
              IsWatching(FilesOf(w), file, g, m, a, chain) =>
                m.name \in DOMAIN MonitorHandlers /\ m.handlers # {} /\ m.handlers \subseteq MonitorHandlers[m.name]
<1>1. ASSUME NEW file \in ToSet(FilesOf(w)), NEW g \in ToSet(file.groups)
      PROVE  GroupIsValid(g, file.defaults)
  BY WorldsAssumption DEF ConfigsAreRejected, ConfigIsValid, FilesOf
<1>2. ASSUME NEW file \in ToSet(FilesOf(w)), NEW g \in ToSet(file.groups)
      PROVE  ChainsOf(file, g) # None
  BY <1>1 DEF GroupIsValid, ChainsOf
<1>3. FilesAreTyped(FilesOf(w))
  BY <1>2 DEF FilesAreTyped, WorldsAreTyped, WorldIsTyped, FilesOf
<1>4. ASSUME NEW file, NEW g, NEW m, NEW a, NEW chain, IsWatching(FilesOf(w), file, g, m, a, chain)
      PROVE  m.name \in DOMAIN MonitorHandlers /\ m.handlers # {} /\ m.handlers \subseteq MonitorHandlers[m.name]
  <2>1. /\ file \in ToSet(FilesOf(w)) /\ g \in ToSet(file.groups)
        /\ MonitorsOf(file, g) # None /\ m \in ToSet(MonitorsOf(file, g))
    BY <1>4 DEF IsWatching
  <2>2. MonitorsOf(file, g) # <<>>
    BY <2>1 DEF ToSet
  <2>3. MonitorIsValid(m, ChainsOf(file, g))
    BY <1>1, <2>1, <2>2 DEF GroupIsValid, ChainsOf, MonitorsOf
  <2> QED
    BY <2>3 DEF MonitorIsValid
<1> QED
  BY <1>3, <1>4

\* c is how the registry of a monitor has what wish x asks for.
IsEntryFor(c, x, type, chain) ==
  /\ c.account = x.account /\ c.group = x.group
  /\ c.settings = TransformDecimalBalances(Over(Restricted(x.own, MonitorTypeKeys[type]), x.shared), chain)

LEMMA WishIs ==
  ASSUME NEW w, NEW x
  PROVE  x \in WishesIn(w)
           <=> \E file, g, m, a, h :
                 /\ IsWatching(FilesOf(w), file, g, m, a, ChainOf(w)) /\ ChainOf(w) \in MonitorChains[m.name]
                 /\ h \in m.handlers
                 /\ x = [group |-> g.id, account |-> a.address, handler |-> h, own |-> a.settings,
                         shared |-> m.settings]
<1> DEFINE chain == ChainOf(w)
           Wish(g, m, a, h) == [group |-> g.id, account |-> a.address, handler |-> h, own |-> a.settings,
                                shared |-> m.settings]
<1>1. WishesIn(w) = UNION {UNION {WishesOf(chain, file, g) : g \in ToSet(file.groups)} : file \in ToSet(FilesOf(w))}
  BY DEF WishesIn, FilesOf, ChainOf
<1>2. x \in WishesIn(w) <=> \E file \in ToSet(FilesOf(w)) : \E g \in ToSet(file.groups) : x \in WishesOf(chain, file, g)
  BY <1>1
<1>3. ASSUME NEW file, NEW g
      PROVE  x \in WishesOf(chain, file, g)
               <=> /\ chain \in ToSet(ChainsOf(file, g)) /\ MonitorsOf(file, g) # None
                   /\ \E m \in ToSet(MonitorsOf(file, g)), a \in AccountsOf(file, g) :
                        \E h \in m.handlers : chain \in MonitorChains[m.name] /\ x = Wish(g, m, a, h)
  <2>1. CASE chain \notin ToSet(ChainsOf(file, g)) \/ MonitorsOf(file, g) = None
    BY <2>1 DEF WishesOf
  <2>2. CASE ~(chain \notin ToSet(ChainsOf(file, g)) \/ MonitorsOf(file, g) = None)
    <3>1. WishesOf(chain, file, g) =
            UNION {{Wish(g, m, a, h) : a \in AccountsOf(file, g), h \in m.handlers} :
                     m \in {m \in ToSet(MonitorsOf(file, g)) : chain \in MonitorChains[m.name]}}
      BY <2>2 DEF WishesOf
    <3> HIDE DEF Wish
    <3> QED
      BY <2>2, <3>1
  <2> QED
    BY <2>1, <2>2
<1> HIDE DEF Wish
<1>4. x \in WishesIn(w) <=>
        \E file, g, m, a, h : /\ IsWatching(FilesOf(w), file, g, m, a, chain) /\ chain \in MonitorChains[m.name]
                              /\ h \in m.handlers /\ x = Wish(g, m, a, h)
  BY <1>2, <1>3 DEF IsWatching
<1> QED
  BY <1>4 DEF Wish

\* A monitor watches for what is wished of it.
LEMMA WishIsWatched ==
  ASSUME WorldsAreTyped, NEW w \in DOMAIN Worlds, NEW x \in WishesIn(w)
  PROVE  \E type \in DOMAIN InitializeMonitors(w) :
           /\ type \in DOMAIN MonitorHandlers /\ x.handler \in MonitorHandlers[type]
           /\ \E c \in Watched(InitializeMonitors(w)[type], x.handler) : IsEntryFor(c, x, type, ChainOf(w))
<1> DEFINE chain == ChainOf(w)
           groups == MonitoringGroups(FilesOf(w), chain)
           named == UNION {{m.name : m \in ToSet(z.monitors)} : z \in ToSet(groups)}
<1>1. PICK file, g, m, a, h :
        /\ IsWatching(FilesOf(w), file, g, m, a, chain) /\ chain \in MonitorChains[m.name]
        /\ h \in m.handlers
        /\ x = [group |-> g.id, account |-> a.address, handler |-> h, own |-> a.settings, shared |-> m.settings]
  BY WishIs
<1>2. FilesAreTyped(FilesOf(w)) /\ m.name \in DOMAIN MonitorHandlers /\ m.handlers \subseteq MonitorHandlers[m.name]
  BY <1>1, WorldFiles
<1>3. m.name \in named
  BY <1>1, <1>2, WatchedNames
<1>4. m.name \in DOMAIN InitializeMonitors(w) /\ InitializeMonitors(w)[m.name] = Registry(groups, m.name)
  BY <1>1, <1>3 DEF InitializeMonitors, FilesOf, ChainOf
<1>5. EntryOf(g, a, m, chain) \in ToSet(Registry(groups, m.name).accounts)
  BY <1>1, <1>2, RegistryIs DEF IsEntry
<1>6. EntryOf(g, a, m, chain) \in Watched(InitializeMonitors(w)[m.name], x.handler)
  BY <1>1, <1>4, <1>5 DEF Watched, EntryOf
<1>7. IsEntryFor(EntryOf(g, a, m, chain), x, m.name, chain)
  BY <1>1 DEF IsEntryFor, EntryOf, MergeSettings
<1> QED
  BY <1>1, <1>2, <1>4, <1>6, <1>7

\* And for nothing else.
LEMMA WatchedIsWished ==
  ASSUME WorldsAreTyped, NEW w \in DOMAIN Worlds, NEW type \in DOMAIN InitializeMonitors(w), NEW h,
         NEW c \in Watched(InitializeMonitors(w)[type], h)
  PROVE  /\ type \in DOMAIN MonitorHandlers /\ h \in MonitorHandlers[type]
         /\ \E x \in WishesIn(w) : x.handler = h /\ IsEntryFor(c, x, type, ChainOf(w))
<1> DEFINE chain == ChainOf(w)
           groups == MonitoringGroups(FilesOf(w), chain)
<1>1. chain \in MonitorChains[type] /\ InitializeMonitors(w)[type] = Registry(groups, type)
  BY DEF InitializeMonitors, FilesOf, ChainOf
<1>2. c \in ToSet(Registry(groups, type).accounts) /\ h \in c.handlers
  BY <1>1 DEF Watched
<1>3. FilesAreTyped(FilesOf(w))
  BY WorldFiles
<1>9. IsEntry(FilesOf(w), chain, type, c)
  BY <1>2, <1>3, RegistryIs
<1>4. PICK file, g, m, a : IsWatching(FilesOf(w), file, g, m, a, chain) /\ m.name = type /\ c = EntryOf(g, a, m, chain)
  BY <1>9 DEF IsEntry
<1>5. type \in DOMAIN MonitorHandlers /\ m.handlers \subseteq MonitorHandlers[type]
  BY <1>4, WorldFiles
<1>6. h \in m.handlers
  BY <1>2, <1>4 DEF EntryOf
<1> DEFINE x == [group |-> g.id, account |-> a.address, handler |-> h, own |-> a.settings, shared |-> m.settings]
<1>7. x \in WishesIn(w)
  BY <1>1, <1>4, <1>6, WishIs
<1>8. x.handler = h /\ IsEntryFor(c, x, type, chain)
  BY <1>4 DEF IsEntryFor, EntryOf, MergeSettings
<1> QED
  BY <1>5, <1>6, <1>7, <1>8

\* Whoever is in a registry is there for some handler.
LEMMA EntryIsWished ==
  ASSUME WorldsAreTyped, NEW w \in DOMAIN Worlds, NEW type \in DOMAIN InitializeMonitors(w),
         NEW c \in ToSet(InitializeMonitors(w)[type].accounts)
  PROVE  /\ type \in DOMAIN MonitorHandlers
         /\ \E x \in WishesIn(w) : x.handler \in MonitorHandlers[type] /\ x.account = c.account
<1> DEFINE chain == ChainOf(w)
           groups == MonitoringGroups(FilesOf(w), chain)
<1>1. InitializeMonitors(w)[type] = Registry(groups, type)
  BY DEF InitializeMonitors, FilesOf, ChainOf
<1>2. IsEntry(FilesOf(w), chain, type, c)
  BY <1>1, WorldFiles, RegistryIs
<1>3. PICK file, g, m, a : IsWatching(FilesOf(w), file, g, m, a, chain) /\ m.name = type /\ c = EntryOf(g, a, m, chain)
  BY <1>2 DEF IsEntry
<1>4. PICK h \in m.handlers : TRUE
  BY <1>3, WorldFiles
<1>5. c \in Watched(InitializeMonitors(w)[type], h)
  BY <1>3, <1>4 DEF Watched, EntryOf
<1> QED
  BY <1>5, WatchedIsWished DEF IsEntryFor

LEMMA RegistryIsList ==
  ASSUME WorldsAreTyped, NEW w \in DOMAIN Worlds, NEW type \in DOMAIN InitializeMonitors(w)
  PROVE  IsList(InitializeMonitors(w)[type].accounts)
  BY WorldFiles, RegistryIs DEF InitializeMonitors, FilesOf, ChainOf

-----------------------------------------------------------------------------
(***************************************************************************)
(* The settings: the account's over the monitor's, amounts in atoms.       *)
(***************************************************************************)
LEMMA Times ==
  ASSUME NEW n \in Int, NEW m \in Int, NEW p \in Nat \ {0}
  PROVE  n * p < m * p <=> n < m
<1>1. (m - n) * p = m * p - n * p
  OBVIOUS
<1>2. ASSUME NEW k \in Int PROVE k * p > 0 <=> k > 0
  <2>1. CASE k > 0
    BY <2>1
  <2>2. CASE k <= 0
    BY <2>2
  <2> QED
    BY <2>1, <2>2
<1>3. m - n \in Int /\ m * p \in Int /\ n * p \in Int
  OBVIOUS
<1>4. (m - n) * p > 0 <=> m - n > 0
  BY <1>2, <1>3
<1> QED
  BY <1>1, <1>3, <1>4

\* An amount in the token's atoms bounds what the amount itself does.
LEMMA Atomized ==
  ASSUME NEW amount, NEW decimals, AmountFits(amount, decimals), NEW n \in Nat
  PROVE  /\ AtomizeBalance(amount, decimals) \in Int
         /\ n < AtomizeBalance(amount, decimals) <=> IsBelowDecimal(n, amount, decimals)
<1> DEFINE u == amount.units
           p == TenTo[amount.places]
           q == TenTo[decimals - amount.places]
<1>1. u \in Int /\ amount.places \in Nat /\ decimals - amount.places \in Nat
  BY DEF AmountFits
<1>2. p \in Nat \ {0} /\ q \in Nat \ {0}
  BY <1>1, TenToIs
<1>3. TenTo[decimals] = q * p
  <2>1. (decimals - amount.places) + amount.places = decimals
    BY <1>1 DEF AmountFits
  <2> QED
    BY <1>1, <2>1, TenToAdds
<1>4. AtomizeBalance(amount, decimals) = IF u < 0 THEN -((-u) * q) ELSE u * q
  BY DEF AtomizeBalance, AmountFits
<1>5. IsBelowDecimal(n, amount, decimals) <=> n * p < u * (q * p)
  BY <1>3 DEF IsBelowDecimal
<1> HIDE DEF u, p, q
<1>6. \A x \in Int, y \in Nat : -((-x) * y) = x * y
  OBVIOUS
<1>7. AtomizeBalance(amount, decimals) = u * q /\ u * q \in Int
  BY <1>1, <1>2, <1>4, <1>6
<1>8. u * (q * p) = (u * q) * p
  <2>1. \A x \in Int, y, z \in Nat : x * (y * z) = (x * y) * z
    OBVIOUS
  <2> QED
    BY <1>1, <1>2, <2>1
<1>9. n * p < (u * q) * p <=> n < u * q
  BY <1>2, <1>7, Times
<1> QED
  BY <1>5, <1>7, <1>8, <1>9

IsWorded(x, chain) == SettingsFit(x.own, chain) /\ SettingsFit(x.shared, chain)

LEMMA SettingsMerge ==
  ASSUME NEW c, NEW x, NEW type, NEW chain, IsEntryFor(c, x, type, chain), IsWorded(x, chain),
         NEW key \in MonitorTypeKeys[type]
  PROVE  LET merged == Over(Restricted(x.own, MonitorTypeKeys[type]), x.shared)
         IN /\ c.settings = TransformDecimalBalances(merged, chain) /\ DOMAIN c.settings = DOMAIN merged
            /\ IF key \in DOMAIN merged
               THEN /\ merged[key] = Wanted(x, key) /\ Wanted(x, key) # None
                    /\ \/ key \in DOMAIN x.own /\ Wanted(x, key) = x.own[key]
                       \/ key \in DOMAIN x.shared /\ Wanted(x, key) = x.shared[key]
               ELSE Wanted(x, key) = None
<1> DEFINE merged == Over(Restricted(x.own, MonitorTypeKeys[type]), x.shared)
<1>1. c.settings = TransformDecimalBalances(merged, chain) /\ DOMAIN c.settings = DOMAIN merged
  BY DEF IsEntryFor, TransformDecimalBalances
<1>2. DOMAIN Restricted(x.own, MonitorTypeKeys[type]) = DOMAIN x.own \intersect MonitorTypeKeys[type]
  BY DEF Restricted
<1>3. DOMAIN merged = (DOMAIN x.own \intersect MonitorTypeKeys[type]) \union DOMAIN x.shared
  BY <1>2 DEF Over
<1>4. CASE key \in DOMAIN x.own
  <2>1. merged[key] = x.own[key]
    BY <1>2, <1>4 DEF Over, Restricted
  <2>2. x.own[key] # None /\ Wanted(x, key) = x.own[key]
    BY <1>4 DEF IsWorded, SettingsFit, Wanted, Or, Lookup
  <2> HIDE DEF merged
  <2>3. key \in DOMAIN merged
    BY <1>3, <1>4
  <2> QED
    BY <1>1, <1>4, <2>1, <2>2, <2>3 DEF merged
<1>5. CASE key \notin DOMAIN x.own /\ key \in DOMAIN x.shared
  <2>1. merged[key] = x.shared[key]
    BY <1>2, <1>5 DEF Over
  <2>2. x.shared[key] # None /\ Wanted(x, key) = x.shared[key]
    BY <1>5 DEF IsWorded, SettingsFit, Wanted, Or, Lookup
  <2> HIDE DEF merged
  <2>3. key \in DOMAIN merged
    BY <1>3, <1>5
  <2> QED
    BY <1>1, <1>5, <2>1, <2>2, <2>3 DEF merged
<1>6. CASE key \notin DOMAIN x.own /\ key \notin DOMAIN x.shared
  <2>1. Wanted(x, key) = None
    BY <1>6 DEF Wanted, Or, Lookup
  <2> HIDE DEF merged
  <2>2. key \notin DOMAIN merged
    BY <1>3, <1>6
  <2> QED
    BY <1>1, <2>1, <2>2 DEF merged
<1> QED
  BY <1>4, <1>5, <1>6

Amounts == {"selfStake", "threshold"}

LEMMA SettingIs ==
  ASSUME NEW c, NEW x, NEW type, NEW chain, IsEntryFor(c, x, type, chain), IsWorded(x, chain),
         NEW key \in MonitorTypeKeys[type], key \notin Amounts, key # "tokenThresholds"
  PROVE  Setting(c, key) = Wanted(x, key)
<1> DEFINE merged == Over(Restricted(x.own, MonitorTypeKeys[type]), x.shared)
<1>1. /\ c.settings = TransformDecimalBalances(merged, chain) /\ DOMAIN c.settings = DOMAIN merged
      /\ IF key \in DOMAIN merged THEN merged[key] = Wanted(x, key) ELSE Wanted(x, key) = None
  BY SettingsMerge
<1> HIDE DEF merged
<1>2. key \in DOMAIN merged => c.settings[key] = merged[key]
  BY <1>1 DEF TransformDecimalBalances, Amounts
<1> QED
  BY <1>1, <1>2 DEF Setting, Lookup

LEMMA AmountIs ==
  ASSUME NEW c, NEW x, NEW type, NEW chain, IsEntryFor(c, x, type, chain), IsWorded(x, chain),
         NEW key \in MonitorTypeKeys[type], key \in Amounts
  PROVE  IF Wanted(x, key) = None THEN Setting(c, key) = None
         ELSE /\ Setting(c, key) = AtomizeBalance(Wanted(x, key), Decimals[chain])
              /\ AmountFits(Wanted(x, key), Decimals[chain])
<1> DEFINE merged == Over(Restricted(x.own, MonitorTypeKeys[type]), x.shared)
<1>1. /\ c.settings = TransformDecimalBalances(merged, chain) /\ DOMAIN c.settings = DOMAIN merged
      /\ IF key \in DOMAIN merged
         THEN /\ merged[key] = Wanted(x, key) /\ Wanted(x, key) # None
              /\ \/ key \in DOMAIN x.own /\ Wanted(x, key) = x.own[key]
                 \/ key \in DOMAIN x.shared /\ Wanted(x, key) = x.shared[key]
         ELSE Wanted(x, key) = None
  BY SettingsMerge
<1> HIDE DEF merged
<1>2. key \in DOMAIN merged => c.settings[key] = AtomizeBalance(merged[key], Decimals[chain])
  BY <1>1 DEF TransformDecimalBalances, Amounts
<1>3. key \in DOMAIN x.own => AmountFits(x.own[key], Decimals[chain])
  BY DEF IsWorded, SettingsFit, Amounts
<1>4. key \in DOMAIN x.shared => AmountFits(x.shared[key], Decimals[chain])
  BY DEF IsWorded, SettingsFit, Amounts
<1> QED
  BY <1>1, <1>2, <1>3, <1>4 DEF Setting, Lookup

LEMMA ThresholdsAre ==
  ASSUME NEW c, NEW x, NEW type, NEW chain, IsEntryFor(c, x, type, chain), IsWorded(x, chain),
         "tokenThresholds" \in MonitorTypeKeys[type]
  PROVE  LET wanted == Wanted(x, "tokenThresholds")
         IN IF wanted = None THEN ThresholdsOf(c) = <<>>
            ELSE /\ ThresholdsOf(c) = [t \in DOMAIN wanted |-> AtomizeBalance(wanted[t], Decimals[t])]
                 /\ \A t \in DOMAIN wanted : AmountFits(wanted[t], Decimals[t])
<1> DEFINE merged == Over(Restricted(x.own, MonitorTypeKeys[type]), x.shared)
           key == "tokenThresholds"
<1>1. /\ c.settings = TransformDecimalBalances(merged, chain) /\ DOMAIN c.settings = DOMAIN merged
      /\ IF key \in DOMAIN merged
         THEN /\ merged[key] = Wanted(x, key) /\ Wanted(x, key) # None
              /\ \/ key \in DOMAIN x.own /\ Wanted(x, key) = x.own[key]
                 \/ key \in DOMAIN x.shared /\ Wanted(x, key) = x.shared[key]
         ELSE Wanted(x, key) = None
  BY SettingsMerge
<1> HIDE DEF merged
<1>2. key \in DOMAIN merged =>
        c.settings[key] = [t \in DOMAIN merged[key] |-> AtomizeBalance(merged[key][t], Decimals[t])]
  BY <1>1 DEF TransformDecimalBalances
<1>3. key \in DOMAIN x.own => \A t \in DOMAIN x.own[key] : AmountFits(x.own[key][t], Decimals[t])
  BY DEF IsWorded, SettingsFit
<1>4. key \in DOMAIN x.shared => \A t \in DOMAIN x.shared[key] : AmountFits(x.shared[key][t], Decimals[t])
  BY DEF IsWorded, SettingsFit
<1> QED
  BY <1>1, <1>2, <1>3, <1>4 DEF ThresholdsOf

-----------------------------------------------------------------------------
(***************************************************************************)
(* The conditions: what each handler has to say of an entry, and when it   *)
(* fires.                                                                  *)
(***************************************************************************)
\* A handler has something to say of an entry, and what.
Says(c, h, token, s) ==
  /\ h \in OngoingHandlers
  /\ h # "AssetBalanceThresholdState" => token = None
  /\ h = "CommissionUnexpectedState" =>
       StakingCommission(s, c.account) # None /\ IsTruthy(Setting(c, "commission"))
  /\ h = "SelfStakeUnexpectedState" => SelfStake(s, c.account) # None /\ IsTruthy(Setting(c, "selfStake"))
  /\ h = "DestinationUnexpectedState" => StakingPayee(s, c.account) # None /\ Setting(c, "payee") # None
  /\ h = "BalanceThresholdState" => IsTruthy(Setting(c, "threshold"))
  /\ h = "AssetBalanceThresholdState" =>
       token \in DOMAIN ThresholdsOf(c) /\ TokenAccountBalance(s, token, c.account) < ThresholdsOf(c)[token]
  /\ h = "IdentityFieldsMissingState" => IdentityFor(s, c) # None

IsInRange(c, s) == IsAccountInEraRange(c, StakingActiveEra(s))

Fires(c, h, token, s) ==
  CASE h = "CommissionUnexpectedState" ->
         IsInRange(c, s) /\ StakingCommission(s, c.account) > Setting(c, "commission")
    [] h = "SelfStakeUnexpectedState" ->
         IsInRange(c, s) /\ SelfStake(s, c.account) < Setting(c, "selfStake")
    [] h = "DestinationUnexpectedState" ->
         IsInRange(c, s) /\ StakingPayee(s, c.account) # Setting(c, "payee")
    [] h = "ValidatorIntentionMissingState" ->
         /\ IsInRange(c, s)
         /\ StakingBonded(s, c.account) = None \/ StakingCommission(s, c.account) = None
    [] h = "ActiveSetPresenceState" ->
         IsInRange(c, s) /\ c.account \notin StakingEraValidators(s, StakingActiveEra(s))
    [] h = "BalanceThresholdState" -> SystemAccountBalance(s, c.account) < Setting(c, "threshold")
    [] h = "AssetBalanceThresholdState" -> TRUE
    [] h = "IdentityUnexpectedState" ->
         \E f \in IdentityFields : Setting(c, f) # None /\ Setting(c, f) # FieldOf(IdentityFor(s, c), f)
    [] h = "IdentityMissingState" -> IdentityFor(s, c) = None
    [] h = "IdentityFieldsMissingState" -> ~({"email", "matrix"} \subseteq DOMAIN IdentityFor(s, c))

\* t is what handler h says of entry c.
IsTrackOf(t, c, h, token, s) == t.key = Key(c, h, token) /\ (t.isFiring <=> Fires(c, h, token, s))

\* The tracks are those of handler h, for registry r.
AreTracks(tracks, r, h, s) ==
  /\ \A t \in tracks : \E c \in Watched(r, h) : \E token : Says(c, h, token, s) /\ IsTrackOf(t, c, h, token, s)
  /\ \A c \in Watched(r, h) : \A token :
       Says(c, h, token, s) => \E t \in tracks : IsTrackOf(t, c, h, token, s)

LEMMA TrackIs ==
  ASSUME NEW c, NEW h, NEW token, NEW b \in BOOLEAN
  PROVE  Track(c, h, token, b).key = Key(c, h, token) /\ (Track(c, h, token, b).isFiring <=> b)
  BY DEF Track

LEMMA CommissionTracks ==
  ASSUME NEW r, NEW s
  PROVE  AreTracks(CommissionUnexpected(r, s), r, "CommissionUnexpectedState", s)
<1> DEFINE h == "CommissionUnexpectedState"
           judged == {c \in Watched(r, h) : StakingCommission(s, c.account) # None /\ IsTruthy(Setting(c, "commission"))}
           b(c) == IsAccountInEraRange(c, StakingActiveEra(s)) /\ StakingCommission(s, c.account) > Setting(c, "commission")
<1>1. CommissionUnexpected(r, s) = {Track(c, h, None, b(c)) : c \in judged}
  BY DEF CommissionUnexpected
<1>2. ASSUME NEW c PROVE b(c) \in BOOLEAN /\ (b(c) <=> Fires(c, h, None, s))
  BY DEF Fires, IsInRange, IsAccountInEraRange
<1>3. ASSUME NEW c, NEW token PROVE c \in judged /\ token = None <=> c \in Watched(r, h) /\ Says(c, h, token, s)
  BY DEF Says, OngoingHandlers
<1> HIDE DEF b, judged, h
<1>4. ASSUME NEW c PROVE IsTrackOf(Track(c, h, None, b(c)), c, h, None, s)
  BY <1>2, TrackIs DEF IsTrackOf
<1> QED
  BY <1>1, <1>3, <1>4 DEF AreTracks, h

LEMMA SelfStakeTracks ==
  ASSUME NEW r, NEW s
  PROVE  AreTracks(SelfStakeUnexpected(r, s), r, "SelfStakeUnexpectedState", s)
<1> DEFINE h == "SelfStakeUnexpectedState"
           judged == {c \in Watched(r, h) : SelfStake(s, c.account) # None /\ IsTruthy(Setting(c, "selfStake"))}
           b(c) == IsAccountInEraRange(c, StakingActiveEra(s)) /\ SelfStake(s, c.account) < Setting(c, "selfStake")
<1>1. SelfStakeUnexpected(r, s) = {Track(c, h, None, b(c)) : c \in judged}
  BY DEF SelfStakeUnexpected
<1>2. ASSUME NEW c PROVE b(c) \in BOOLEAN /\ (b(c) <=> Fires(c, h, None, s))
  BY DEF Fires, IsInRange, IsAccountInEraRange
<1>3. ASSUME NEW c, NEW token PROVE c \in judged /\ token = None <=> c \in Watched(r, h) /\ Says(c, h, token, s)
  BY DEF Says, OngoingHandlers
<1> HIDE DEF b, judged, h
<1>4. ASSUME NEW c PROVE IsTrackOf(Track(c, h, None, b(c)), c, h, None, s)
  BY <1>2, TrackIs DEF IsTrackOf
<1> QED
  BY <1>1, <1>3, <1>4 DEF AreTracks, h

LEMMA DestinationTracks ==
  ASSUME NEW r, NEW s
  PROVE  AreTracks(DestinationUnexpected(r, s), r, "DestinationUnexpectedState", s)
<1> DEFINE h == "DestinationUnexpectedState"
           judged == {c \in Watched(r, h) : StakingPayee(s, c.account) # None /\ Setting(c, "payee") # None}
           b(c) == IsAccountInEraRange(c, StakingActiveEra(s)) /\ StakingPayee(s, c.account) # Setting(c, "payee")
<1>1. DestinationUnexpected(r, s) = {Track(c, h, None, b(c)) : c \in judged}
  BY DEF DestinationUnexpected
<1>2. ASSUME NEW c PROVE b(c) \in BOOLEAN /\ (b(c) <=> Fires(c, h, None, s))
  BY DEF Fires, IsInRange, IsAccountInEraRange
<1>3. ASSUME NEW c, NEW token PROVE c \in judged /\ token = None <=> c \in Watched(r, h) /\ Says(c, h, token, s)
  BY DEF Says, OngoingHandlers
<1> HIDE DEF b, judged, h
<1>4. ASSUME NEW c PROVE IsTrackOf(Track(c, h, None, b(c)), c, h, None, s)
  BY <1>2, TrackIs DEF IsTrackOf
<1> QED
  BY <1>1, <1>3, <1>4 DEF AreTracks, h

LEMMA IntentionTracks ==
  ASSUME NEW r, NEW s
  PROVE  AreTracks(ValidatorIntentionMissing(r, s), r, "ValidatorIntentionMissingState", s)
<1> DEFINE h == "ValidatorIntentionMissingState"
           judged == Watched(r, h)
           b(c) == /\ IsAccountInEraRange(c, StakingActiveEra(s))
                   /\ StakingBonded(s, c.account) = None \/ StakingCommission(s, c.account) = None
<1>1. ValidatorIntentionMissing(r, s) = {Track(c, h, None, b(c)) : c \in judged}
  BY DEF ValidatorIntentionMissing
<1>2. ASSUME NEW c PROVE b(c) \in BOOLEAN /\ (b(c) <=> Fires(c, h, None, s))
  BY DEF Fires, IsInRange, IsAccountInEraRange
<1>3. ASSUME NEW c, NEW token PROVE c \in judged /\ token = None <=> c \in Watched(r, h) /\ Says(c, h, token, s)
  BY DEF Says, OngoingHandlers
<1> HIDE DEF b, judged, h
<1>4. ASSUME NEW c PROVE IsTrackOf(Track(c, h, None, b(c)), c, h, None, s)
  BY <1>2, TrackIs DEF IsTrackOf
<1> QED
  BY <1>1, <1>3, <1>4 DEF AreTracks, h

LEMMA PresenceTracks ==
  ASSUME NEW r, NEW s
  PROVE  AreTracks(ActiveSetPresence(r, s), r, "ActiveSetPresenceState", s)
<1> DEFINE h == "ActiveSetPresenceState"
           judged == Watched(r, h)
           b(c) == IsAccountInEraRange(c, StakingActiveEra(s)) /\ c.account \notin StakingEraValidators(s, StakingActiveEra(s))
<1>1. ActiveSetPresence(r, s) = {Track(c, h, None, b(c)) : c \in judged}
  BY DEF ActiveSetPresence
<1>2. ASSUME NEW c PROVE b(c) \in BOOLEAN /\ (b(c) <=> Fires(c, h, None, s))
  BY DEF Fires, IsInRange, IsAccountInEraRange
<1>3. ASSUME NEW c, NEW token PROVE c \in judged /\ token = None <=> c \in Watched(r, h) /\ Says(c, h, token, s)
  BY DEF Says, OngoingHandlers
<1> HIDE DEF b, judged, h
<1>4. ASSUME NEW c PROVE IsTrackOf(Track(c, h, None, b(c)), c, h, None, s)
  BY <1>2, TrackIs DEF IsTrackOf
<1> QED
  BY <1>1, <1>3, <1>4 DEF AreTracks, h

LEMMA ThresholdTracks ==
  ASSUME NEW r, NEW s
  PROVE  AreTracks(BalanceThreshold(r, s), r, "BalanceThresholdState", s)
<1> DEFINE h == "BalanceThresholdState"
           judged == {c \in Watched(r, h) : IsTruthy(Setting(c, "threshold"))}
           b(c) == SystemAccountBalance(s, c.account) < Setting(c, "threshold")
<1>1. BalanceThreshold(r, s) = {Track(c, h, None, b(c)) : c \in judged}
  BY DEF BalanceThreshold
<1>2. ASSUME NEW c PROVE b(c) \in BOOLEAN /\ (b(c) <=> Fires(c, h, None, s))
  BY DEF Fires
<1>3. ASSUME NEW c, NEW token PROVE c \in judged /\ token = None <=> c \in Watched(r, h) /\ Says(c, h, token, s)
  BY DEF Says, OngoingHandlers
<1> HIDE DEF b, judged, h
<1>4. ASSUME NEW c PROVE IsTrackOf(Track(c, h, None, b(c)), c, h, None, s)
  BY <1>2, TrackIs DEF IsTrackOf
<1> QED
  BY <1>1, <1>3, <1>4 DEF AreTracks, h

LEMMA UnexpectedTracks ==
  ASSUME NEW r, NEW s
  PROVE  AreTracks(IdentityUnexpected(r, s), r, "IdentityUnexpectedState", s)
<1> DEFINE h == "IdentityUnexpectedState"
           judged == Watched(r, h)
           b(c) == {f \in IdentityFields : Setting(c, f) # None /\ Setting(c, f) # FieldOf(IdentityFor(s, c), f)} # {}
<1>1. IdentityUnexpected(r, s) = {Track(c, h, None, b(c)) : c \in judged}
  BY DEF IdentityUnexpected
<1>2. ASSUME NEW c PROVE b(c) \in BOOLEAN /\ (b(c) <=> Fires(c, h, None, s))
  BY DEF Fires
<1>3. ASSUME NEW c, NEW token PROVE c \in judged /\ token = None <=> c \in Watched(r, h) /\ Says(c, h, token, s)
  BY DEF Says, OngoingHandlers
<1> HIDE DEF b, judged, h
<1>4. ASSUME NEW c PROVE IsTrackOf(Track(c, h, None, b(c)), c, h, None, s)
  BY <1>2, TrackIs DEF IsTrackOf
<1> QED
  BY <1>1, <1>3, <1>4 DEF AreTracks, h

LEMMA MissingTracks ==
  ASSUME NEW r, NEW s
  PROVE  AreTracks(IdentityMissing(r, s), r, "IdentityMissingState", s)
<1> DEFINE h == "IdentityMissingState"
           judged == Watched(r, h)
           b(c) == IdentityFor(s, c) = None
<1>1. IdentityMissing(r, s) = {Track(c, h, None, b(c)) : c \in judged}
  BY DEF IdentityMissing
<1>2. ASSUME NEW c PROVE b(c) \in BOOLEAN /\ (b(c) <=> Fires(c, h, None, s))
  BY DEF Fires
<1>3. ASSUME NEW c, NEW token PROVE c \in judged /\ token = None <=> c \in Watched(r, h) /\ Says(c, h, token, s)
  BY DEF Says, OngoingHandlers
<1> HIDE DEF b, judged, h
<1>4. ASSUME NEW c PROVE IsTrackOf(Track(c, h, None, b(c)), c, h, None, s)
  BY <1>2, TrackIs DEF IsTrackOf
<1> QED
  BY <1>1, <1>3, <1>4 DEF AreTracks, h

LEMMA FieldsTracks ==
  ASSUME NEW r, NEW s
  PROVE  AreTracks(IdentityFieldsMissing(r, s), r, "IdentityFieldsMissingState", s)
<1> DEFINE h == "IdentityFieldsMissingState"
           judged == {c \in Watched(r, h) : IdentityFor(s, c) # None}
           b(c) == ~({"email", "matrix"} \subseteq DOMAIN IdentityFor(s, c))
<1>1. IdentityFieldsMissing(r, s) = {Track(c, h, None, b(c)) : c \in judged}
  BY DEF IdentityFieldsMissing
<1>2. ASSUME NEW c PROVE b(c) \in BOOLEAN /\ (b(c) <=> Fires(c, h, None, s))
  BY DEF Fires
<1>3. ASSUME NEW c, NEW token PROVE c \in judged /\ token = None <=> c \in Watched(r, h) /\ Says(c, h, token, s)
  BY DEF Says, OngoingHandlers
<1> HIDE DEF b, judged, h
<1>4. ASSUME NEW c PROVE IsTrackOf(Track(c, h, None, b(c)), c, h, None, s)
  BY <1>2, TrackIs DEF IsTrackOf
<1> QED
  BY <1>1, <1>3, <1>4 DEF AreTracks, h

LEMMA AssetTracks ==
  ASSUME NEW r, NEW s
  PROVE  AreTracks(HandleBalanceThreshold(r, s), r, "AssetBalanceThresholdState", s)
<1> DEFINE h == "AssetBalanceThresholdState"
           below(c) == {t \in DOMAIN ThresholdsOf(c) : TokenAccountBalance(s, t, c.account) < ThresholdsOf(c)[t]}
           fired(c, t) == Track(c, h, t, TRUE)
<1>1. HandleBalanceThreshold(r, s) = UNION {{fired(c, t) : t \in below(c)} : c \in Watched(r, h)}
  BY DEF HandleBalanceThreshold
<1>2. ASSUME NEW c, NEW token PROVE token \in below(c) <=> Says(c, h, token, s)
  BY DEF Says, OngoingHandlers
<1>3. ASSUME NEW c, NEW token PROVE Fires(c, h, token, s)
  BY DEF Fires
<1>4. ASSUME NEW c, NEW token PROVE IsTrackOf(fired(c, token), c, h, token, s)
  BY <1>3 DEF IsTrackOf, Track
<1> HIDE DEF below, h, fired
<1> QED
  BY <1>1, <1>2, <1>4 DEF AreTracks, h

LEMMA TracksAre ==
  ASSUME NEW r, NEW s
  PROVE  /\ \A t \in Tracks(r, s) : \E h, token : \E c \in Watched(r, h) :
              Says(c, h, token, s) /\ IsTrackOf(t, c, h, token, s)
         /\ \A h, token : \A c \in Watched(r, h) :
              Says(c, h, token, s) => \E t \in Tracks(r, s) : IsTrackOf(t, c, h, token, s)
<1>1. ASSUME NEW t \in Tracks(r, s)
      PROVE  \E h, token : \E c \in Watched(r, h) : Says(c, h, token, s) /\ IsTrackOf(t, c, h, token, s)
  <2>1. \/ t \in CommissionUnexpected(r, s) \/ t \in SelfStakeUnexpected(r, s) \/ t \in DestinationUnexpected(r, s)
        \/ t \in ValidatorIntentionMissing(r, s) \/ t \in ActiveSetPresence(r, s)
        \/ t \in BalanceThreshold(r, s) \/ t \in HandleBalanceThreshold(r, s)
        \/ t \in IdentityUnexpected(r, s) \/ t \in IdentityMissing(r, s) \/ t \in IdentityFieldsMissing(r, s)
    BY DEF Tracks
  <2>2. ASSUME NEW tracks, NEW h, AreTracks(tracks, r, h, s), t \in tracks
        PROVE  \E k, token : \E c \in Watched(r, k) : Says(c, k, token, s) /\ IsTrackOf(t, c, k, token, s)
    BY <2>2 DEF AreTracks
  <2>3. CASE t \in CommissionUnexpected(r, s)
    BY <2>2, <2>3, CommissionTracks
  <2>4. CASE t \in SelfStakeUnexpected(r, s)
    BY <2>2, <2>4, SelfStakeTracks
  <2>5. CASE t \in DestinationUnexpected(r, s)
    BY <2>2, <2>5, DestinationTracks
  <2>6. CASE t \in ValidatorIntentionMissing(r, s)
    BY <2>2, <2>6, IntentionTracks
  <2>7. CASE t \in ActiveSetPresence(r, s)
    BY <2>2, <2>7, PresenceTracks
  <2>8. CASE t \in BalanceThreshold(r, s)
    BY <2>2, <2>8, ThresholdTracks
  <2>9. CASE t \in HandleBalanceThreshold(r, s)
    BY <2>2, <2>9, AssetTracks
  <2>10. CASE t \in IdentityUnexpected(r, s)
    BY <2>2, <2>10, UnexpectedTracks
  <2>11. CASE t \in IdentityMissing(r, s)
    BY <2>2, <2>11, MissingTracks
  <2>12. CASE t \in IdentityFieldsMissing(r, s)
    BY <2>2, <2>12, FieldsTracks
  <2> QED
    BY <2>1, <2>3, <2>4, <2>5, <2>6, <2>7, <2>8, <2>9, <2>10, <2>11, <2>12
<1>2. ASSUME NEW h, NEW token, NEW c \in Watched(r, h), Says(c, h, token, s)
      PROVE  \E t \in Tracks(r, s) : IsTrackOf(t, c, h, token, s)
  <2>1. ASSUME NEW tracks, AreTracks(tracks, r, h, s), tracks \subseteq Tracks(r, s)
        PROVE  \E t \in Tracks(r, s) : IsTrackOf(t, c, h, token, s)
    BY <1>2, <2>1 DEF AreTracks
  <2>2. /\ CommissionUnexpected(r, s) \subseteq Tracks(r, s) /\ SelfStakeUnexpected(r, s) \subseteq Tracks(r, s)
        /\ DestinationUnexpected(r, s) \subseteq Tracks(r, s) /\ ValidatorIntentionMissing(r, s) \subseteq Tracks(r, s)
        /\ ActiveSetPresence(r, s) \subseteq Tracks(r, s) /\ BalanceThreshold(r, s) \subseteq Tracks(r, s)
        /\ HandleBalanceThreshold(r, s) \subseteq Tracks(r, s) /\ IdentityUnexpected(r, s) \subseteq Tracks(r, s)
        /\ IdentityMissing(r, s) \subseteq Tracks(r, s) /\ IdentityFieldsMissing(r, s) \subseteq Tracks(r, s)
    BY DEF Tracks
  <2>3. h \in OngoingHandlers
    BY <1>2 DEF Says
  <2> QED
    BY <2>1, <2>2, <2>3, CommissionTracks, SelfStakeTracks, DestinationTracks, IntentionTracks, PresenceTracks,
       ThresholdTracks, AssetTracks, UnexpectedTracks, MissingTracks, FieldsTracks DEF OngoingHandlers
<1> QED
  BY <1>1, <1>2

-----------------------------------------------------------------------------
(***************************************************************************)
(* What is said of the entry of a wish is what the wish means.             *)
(***************************************************************************)
\* c is how a monitor has wish x, and the data are as the code takes them.
IsWished(c, x, type) ==
  /\ IsEntryFor(c, x, type, Chain) /\ IsWorded(x, Chain)
  /\ type \in DOMAIN MonitorHandlers /\ x.handler \in MonitorHandlers[type]
  /\ StorageIsTyped(now) /\ None \notin Int

\* An amount of nothing: the code does not look at it.
IsZero(c, h) ==
  \/ h = "SelfStakeUnexpectedState" /\ Setting(c, "selfStake") = 0
  \/ h = "BalanceThresholdState" /\ Setting(c, "threshold") = 0

\* What is said of c is what wish x means.
IsRight(c, x) ==
  \/ Says(c, x.handler, None, now) /\ (Fires(c, x.handler, None, now) <=> Holds(x, None))
  \/ IsZero(c, x.handler) /\ ~Holds(x, None)

LEMMA StakingIs ==
  ASSUME NEW c, NEW x, NEW type, IsWished(c, x, type),
         x.handler \in {"CommissionUnexpectedState", "SelfStakeUnexpectedState", "DestinationUnexpectedState",
                        "ValidatorIntentionMissingState", "ActiveSetPresenceState"}
  PROVE  type = "Staking" /\ (IsInRange(c, now) <=> IsDuring(x, Or(now.activeEra, 0)))
<1>1. type = "Staking"
  BY DEF IsWished, MonitorHandlers
<1>2. Setting(c, "fromEra") = Wanted(x, "fromEra") /\ Setting(c, "untilEra") = Wanted(x, "untilEra")
  BY <1>1, SettingIs DEF IsWished, MonitorTypeKeys, Amounts
<1> QED
  BY <1>1, <1>2 DEF IsInRange, IsAccountInEraRange, IsDuring, StakingActiveEra

LEMMA CommissionIsRight ==
  ASSUME NEW c, NEW x, NEW type, IsWished(c, x, type), x.handler = "CommissionUnexpectedState", IsJudged(x)
  PROVE  IsRight(c, x)
<1>1. c.account = x.account /\ type = "Staking" /\ (IsInRange(c, now) <=> IsDuring(x, Or(now.activeEra, 0)))
  BY StakingIs DEF IsWished, IsEntryFor
<1>2. x.account \in DOMAIN now.prefs /\ Wanted(x, "commission") \notin {None, 0}
  BY DEF IsJudged
<1>3. Setting(c, "commission") = Wanted(x, "commission")
  BY <1>1, SettingIs DEF IsWished, MonitorTypeKeys, Amounts
<1>4. StakingCommission(now, c.account) = now.prefs[x.account] /\ now.prefs[x.account] # None
  BY <1>1, <1>2 DEF StakingCommission, Lookup, IsWished, StorageIsTyped
<1>5. Says(c, x.handler, None, now)
  BY <1>2, <1>3, <1>4 DEF Says, IsTruthy, OngoingHandlers
<1>6. Fires(c, x.handler, None, now) <=> Holds(x, None)
  BY <1>1, <1>3, <1>4 DEF Fires, Holds
<1> QED
  BY <1>5, <1>6 DEF IsRight

LEMMA SelfStakeIsRight ==
  ASSUME NEW c, NEW x, NEW type, IsWished(c, x, type), x.handler = "SelfStakeUnexpectedState", IsJudged(x)
  PROVE  IsRight(c, x)
<1>1. c.account = x.account /\ type = "Staking" /\ (IsInRange(c, now) <=> IsDuring(x, Or(now.activeEra, 0)))
  BY StakingIs DEF IsWished, IsEntryFor
<1>2. x.account \in DOMAIN now.bonded /\ Wanted(x, "selfStake") # None /\ now.bonded[x.account] \in DOMAIN now.ledger
  BY DEF IsJudged
<1>3. /\ Setting(c, "selfStake") = AtomizeBalance(Wanted(x, "selfStake"), Decimals[Chain])
      /\ AmountFits(Wanted(x, "selfStake"), Decimals[Chain])
  BY <1>1, <1>2, AmountIs DEF IsWished, MonitorTypeKeys, Amounts
<1>4. now.bonded[x.account] # None /\ Active(x) \in Nat /\ SelfStake(now, c.account) = Active(x)
  BY <1>1, <1>2 DEF SelfStake, StakingBonded, StakingLedgerActive, Lookup, Active, IsWished, StorageIsTyped
<1>5. /\ Setting(c, "selfStake") \in Int
      /\ Active(x) < Setting(c, "selfStake") <=> IsBelowDecimal(Active(x), Wanted(x, "selfStake"), Decimals[Chain])
  BY <1>3, <1>4, Atomized
<1>6. Holds(x, None) <=> IsDuring(x, Or(now.activeEra, 0)) /\ Active(x) < Setting(c, "selfStake")
  BY <1>5 DEF Holds
<1>7. CASE Setting(c, "selfStake") = 0
  BY <1>4, <1>6, <1>7 DEF IsRight, IsZero
<1>8. CASE Setting(c, "selfStake") # 0
  <2>1. Says(c, x.handler, None, now)
    BY <1>4, <1>5, <1>8 DEF Says, IsTruthy, OngoingHandlers, IsWished
  <2>2. Fires(c, x.handler, None, now) <=> Holds(x, None)
    BY <1>1, <1>4, <1>6 DEF Fires
  <2> QED
    BY <2>1, <2>2 DEF IsRight
<1> QED
  BY <1>7, <1>8

LEMMA DestinationIsRight ==
  ASSUME NEW c, NEW x, NEW type, IsWished(c, x, type), x.handler = "DestinationUnexpectedState", IsJudged(x)
  PROVE  IsRight(c, x)
<1>1. c.account = x.account /\ type = "Staking" /\ (IsInRange(c, now) <=> IsDuring(x, Or(now.activeEra, 0)))
  BY StakingIs DEF IsWished, IsEntryFor
<1>2. x.account \in DOMAIN now.payee /\ Wanted(x, "payee") # None
  BY DEF IsJudged
<1>3. Setting(c, "payee") = Wanted(x, "payee")
  BY <1>1, SettingIs DEF IsWished, MonitorTypeKeys, Amounts
<1>4. StakingPayee(now, c.account) = now.payee[x.account] /\ now.payee[x.account] # None
  BY <1>1, <1>2 DEF StakingPayee, Lookup, IsWished, StorageIsTyped
<1>5. Says(c, x.handler, None, now)
  BY <1>2, <1>3, <1>4 DEF Says, OngoingHandlers
<1>6. Fires(c, x.handler, None, now) <=> Holds(x, None)
  BY <1>1, <1>3, <1>4 DEF Fires, Holds
<1> QED
  BY <1>5, <1>6 DEF IsRight

LEMMA IntentionIsRight ==
  ASSUME NEW c, NEW x, NEW type, IsWished(c, x, type), x.handler = "ValidatorIntentionMissingState"
  PROVE  IsRight(c, x)
<1>1. c.account = x.account /\ type = "Staking" /\ (IsInRange(c, now) <=> IsDuring(x, Or(now.activeEra, 0)))
  BY StakingIs DEF IsWished, IsEntryFor
<1>2. /\ StakingBonded(now, c.account) = None <=> x.account \notin DOMAIN now.bonded
      /\ StakingCommission(now, c.account) = None <=> x.account \notin DOMAIN now.prefs
  BY <1>1 DEF StakingBonded, StakingCommission, Lookup, IsWished, StorageIsTyped
<1>3. Says(c, x.handler, None, now)
  BY DEF Says, OngoingHandlers
<1>4. Fires(c, x.handler, None, now) <=> Holds(x, None)
  BY <1>1, <1>2 DEF Fires, Holds
<1> QED
  BY <1>3, <1>4 DEF IsRight

LEMMA PresenceIsRight ==
  ASSUME NEW c, NEW x, NEW type, IsWished(c, x, type), x.handler = "ActiveSetPresenceState"
  PROVE  IsRight(c, x)
<1>1. c.account = x.account /\ type = "Staking" /\ (IsInRange(c, now) <=> IsDuring(x, Or(now.activeEra, 0)))
  BY StakingIs DEF IsWished, IsEntryFor
<1>2. Says(c, x.handler, None, now)
  BY DEF Says, OngoingHandlers
<1>3. Fires(c, x.handler, None, now) <=> Holds(x, None)
  BY <1>1 DEF Fires, Holds, StakingEraValidators, StakingActiveEra
<1> QED
  BY <1>2, <1>3 DEF IsRight

LEMMA ThresholdIsRight ==
  ASSUME NEW c, NEW x, NEW type, IsWished(c, x, type), x.handler = "BalanceThresholdState", IsJudged(x)
  PROVE  IsRight(c, x)
<1>1. c.account = x.account /\ type = "Balances"
  BY DEF IsWished, IsEntryFor, MonitorHandlers
<1>2. Wanted(x, "threshold") # None
  BY DEF IsJudged
<1>3. /\ Setting(c, "threshold") = AtomizeBalance(Wanted(x, "threshold"), Decimals[Chain])
      /\ AmountFits(Wanted(x, "threshold"), Decimals[Chain])
  BY <1>1, <1>2, AmountIs DEF IsWished, MonitorTypeKeys, Amounts
<1> DEFINE free == Or(Lookup(now.free, x.account), 0)
<1>4. free \in Nat /\ SystemAccountBalance(now, c.account) = free
  BY <1>1 DEF SystemAccountBalance, Or, Lookup, IsWished, StorageIsTyped
<1> HIDE DEF free
<1>5. /\ Setting(c, "threshold") \in Int
      /\ free < Setting(c, "threshold") <=> IsBelowDecimal(free, Wanted(x, "threshold"), Decimals[Chain])
  BY <1>3, <1>4, Atomized
<1>6. Holds(x, None) <=> free < Setting(c, "threshold")
  BY <1>5 DEF Holds, free
<1>7. CASE Setting(c, "threshold") = 0
  BY <1>4, <1>6, <1>7 DEF IsRight, IsZero
<1>8. CASE Setting(c, "threshold") # 0
  <2>1. Says(c, x.handler, None, now)
    BY <1>4, <1>5, <1>8 DEF Says, IsTruthy, OngoingHandlers, IsWished
  <2>2. Fires(c, x.handler, None, now) <=> Holds(x, None)
    BY <1>1, <1>4, <1>6 DEF Fires
  <2> QED
    BY <2>1, <2>2 DEF IsRight
<1> QED
  BY <1>7, <1>8

LEMMA IdentityIs ==
  ASSUME NEW c, NEW x, NEW type, IsWished(c, x, type)
  PROVE  /\ IdentityFor(now, c) = None <=> Identity(x) = None
         /\ Identity(x) # None =>
              /\ IdentityFor(now, c) = ProcessIdentityInfo(Identity(x)) /\ IdentityIsTyped(Identity(x))
              /\ Or(Identity(x), <<>>) = Identity(x)
<1>1. c.account = x.account
  BY DEF IsWished, IsEntryFor
<1> DEFINE holder == Or(Lookup(now.superOf, x.account), x.account)
<1>2. ParentOf(now, c.account) = holder
  BY <1>1 DEF ParentOf, IdentitySuperOf
<1>3. Identity(x) = Lookup(now.identity, holder)
  BY DEF Identity
<1>4. IdentityFor(now, c) = IF Identity(x) = None THEN None ELSE ProcessIdentityInfo(Identity(x))
  BY <1>2, <1>3 DEF IdentityFor, IdentityOf
<1>5. Identity(x) # None => IdentityIsTyped(Identity(x))
  BY <1>3 DEF Lookup, IsWished, StorageIsTyped
<1> HIDE DEF holder
<1> QED
  BY <1>4, <1>5 DEF IdentityIsTyped, Or

LEMMA FieldIs ==
  ASSUME NEW c, NEW x, NEW type, IsWished(c, x, type), NEW f
  PROVE  /\ FieldOf(IdentityFor(now, c), f) = ShownField(x, f)
         /\ IdentityFor(now, c) # None => (f \in DOMAIN IdentityFor(now, c) <=> ShownField(x, f) # None)
<1>1. CASE Identity(x) = None
  BY <1>1, IdentityIs DEF FieldOf, ShownField
<1>2. CASE Identity(x) # None
  <2> DEFINE info == Identity(x)
  <2>1. /\ IdentityFor(now, c) = ProcessIdentityInfo(info) /\ IdentityIsTyped(info)
        /\ IdentityFor(now, c) # None /\ Or(info, <<>>) = info
    BY <1>2, IdentityIs
  <2>2. ShownField(x, f) = IF f \in DOMAIN info THEN IF info[f].type = "None" THEN None ELSE info[f].value ELSE None
    BY <1>2, <2>1 DEF ShownField
  <2>3. f \in DOMAIN info => info[f].type \in {"None", "Raw", "Sha256"} /\ (info[f].type # "None" => info[f].value # None)
    BY <2>1 DEF IdentityIsTyped
  <2> HIDE DEF info
  <2>4. f \in DOMAIN ProcessIdentityInfo(info) <=> f \in DOMAIN info /\ info[f].type \in {"Raw", "Sha256"}
    BY DEF ProcessIdentityInfo
  <2>5. f \in DOMAIN ProcessIdentityInfo(info) => ProcessIdentityInfo(info)[f] = info[f].value
    BY DEF ProcessIdentityInfo
  <2> QED
    BY <2>1, <2>2, <2>3, <2>4, <2>5 DEF FieldOf, Lookup
<1> QED
  BY <1>1, <1>2

LEMMA UnexpectedIsRight ==
  ASSUME NEW c, NEW x, NEW type, IsWished(c, x, type), x.handler = "IdentityUnexpectedState"
  PROVE  IsRight(c, x)
<1>1. type = "Identity"
  BY DEF IsWished, MonitorHandlers
<1>2. \A f \in IdentityFields : Setting(c, f) = Wanted(x, f) /\ FieldOf(IdentityFor(now, c), f) = ShownField(x, f)
  BY <1>1, SettingIs, FieldIs DEF IsWished, MonitorTypeKeys, Amounts, IdentityFields
<1>3. Says(c, x.handler, None, now)
  BY DEF Says, OngoingHandlers
<1>4. Fires(c, x.handler, None, now) <=> Holds(x, None)
  BY <1>2 DEF Fires, Holds
<1> QED
  BY <1>3, <1>4 DEF IsRight

LEMMA MissingIsRight ==
  ASSUME NEW c, NEW x, NEW type, IsWished(c, x, type), x.handler = "IdentityMissingState"
  PROVE  IsRight(c, x)
<1>1. Says(c, x.handler, None, now)
  BY DEF Says, OngoingHandlers
<1>2. Fires(c, x.handler, None, now) <=> Holds(x, None)
  BY IdentityIs DEF Fires, Holds
<1> QED
  BY <1>1, <1>2 DEF IsRight

LEMMA FieldsAreRight ==
  ASSUME NEW c, NEW x, NEW type, IsWished(c, x, type), x.handler = "IdentityFieldsMissingState", IsJudged(x)
  PROVE  IsRight(c, x)
<1>1. IdentityFor(now, c) # None
  BY IdentityIs DEF IsJudged
<1>2. Says(c, x.handler, None, now)
  BY <1>1 DEF Says, OngoingHandlers
<1>3. Fires(c, x.handler, None, now) <=> Holds(x, None)
  BY <1>1, FieldIs DEF Fires, Holds
<1> QED
  BY <1>2, <1>3 DEF IsRight

LEMMA AssetIsRight ==
  ASSUME NEW c, NEW x, NEW type, IsWished(c, x, type), x.handler = "AssetBalanceThresholdState", IsJudged(x),
         NEW token \in TokensWanted(x)
  PROVE  Says(c, x.handler, token, now) <=> Holds(x, token)
<1> DEFINE wanted == Wanted(x, "tokenThresholds")
           balance == TokenAccountBalance(now, token, x.account)
<1>1. type = "Assets" /\ c.account = x.account
  BY DEF IsWished, IsEntryFor, MonitorHandlers
<1>2. wanted # None /\ token \in DOMAIN wanted
  BY DEF IsJudged, TokensWanted
<1>3. /\ ThresholdsOf(c) = [t \in DOMAIN wanted |-> AtomizeBalance(wanted[t], Decimals[t])]
      /\ \A t \in DOMAIN wanted : AmountFits(wanted[t], Decimals[t])
  BY <1>1, <1>2, ThresholdsAre DEF IsWished, MonitorTypeKeys
<1>4. balance \in Nat
  <2>1. CASE token \in DOMAIN now.assets
    <3>1. Or(Lookup(now.assets, token), <<>>) = now.assets[token]
      BY <2>1 DEF Or, Lookup, IsWished, StorageIsTyped
    <3> QED
      BY <2>1, <3>1 DEF TokenAccountBalance, Or, Lookup, IsWished, StorageIsTyped
  <2>2. CASE token \notin DOMAIN now.assets
    <3>1. Or(Lookup(now.assets, token), <<>>) = <<>>
      BY <2>2 DEF Or, Lookup
    <3>2. Lookup(<<>>, x.account) = None
      BY DEF Lookup
    <3> QED
      BY <3>1, <3>2 DEF TokenAccountBalance, Or
  <2> QED
    BY <2>1, <2>2
<1>5. Holds(x, token) <=> IsBelowDecimal(balance, wanted[token], Decimals[token])
  BY DEF Holds
<1>6. Says(c, x.handler, token, now) <=> token \in DOMAIN ThresholdsOf(c) /\ balance < ThresholdsOf(c)[token]
  BY <1>1 DEF Says, OngoingHandlers
<1> HIDE DEF wanted, balance
<1>7. balance < AtomizeBalance(wanted[token], Decimals[token]) <=> IsBelowDecimal(balance, wanted[token], Decimals[token])
  BY <1>2, <1>3, <1>4, Atomized
<1> QED
  BY <1>2, <1>3, <1>5, <1>6, <1>7

LEMMA EveryHandlerIsRight ==
  ASSUME NEW c, NEW x, NEW type, IsWished(c, x, type), x.handler \in OngoingHandlers, IsJudged(x),
         x.handler # "AssetBalanceThresholdState"
  PROVE  IsRight(c, x)
  BY CommissionIsRight, SelfStakeIsRight, DestinationIsRight, IntentionIsRight, PresenceIsRight, ThresholdIsRight,
     UnexpectedIsRight, MissingIsRight, FieldsAreRight DEF OngoingHandlers

-----------------------------------------------------------------------------
(***************************************************************************)
(* What is tracked, through the attempts.                                  *)
(***************************************************************************)
KeysOf(tracks) == {t.key : t \in tracks}
Firing(tracks) == {t \in tracks : t.isFiring}

\* The keys that are tracked are those that were tracked of some storage, and once
\* a block is processed those of its conditions are the ones that hold.
TrackInv ==
  /\ world \in DOMAIN Worlds /\ monitors = InitializeMonitors(world)
  /\ now \in Worlds[world].storages
  /\ \A k \in tracked : \E m \in Monitor : \E s \in Worlds[world].storages : k \in KeysOf(Tracks(monitors[m], s))
  /\ pc = "done" =>
       /\ KeysOf(Firing(AllTracks)) \subseteq tracked
       /\ \A k \in tracked : k \in KeysOf(AllTracks) => k \in KeysOf(Firing(AllTracks))

LEMMA Tracking == Spec => []TrackInv
<1>1. Init => TrackInv
  BY DEF Init, TrackInv
<1>2. ASSUME TrackInv, [Next]_vars
      PROVE  TrackInv'
  <2>1. CASE Attempt
    <3>1. UNCHANGED <<world, monitors, now>> /\ AllTracks' = AllTracks /\ Monitor' = Monitor
      BY <2>1 DEF Attempt, AllTracks, Monitor
    <3>2. ASSUME NEW done \in SUBSET AllTracks, tracked' = AfterTracking(done)
          PROVE  \A k \in tracked' : \E m \in Monitor : \E s \in Worlds[world].storages :
                   k \in KeysOf(Tracks(monitors[m], s))
      <4>1. \A k \in tracked' : k \in tracked \/ k \in KeysOf(AllTracks)
        BY <3>2 DEF AfterTracking, KeysOf
      <4>2. \A k \in KeysOf(AllTracks) : \E m \in Monitor : k \in KeysOf(Tracks(monitors[m], now))
        BY DEF AllTracks, KeysOf
      <4> QED
        BY <1>2, <4>1, <4>2 DEF TrackInv
    <3>3. PICK areCached \in BOOLEAN : Completes(areCached) \/ Fails(areCached)
      BY <2>1 DEF Attempt
    <3>4. CASE Completes(areCached)
      <4>1. tracked' = AfterTracking(AllTracks)
        BY <3>4 DEF Completes
      <4>2. tracked' = (tracked \ KeysOf(AllTracks)) \union KeysOf(Firing(AllTracks))
        BY <4>1 DEF AfterTracking, KeysOf, Firing
      <4>3. \A k \in tracked' : \E m \in Monitor : \E s \in Worlds[world].storages :
              k \in KeysOf(Tracks(monitors[m], s))
        BY <3>2, <4>1
      <4> QED
        BY <1>2, <3>1, <4>2, <4>3 DEF TrackInv
    <3>5. CASE Fails(areCached)
      <4>1. pc' = "retry" /\ \E done \in SUBSET AllTracks : tracked' = AfterTracking(done)
        BY <3>5 DEF Fails
      <4>2. \A k \in tracked' : \E m \in Monitor : \E s \in Worlds[world].storages :
              k \in KeysOf(Tracks(monitors[m], s))
        BY <3>2, <4>1
      <4> QED
        BY <1>2, <3>1, <4>1, <4>2 DEF TrackInv
    <3> QED
      BY <3>3, <3>4, <3>5
  <2>2. CASE NextBlock
    <3>1. UNCHANGED <<world, monitors, tracked>> /\ Monitor' = Monitor /\ now' \in Worlds[world].storages /\ pc' = "first"
      BY <2>2 DEF NextBlock, Monitor
    <3> QED
      BY <1>2, <3>1 DEF TrackInv
  <2>3. CASE UNCHANGED vars
    <3>1. UNCHANGED <<world, monitors, tracked, now, pc>> /\ AllTracks' = AllTracks /\ Monitor' = Monitor
      BY <2>3 DEF vars, AllTracks, Monitor
    <3> QED
      BY <1>2, <3>1 DEF TrackInv
  <2> QED
    BY <1>2, <2>1, <2>2, <2>3 DEF Next
<1> QED
  BY <1>1, <1>2, PTL DEF Spec

LEMMA WishIsOfWorld ==
  ASSUME WorldsAreTyped, TrackInv, NEW x \in Wishes, NEW c, NEW type, IsEntryFor(c, x, type, Chain),
         type \in DOMAIN MonitorHandlers, x.handler \in MonitorHandlers[type]
  PROVE  IsWished(c, x, type)
<1>1. x \in WishesIn(world) /\ WorldIsTyped(world)
  BY DEF Wishes, TrackInv, WorldsAreTyped
<1> QED
  BY <1>1 DEF WorldIsTyped, WorldsAreTyped, IsWished, IsWorded, Chain, TrackInv

LEMMA WishHasEntry ==
  ASSUME WorldsAreTyped, TrackInv, NEW x \in Wishes
  PROVE  \E type \in Monitor : \E c \in Watched(monitors[type], x.handler) : IsWished(c, x, type)
<1>1. PICK type \in DOMAIN InitializeMonitors(world) :
           /\ type \in DOMAIN MonitorHandlers /\ x.handler \in MonitorHandlers[type]
           /\ \E c \in Watched(InitializeMonitors(world)[type], x.handler) : IsEntryFor(c, x, type, ChainOf(world))
  BY WishIsWatched DEF Wishes, TrackInv
<1>2. PICK c \in Watched(monitors[type], x.handler) : IsEntryFor(c, x, type, Chain)
  BY <1>1 DEF TrackInv, ChainOf, Chain
<1>3. type \in Monitor
  BY <1>1 DEF TrackInv, Monitor
<1> QED
  BY <1>1, <1>2, <1>3, WishIsOfWorld

LEMMA KeyIs ==
  ASSUME NEW c, NEW x, NEW token, c.account = x.account, c.group = x.group
  PROVE  Key(c, x.handler, token) = IncidentOf(x, token)
  BY DEF Key, IncidentOf

\* A condition that holds is tracked, and fires.
LEMMA ConditionFires ==
  ASSUME WorldsAreTyped, TrackInv, NEW x \in Judged, NEW token \in TokensWanted(x), Holds(x, token)
  PROVE  IncidentOf(x, token) \in KeysOf(Firing(AllTracks))
<1>1. x \in Wishes /\ x.handler \in OngoingHandlers /\ IsJudged(x)
  BY DEF Judged
<1>2. PICK type \in Monitor : \E c \in Watched(monitors[type], x.handler) : IsWished(c, x, type)
  BY <1>1, WishHasEntry
<1>3. PICK c \in Watched(monitors[type], x.handler) : IsWished(c, x, type)
  BY <1>2
<1>4. Says(c, x.handler, token, now) /\ Fires(c, x.handler, token, now)
  <2>1. CASE x.handler = "AssetBalanceThresholdState"
    BY <1>1, <1>3, <2>1, AssetIsRight DEF Fires
  <2>2. CASE x.handler # "AssetBalanceThresholdState"
    <3>1. token = None
      BY <2>2 DEF TokensWanted
    <3> QED
      BY <1>1, <1>3, <2>2, <3>1, EveryHandlerIsRight DEF IsRight
  <2> QED
    BY <2>1, <2>2
<1>5. PICK t \in Tracks(monitors[type], now) : IsTrackOf(t, c, x.handler, token, now)
  BY <1>3, <1>4, TracksAre
<1>6. t.key = IncidentOf(x, token) /\ t.isFiring
  BY <1>3, <1>4, <1>5, KeyIs DEF IsTrackOf, IsWished, IsEntryFor
<1> QED
  BY <1>5, <1>6 DEF AllTracks, Firing, KeysOf

\* Once a block is processed, every condition that the configuration asks for and that
\* holds has its open incident: for any configuration, any chain's storage, and
\* through any failed attempts.
THEOREM ConditionsHaveIncidents ==
  ASSUME WorldsAreTyped
  PROVE  Spec => []ConditionsAreAlerted
<1>1. TrackInv => ConditionsAreAlerted
  BY ConditionFires DEF ConditionsAreAlerted, TrackInv
<1> QED
  BY <1>1, Tracking, PTL

\* What is tracked under the key of a wish is said of it, in some way.
LEMMA TrackIsOfWish ==
  ASSUME WorldsAreTyped, WishesAreClear, TrackInv, NEW x \in Wishes, NEW type \in Monitor, NEW s,
         NEW t \in Tracks(monitors[type], s), t.key = IncidentOf(x, None)
  PROVE  \E c : /\ IsWished(c, x, type) /\ Says(c, x.handler, None, s)
                /\ t.isFiring <=> Fires(c, x.handler, None, s)
<1>1. PICK h, token : \E c \in Watched(monitors[type], h) : Says(c, h, token, s) /\ IsTrackOf(t, c, h, token, s)
  BY TracksAre
<1>2. PICK c \in Watched(monitors[type], h) : Says(c, h, token, s) /\ IsTrackOf(t, c, h, token, s)
  BY <1>1
<1>3. h = x.handler /\ token = None /\ c.account = x.account /\ c.group = x.group
  BY <1>2 DEF IsTrackOf, Key, IncidentOf
<1>4. type \in DOMAIN InitializeMonitors(world) /\ monitors[type] = InitializeMonitors(world)[type]
  BY DEF TrackInv, Monitor
<1>5. /\ type \in DOMAIN MonitorHandlers /\ h \in MonitorHandlers[type]
      /\ \E y \in WishesIn(world) : y.handler = h /\ IsEntryFor(c, y, type, ChainOf(world))
  BY <1>2, <1>4, WatchedIsWished DEF TrackInv
<1>6. PICK y \in WishesIn(world) : y.handler = h /\ IsEntryFor(c, y, type, Chain)
  BY <1>5 DEF ChainOf, Chain
<1>7. y = x
  BY <1>3, <1>6 DEF IsEntryFor, Wishes, WishesAreClear, TrackInv
<1>8. IsWished(c, x, type)
  BY <1>3, <1>5, <1>6, <1>7, WishIsOfWorld
<1> QED
  BY <1>2, <1>3, <1>8 DEF IsTrackOf

LEMMA SameSettings ==
  ASSUME NEW c, NEW d, NEW x, NEW type, NEW other, IsWished(c, x, type), IsWished(d, x, other)
  PROVE  c.settings = d.settings
<1>1. type = other
  BY DEF IsWished, MonitorHandlers
<1> QED
  BY <1>1 DEF IsWished, IsEntryFor

LEMMA OpenIsTrue ==
  ASSUME WorldsAreTyped, WishesAreClear, TrackInv, pc = "done", NEW x \in Judged,
         x.handler # "AssetBalanceThresholdState", IncidentOf(x, None) \in tracked
  PROVE  Holds(x, None)
<1>1. x \in Wishes /\ x.handler \in OngoingHandlers /\ IsJudged(x)
  BY DEF Judged
<1>2. PICK type \in Monitor : \E c \in Watched(monitors[type], x.handler) : IsWished(c, x, type)
  BY <1>1, WishHasEntry
<1>3. PICK c \in Watched(monitors[type], x.handler) : IsWished(c, x, type)
  BY <1>2
<1>4. IsRight(c, x)
  BY <1>1, <1>3, EveryHandlerIsRight
<1>5. ASSUME NEW d, NEW other, IsWished(d, x, other), IsZero(d, x.handler) \/ IsZero(c, x.handler), NEW s
      PROVE  ~Says(d, x.handler, None, s)
  <2>1. c.settings = d.settings
    BY <1>3, <1>5, SameSettings
  <2> QED
    BY <1>5, <2>1 DEF IsZero, Says, IsTruthy, Setting
<1>6. CASE IsZero(c, x.handler)
  <2>1. PICK m \in Monitor : \E s : IncidentOf(x, None) \in KeysOf(Tracks(monitors[m], s))
    BY DEF TrackInv
  <2>2. PICK s : IncidentOf(x, None) \in KeysOf(Tracks(monitors[m], s))
    BY <2>1
  <2>3. PICK t \in Tracks(monitors[m], s) : t.key = IncidentOf(x, None)
    BY <2>2 DEF KeysOf
  <2>4. \E d : IsWished(d, x, m) /\ Says(d, x.handler, None, s)
    BY <1>1, <2>3, TrackIsOfWish
  <2> QED
    BY <1>5, <1>6, <2>4
<1>7. CASE ~IsZero(c, x.handler)
  <2>1. Says(c, x.handler, None, now)
    BY <1>4, <1>7 DEF IsRight
  <2>2. PICK t \in Tracks(monitors[type], now) : IsTrackOf(t, c, x.handler, None, now)
    BY <1>3, <2>1, TracksAre
  <2>3. IncidentOf(x, None) \in KeysOf(AllTracks)
    BY <1>3, <2>2, KeyIs DEF IsTrackOf, IsWished, IsEntryFor, AllTracks, KeysOf
  <2>4. PICK u \in AllTracks : u.isFiring /\ u.key = IncidentOf(x, None)
    BY <2>3 DEF TrackInv, KeysOf, Firing
  <2>5. PICK m \in Monitor : u \in Tracks(monitors[m], now)
    BY DEF AllTracks
  <2>6. PICK d : /\ IsWished(d, x, m) /\ Says(d, x.handler, None, now)
                 /\ u.isFiring <=> Fires(d, x.handler, None, now)
    BY <1>1, <2>4, <2>5, TrackIsOfWish
  <2>7. IsRight(d, x)
    BY <1>1, <2>6, EveryHandlerIsRight
  <2> QED
    BY <1>5, <2>4, <2>6, <2>7 DEF IsRight
<1> QED
  BY <1>6, <1>7

\* And an incident that is open once a block is processed is one whose condition holds, if
\* no group asks for the same thing of an account in two ways; of the two kinds that
\* the property leaves out, the code leaves the incidents open.
THEOREM OpenIncidentsHold ==
  ASSUME WorldsAreTyped, WishesAreClear
  PROVE  Spec => []OpenIncidentsAreTrue
<1>1. TrackInv => OpenIncidentsAreTrue
  BY OpenIsTrue DEF OpenIncidentsAreTrue
<1> QED
  BY <1>1, Tracking, PTL

-----------------------------------------------------------------------------
(***************************************************************************)
(* The events: what each handler notices of one.                           *)
(***************************************************************************)
EventHandlers ==
  {"OffenceReportedEvent", "CommissionChangedEvent", "UnbondedEvent", "TransferIngressEvent", "TransferEgressEvent",
   "AssetTransferIngressEvent", "AssetTransferEgressEvent", "IdentityChangedEvent", "XcmTransferEgressEvent"}

IsXcm(e) == e.name \in {"polkadotxcm.Sent", "xcmpallet.Sent"}
IsIdentity(e) == e.name \in {"identity.IdentitySet", "identity.IdentityCleared", "identity.IdentityKilled"}
IsTransfer(e) == e.name \in {"assets.Transferred", "ormlTokens.Transfer"}

\* A handler reports an event for an entry of its registry.
Notices(r, c, h, e) ==
  /\ h \in EventHandlers
  /\ h = "OffenceReportedEvent" => e.name = "staking.OffenceReported" /\ c.account = e.who
  /\ h = "CommissionChangedEvent" => e.name = "staking.ValidatorPrefsSet" /\ c.account = e.who
  /\ h = "UnbondedEvent" => e.name = "staking.Unbonded" /\ c.account = e.who
  /\ h = "TransferIngressEvent" => e.name = "balances.Transfer" /\ c.account = e.to
  /\ h = "TransferEgressEvent" => e.name = "balances.Transfer" /\ c.account = e.from
  /\ h = "AssetTransferIngressEvent" => IsTransfer(e) /\ c.account = e.to /\ e.token \in TokensOf(c)
  /\ h = "AssetTransferEgressEvent" => IsTransfer(e) /\ c.account = e.from /\ e.token \in TokensOf(c)
  /\ h = "IdentityChangedEvent" => IsIdentity(e) /\ c.account = FindAddressByParent(r, now, e.who)
  /\ h = "XcmTransferEgressEvent" =>
       IsXcm(e) /\ ParseLocation(e.origin) # None /\ c.account = ParseLocation(e.origin)

TokenFor(h, e) == IF h \in {"AssetTransferIngressEvent", "AssetTransferEgressEvent"} THEN e.token ELSE None

\* The reports have the keys of what handlers H notice of an event.
AreReports(reports, r, H, e) ==
  /\ \A x \in reports : \E h \in H : \E c \in Watched(r, h) : Notices(r, c, h, e) /\ x.key = Key(c, h, TokenFor(h, e))
  /\ \A h \in H : \A c \in Watched(r, h) :
       Notices(r, c, h, e) => \E x \in reports : x.key = Key(c, h, TokenFor(h, e))

LEMMA TheseReports ==
  ASSUME NEW r, NEW e, NEW h, NEW cs \in SUBSET Watched(r, h), NEW token, NEW what, token = TokenFor(h, e),
         \A c \in Watched(r, h) : Notices(r, c, h, e) <=> c \in cs
  PROVE  AreReports({Report(c, h, token, what) : c \in cs}, r, {h}, e)
<1>1. \A c : Report(c, h, token, what).key = Key(c, h, token)
  BY DEF Report
<1>2. ASSUME NEW x \in {Report(c, h, token, what) : c \in cs}
      PROVE  \E c \in Watched(r, h) : Notices(r, c, h, e) /\ x.key = Key(c, h, token)
  BY <1>1
<1>3. ASSUME NEW c \in Watched(r, h), Notices(r, c, h, e)
      PROVE  \E x \in {Report(d, h, token, what) : d \in cs} : x.key = Key(c, h, token)
  <2>1. Report(c, h, token, what) \in {Report(d, h, token, what) : d \in cs}
    BY <1>3
  <2> QED
    BY <1>1, <2>1
<1> QED
  BY <1>2, <1>3 DEF AreReports

LEMMA MatchedReports ==
  ASSUME NEW r, NEW e, NEW h \in EventHandlers, NEW a, NEW what,
         \A c : Notices(r, c, h, e) <=> c.account = a, TokenFor(h, e) = None
  PROVE  AreReports(ReportAll(Matched(r, h, a), h, what), r, {h}, e)
<1> DEFINE cs == Matched(r, h, a)
<1>1. cs \in SUBSET Watched(r, h) /\ \A c \in Watched(r, h) : Notices(r, c, h, e) <=> c \in cs
  BY DEF Matched
<1> HIDE DEF cs
<1>2. AreReports({Report(c, h, None, what) : c \in cs}, r, {h}, e)
  BY <1>1, TheseReports
<1> QED
  BY <1>2 DEF ReportAll, cs

LEMMA NoReports ==
  ASSUME NEW r, NEW e, NEW H, \A h \in H : \A c : ~Notices(r, c, h, e)
  PROVE  AreReports({}, r, H, e)
  BY DEF AreReports

LEMMA BothReports ==
  ASSUME NEW r, NEW e, NEW H, NEW J, NEW xs, NEW ys, AreReports(xs, r, H, e), AreReports(ys, r, J, e)
  PROVE  AreReports(xs \union ys, r, H \union J, e)
  BY DEF AreReports

LEMMA StakingReports ==
  ASSUME NEW r, NEW e
  PROVE  AreReports(StakingEvents(r, e), r, {"OffenceReportedEvent", "CommissionChangedEvent", "UnbondedEvent"}, e)
<1> DEFINE part(name, h, what) == IF e.name # name THEN {} ELSE ReportAll(Matched(r, h, e.who), h, what)
<1>1. AreReports(part("staking.OffenceReported", "OffenceReportedEvent", e.name), r, {"OffenceReportedEvent"}, e)
  <2>1. \A c : Notices(r, c, "OffenceReportedEvent", e) <=> e.name = "staking.OffenceReported" /\ c.account = e.who
    BY DEF Notices, EventHandlers
  <2> QED
    BY <2>1, MatchedReports, NoReports DEF EventHandlers, TokenFor
<1>2. AreReports(part("staking.ValidatorPrefsSet", "CommissionChangedEvent", e.amount), r, {"CommissionChangedEvent"}, e)
  <2>1. \A c : Notices(r, c, "CommissionChangedEvent", e) <=> e.name = "staking.ValidatorPrefsSet" /\ c.account = e.who
    BY DEF Notices, EventHandlers
  <2> QED
    BY <2>1, MatchedReports, NoReports DEF EventHandlers, TokenFor
<1>3. AreReports(part("staking.Unbonded", "UnbondedEvent", e.amount), r, {"UnbondedEvent"}, e)
  <2>1. \A c : Notices(r, c, "UnbondedEvent", e) <=> e.name = "staking.Unbonded" /\ c.account = e.who
    BY DEF Notices, EventHandlers
  <2> QED
    BY <2>1, MatchedReports, NoReports DEF EventHandlers, TokenFor
<1>4. StakingEvents(r, e) =
        part("staking.OffenceReported", "OffenceReportedEvent", e.name)
        \union part("staking.ValidatorPrefsSet", "CommissionChangedEvent", e.amount)
        \union part("staking.Unbonded", "UnbondedEvent", e.amount)
  BY DEF StakingEvents
<1>5. {"OffenceReportedEvent", "CommissionChangedEvent", "UnbondedEvent"}
        = ({"OffenceReportedEvent"} \union {"CommissionChangedEvent"}) \union {"UnbondedEvent"}
  OBVIOUS
<1> HIDE DEF part
<1>6. AreReports(part("staking.OffenceReported", "OffenceReportedEvent", e.name)
                   \union part("staking.ValidatorPrefsSet", "CommissionChangedEvent", e.amount),
                 r, {"OffenceReportedEvent"} \union {"CommissionChangedEvent"}, e)
  BY <1>1, <1>2, BothReports
<1> QED
  BY <1>3, <1>4, <1>5, <1>6, BothReports

LEMMA TransferReports ==
  ASSUME NEW r, NEW e
  PROVE  AreReports(BalancesTransfers(r, e), r, {"TransferIngressEvent", "TransferEgressEvent"}, e)
<1>1. \A c : /\ Notices(r, c, "TransferIngressEvent", e) <=> e.name = "balances.Transfer" /\ c.account = e.to
             /\ Notices(r, c, "TransferEgressEvent", e) <=> e.name = "balances.Transfer" /\ c.account = e.from
  BY DEF Notices, EventHandlers
<1>2. CASE e.name # "balances.Transfer"
  BY <1>1, <1>2, NoReports DEF BalancesTransfers
<1>3. CASE e.name = "balances.Transfer"
  <2> DEFINE ins == ReportAll(Matched(r, "TransferIngressEvent", e.to), "TransferIngressEvent", <<e.from, e.amount>>)
             outs == ReportAll(Matched(r, "TransferEgressEvent", e.from), "TransferEgressEvent", <<e.to, e.amount>>)
  <2>1. AreReports(ins, r, {"TransferIngressEvent"}, e)
    BY <1>1, <1>3, MatchedReports DEF EventHandlers, TokenFor
  <2>2. AreReports(outs, r, {"TransferEgressEvent"}, e)
    BY <1>1, <1>3, MatchedReports DEF EventHandlers, TokenFor
  <2>3. BalancesTransfers(r, e) = ins \union outs
    BY <1>3 DEF BalancesTransfers
  <2>4. {"TransferIngressEvent", "TransferEgressEvent"} = {"TransferIngressEvent"} \union {"TransferEgressEvent"}
    OBVIOUS
  <2> HIDE DEF ins, outs
  <2> QED
    BY <2>1, <2>2, <2>3, <2>4, BothReports
<1> QED
  BY <1>2, <1>3

LEMMA AssetReports ==
  ASSUME NEW r, NEW e
  PROVE  AreReports(AssetTransfers(r, e), r, {"AssetTransferIngressEvent", "AssetTransferEgressEvent"}, e)
<1>1. \A c :
        /\ Notices(r, c, "AssetTransferIngressEvent", e) <=> IsTransfer(e) /\ c.account = e.to /\ e.token \in TokensOf(c)
        /\ Notices(r, c, "AssetTransferEgressEvent", e) <=> IsTransfer(e) /\ c.account = e.from /\ e.token \in TokensOf(c)
  BY DEF Notices, EventHandlers
<1>2. CASE ~IsTransfer(e)
  BY <1>1, <1>2, NoReports DEF AssetTransfers, IsTransfer
<1>3. CASE IsTransfer(e)
  <2> DEFINE Moved(h, a, what) == {Report(c, h, e.token, what) :
                                     c \in {c \in Matched(r, h, a) : e.token \in TokensOf(c)}}
             ins == Moved("AssetTransferIngressEvent", e.to, <<e.from, e.amount>>)
             outs == Moved("AssetTransferEgressEvent", e.from, <<e.to, e.amount>>)
  <2>0. ASSUME NEW h, NEW a, NEW what, TokenFor(h, e) = e.token,
               \A c : Notices(r, c, h, e) <=> IsTransfer(e) /\ c.account = a /\ e.token \in TokensOf(c)
        PROVE  AreReports(Moved(h, a, what), r, {h}, e)
    <3> DEFINE cs == {c \in Matched(r, h, a) : e.token \in TokensOf(c)}
    <3>1. cs \in SUBSET Watched(r, h) /\ \A c \in Watched(r, h) : Notices(r, c, h, e) <=> c \in cs
      BY <1>3, <2>0 DEF Matched
    <3> HIDE DEF cs
    <3>2. AreReports({Report(c, h, e.token, what) : c \in cs}, r, {h}, e)
      BY <2>0, <3>1, TheseReports
    <3> QED
      BY <3>2 DEF cs
  <2>1. AreReports(ins, r, {"AssetTransferIngressEvent"}, e)
    <3> HIDE DEF Moved
    <3> QED
      BY <1>1, <2>0 DEF TokenFor
  <2>2. AreReports(outs, r, {"AssetTransferEgressEvent"}, e)
    <3> HIDE DEF Moved
    <3> QED
      BY <1>1, <2>0 DEF TokenFor
  <2>3. AssetTransfers(r, e) = ins \union outs
    BY <1>3 DEF AssetTransfers, IsTransfer
  <2>4. {"AssetTransferIngressEvent", "AssetTransferEgressEvent"}
          = {"AssetTransferIngressEvent"} \union {"AssetTransferEgressEvent"}
    OBVIOUS
  <2> HIDE DEF ins, outs
  <2> QED
    BY <2>1, <2>2, <2>3, <2>4, BothReports
<1> QED
  BY <1>2, <1>3

LEMMA IdentityReports ==
  ASSUME NEW r, NEW e
  PROVE  AreReports(IdentityChanged(r, now, prev, e), r, {"IdentityChangedEvent"}, e)
<1>1. \A c : Notices(r, c, "IdentityChangedEvent", e) <=> IsIdentity(e) /\ c.account = FindAddressByParent(r, now, e.who)
  BY DEF Notices, EventHandlers
<1>2. CASE ~IsIdentity(e)
  BY <1>1, <1>2, NoReports DEF IdentityChanged, IsIdentity
<1>3. CASE IsIdentity(e)
  BY <1>1, <1>3, MatchedReports DEF IdentityChanged, IsIdentity, EventHandlers, TokenFor
<1> QED
  BY <1>2, <1>3

LEMMA XcmReports ==
  ASSUME NEW r, NEW e
  PROVE  AreReports(IF IsXcm(e) THEN XcmTransferEgress(r, e) ELSE {}, r, {"XcmTransferEgressEvent"}, e)
<1> DEFINE h == "XcmTransferEgressEvent"
           origin == ParseLocation(e.origin)
<1>1. \A c : Notices(r, c, h, e) <=> IsXcm(e) /\ origin # None /\ c.account = origin
  BY DEF Notices, EventHandlers
<1>2. CASE ~(IsXcm(e) /\ origin # None)
  BY <1>1, <1>2, NoReports DEF XcmTransferEgress
<1>3. CASE IsXcm(e) /\ origin # None
  <2> DEFINE there == Beneficiary(e.message, e.destination)
             place == <<ParseLocation(there.to), ParseLocation(there.chain)>>
             transfers == XcmTransfers(e.message)
  <2>1. XcmTransferEgress(r, e) =
          {Report(c, h, None, <<place, transfer>>) : c \in Matched(r, h, origin), transfer \in transfers}
    BY <1>3 DEF XcmTransferEgress
  <2>2. PICK transfer : transfer \in transfers
    BY DEF XcmTransfers
  <2> HIDE DEF place, transfers, origin
  <2>3. ASSUME NEW x \in XcmTransferEgress(r, e)
        PROVE  \E c \in Watched(r, h) : Notices(r, c, h, e) /\ x.key = Key(c, h, None)
    BY <1>1, <1>3, <2>1 DEF Report, Matched
  <2>4. ASSUME NEW c \in Watched(r, h), Notices(r, c, h, e)
        PROVE  \E x \in XcmTransferEgress(r, e) : x.key = Key(c, h, None)
    <3>1. c \in Matched(r, h, origin)
      BY <1>1, <2>4 DEF Matched
    <3>2. Report(c, h, None, <<place, transfer>>) \in XcmTransferEgress(r, e)
      BY <2>1, <2>2, <3>1
    <3> QED
      BY <3>2 DEF Report
  <2> QED
    BY <1>3, <2>3, <2>4 DEF AreReports, TokenFor
<1> QED
  BY <1>2, <1>3

LEMMA EventReportsAre ==
  ASSUME NEW r, NEW e
  PROVE  /\ \A x \in EventReports(r, now, prev, e) :
              x.key.handler = "ReferendaSubmittedEvent"
                \/ \E h \in EventHandlers : \E c \in Watched(r, h) :
                     Notices(r, c, h, e) /\ x.key = Key(c, h, TokenFor(h, e))
         /\ \A h \in EventHandlers : \A c \in Watched(r, h) :
              Notices(r, c, h, e) => \E x \in EventReports(r, now, prev, e) : x.key = Key(c, h, TokenFor(h, e))
<1> DEFINE xcm == IF IsXcm(e) THEN XcmTransferEgress(r, e) ELSE {}
           all == (((StakingEvents(r, e) \union BalancesTransfers(r, e)) \union AssetTransfers(r, e))
                   \union IdentityChanged(r, now, prev, e)) \union xcm
           H == ((({"OffenceReportedEvent", "CommissionChangedEvent", "UnbondedEvent"}
                   \union {"TransferIngressEvent", "TransferEgressEvent"})
                   \union {"AssetTransferIngressEvent", "AssetTransferEgressEvent"})
                   \union {"IdentityChangedEvent"}) \union {"XcmTransferEgressEvent"}
<1>1. AreReports(xcm, r, {"XcmTransferEgressEvent"}, e)
  BY XcmReports
<1> HIDE DEF xcm
<1>2. AreReports(all, r, H, e)
  BY <1>1, StakingReports, TransferReports, AssetReports, IdentityReports, BothReports
<1>3. H = EventHandlers
  BY DEF EventHandlers
<1> HIDE DEF H
<1>4. EventReports(r, now, prev, e) = all \union ReferendaSubmitted(r, now, e)
  BY DEF EventReports, xcm, IsXcm
<1>5. \A x \in ReferendaSubmitted(r, now, e) : x.key.handler = "ReferendaSubmittedEvent"
  BY DEF ReferendaSubmitted, Report, Key
<1> HIDE DEF all
<1> QED
  BY <1>2, <1>3, <1>4, <1>5 DEF AreReports

-----------------------------------------------------------------------------
(***************************************************************************)
(* What is noticed of an event is what concerns some wish.                 *)
(***************************************************************************)
LEMMA FoundIs ==
  ASSUME WorldsAreTyped, HappeningsAreClear, TrackInv, "Identity" \in Monitor, NEW h,
         NEW c \in Watched(monitors["Identity"], h), NEW who
  PROVE  c.account = FindAddressByParent(monitors["Identity"], now, who) <=> ParentOf(now, c.account) = who
<1> DEFINE r == monitors["Identity"]
           own == {i \in DOMAIN r.accounts : ParentOf(now, r.accounts[i].account) = who}
           first == CHOOSE i \in own : \A j \in own : i <= j
<1>1. "Identity" \in DOMAIN InitializeMonitors(world) /\ r = InitializeMonitors(world)["Identity"] /\ world \in DOMAIN Worlds
  BY DEF TrackInv, Monitor
<1>2. FindAddressByParent(r, now, who) = IF own = {} THEN None ELSE r.accounts[first].account
  BY DEF FindAddressByParent
<1>3. c \in ToSet(r.accounts)
  BY DEF Watched
<1>4. ASSUME NEW d \in ToSet(r.accounts)
      PROVE  \E x \in WishesIn(world) : x.handler \in MonitorHandlers["Identity"] /\ x.account = d.account
  BY <1>1, EntryIsWished
<1>5. ASSUME NEW d \in ToSet(r.accounts), ParentOf(now, d.account) = ParentOf(now, c.account)
      PROVE  d.account = c.account
  BY <1>1, <1>3, <1>4, <1>5 DEF HappeningsAreClear, TrackInv
<1>6. c.account # None
  BY <1>1, <1>3, <1>4 DEF HappeningsAreClear
<1>7. own # {} => first \in own
  <2>1. IsList(r.accounts)
    BY <1>1, RegistryIsList
  <2>2. own \in SUBSET Nat
    BY <2>1, ListIs
  <2> HIDE DEF own
  <2> QED
    BY <2>2, HasFirst
<1> HIDE DEF first
<1>8. ASSUME c.account = FindAddressByParent(r, now, who) PROVE ParentOf(now, c.account) = who
  BY <1>2, <1>6, <1>7, <1>8
<1>9. ASSUME ParentOf(now, c.account) = who PROVE c.account = FindAddressByParent(r, now, who)
  <2>1. own # {}
    BY <1>3, <1>9 DEF ToSet
  <2>2. r.accounts[first] \in ToSet(r.accounts) /\ ParentOf(now, r.accounts[first].account) = who
    BY <1>7, <2>1 DEF ToSet
  <2> QED
    BY <1>2, <1>5, <1>9, <2>1, <2>2
<1> QED
  BY <1>8, <1>9

\* What is noticed of an event for an entry is what concerns its wish.
LEMMA NoticesAreRight ==
  ASSUME WorldsAreTyped, HappeningsAreClear, TrackInv, NEW x \in Wishes, NEW type \in Monitor,
         NEW c \in Watched(monitors[type], x.handler), IsWished(c, x, type),
         NEW b \in Worlds[world].blocks, NEW e \in ToSet(b.events)
  PROVE  Notices(monitors[type], c, x.handler, e) <=> Concerns(x, e)
<1>1. c.account = x.account
  BY DEF IsWished, IsEntryFor
<1>2. x.account # None
  BY DEF HappeningsAreClear, TrackInv, Wishes
<1>3. CASE x.handler \in {"OffenceReportedEvent", "CommissionChangedEvent", "UnbondedEvent"}
  BY <1>1, <1>3 DEF Notices, Concerns, EventHandlers
<1>4. CASE x.handler \in {"TransferIngressEvent", "TransferEgressEvent"}
  BY <1>1, <1>4 DEF Notices, Concerns, EventHandlers
<1>5. CASE x.handler \in {"AssetTransferIngressEvent", "AssetTransferEgressEvent"}
  <2>1. type = "Assets"
    BY <1>5 DEF IsWished, MonitorHandlers
  <2>2. TokensOf(c) = Or(Wanted(x, "tokens"), {})
    BY <2>1, SettingIs DEF TokensOf, IsWished, MonitorTypeKeys, Amounts
  <2>3. IsTransfer(e) <=> e.name = "assets.Transferred"
    BY DEF HappeningsAreClear, TrackInv, IsTransfer
  <2> QED
    BY <1>1, <1>5, <2>2, <2>3 DEF Notices, Concerns, EventHandlers
<1>6. CASE x.handler = "IdentityChangedEvent"
  <2>1. type = "Identity"
    BY <1>6 DEF IsWished, MonitorHandlers
  <2>2. c.account = FindAddressByParent(monitors[type], now, e.who) <=> ParentOf(now, x.account) = e.who
    BY <1>1, <2>1, FoundIs
  <2>3. ParentOf(now, x.account) = Or(Lookup(now.superOf, x.account), x.account)
    BY DEF ParentOf, IdentitySuperOf
  <2> QED
    BY <1>6, <2>2, <2>3 DEF Notices, Concerns, EventHandlers, IsIdentity
<1>7. CASE x.handler = "XcmTransferEgressEvent"
  <2> DEFINE origin == e.origin
  <2>1. IsXcm(e) => (ParseLocation(origin) = x.account => origin.junction = "AccountId32")
    BY DEF HappeningsAreClear, TrackInv, Wishes, IsXcm
  <2>2. Notices(monitors[type], c, x.handler, e) <=> IsXcm(e) /\ ParseLocation(origin) = x.account
    BY <1>1, <1>2, <1>7 DEF Notices, EventHandlers
  <2>3. Concerns(x, e) <=> /\ IsXcm(e) /\ origin # None /\ origin.interior = "X1"
                           /\ origin.junction = "AccountId32" /\ origin.value = x.account
    BY <1>7 DEF Concerns, IsXcm
  <2>4. ParseLocation(origin) = IF origin = None THEN None
          ELSE IF origin.interior = "X1" /\ origin.junction \in {"AccountId32", "AccountKey20", "Parachain"}
               THEN origin.value ELSE None
    BY DEF ParseLocation
  <2> HIDE DEF origin
  <2> QED
    BY <1>2, <2>1, <2>2, <2>3, <2>4
<1>8. CASE x.handler \notin EventHandlers
  BY <1>8 DEF Notices, Concerns, EventHandlers
<1> QED
  BY <1>3, <1>4, <1>5, <1>6, <1>7, <1>8 DEF EventHandlers

\* The keys that the reports of an event have.
LEMMA EventKeysAre ==
  ASSUME WorldsAreTyped, HappeningsAreClear, TrackInv, NEW b \in Worlds[world].blocks, NEW e \in ToSet(b.events), NEW k
  PROVE  /\ k.handler # "ReferendaSubmittedEvent"
         /\ \E m \in Monitor : \E y \in EventReports(monitors[m], now, prev, e) : y.key = k
         <=> \E x \in Wishes : Concerns(x, e) /\ k = IncidentOf(x, TokenOf(x, e))
<1>1. ASSUME NEW m \in Monitor, NEW y \in EventReports(monitors[m], now, prev, e),
             y.key = k, k.handler # "ReferendaSubmittedEvent"
      PROVE  \E x \in Wishes : Concerns(x, e) /\ k = IncidentOf(x, TokenOf(x, e))
  <2>1. PICK h \in EventHandlers : \E c \in Watched(monitors[m], h) :
               Notices(monitors[m], c, h, e) /\ k = Key(c, h, TokenFor(h, e))
    BY <1>1, EventReportsAre
  <2>2. PICK c \in Watched(monitors[m], h) : Notices(monitors[m], c, h, e) /\ k = Key(c, h, TokenFor(h, e))
    BY <2>1
  <2>3. m \in DOMAIN InitializeMonitors(world) /\ monitors[m] = InitializeMonitors(world)[m]
    BY DEF TrackInv, Monitor
  <2>4. /\ m \in DOMAIN MonitorHandlers /\ h \in MonitorHandlers[m]
        /\ \E x \in WishesIn(world) : x.handler = h /\ IsEntryFor(c, x, m, ChainOf(world))
    BY <2>2, <2>3, WatchedIsWished DEF TrackInv
  <2>5. PICK x \in Wishes : x.handler = h /\ IsEntryFor(c, x, m, Chain)
    BY <2>4 DEF ChainOf, Chain, Wishes
  <2>6. IsWished(c, x, m)
    BY <2>4, <2>5, WishIsOfWorld
  <2>7. Concerns(x, e)
    BY <2>2, <2>5, <2>6, NoticesAreRight
  <2>8. k = IncidentOf(x, TokenOf(x, e))
    BY <2>2, <2>5, KeyIs DEF IsEntryFor, TokenFor, TokenOf
  <2> QED
    BY <2>7, <2>8
<1>2. ASSUME NEW x \in Wishes, Concerns(x, e), k = IncidentOf(x, TokenOf(x, e))
      PROVE  /\ k.handler # "ReferendaSubmittedEvent"
             /\ \E m \in Monitor : \E y \in EventReports(monitors[m], now, prev, e) : y.key = k
  <2>1. PICK type \in Monitor : \E c \in Watched(monitors[type], x.handler) : IsWished(c, x, type)
    BY WishHasEntry
  <2>2. PICK c \in Watched(monitors[type], x.handler) : IsWished(c, x, type)
    BY <2>1
  <2>3. Notices(monitors[type], c, x.handler, e)
    BY <1>2, <2>2, NoticesAreRight
  <2>4. x.handler \in EventHandlers
    BY <2>3 DEF Notices
  <2>5. PICK y \in EventReports(monitors[type], now, prev, e) : y.key = Key(c, x.handler, TokenFor(x.handler, e))
    BY <2>2, <2>3, <2>4, EventReportsAre
  <2>6. y.key = k
    BY <1>2, <2>2, <2>5, KeyIs DEF IsWished, IsEntryFor, TokenFor, TokenOf
  <2>7. k.handler # "ReferendaSubmittedEvent"
    BY <1>2, <2>4 DEF IncidentOf, Key, EventHandlers
  <2> QED
    BY <2>6, <2>7
<1> QED
  BY <1>1, <1>2

-----------------------------------------------------------------------------
(***************************************************************************)
(* What is reported, through the attempts.                                 *)
(***************************************************************************)
\* Of a block that is processed all events are reported, and nothing else has their places.
EventInv ==
  /\ world \in DOMAIN Worlds /\ block \in Worlds[world].blocks \union {Quiet}
  /\ \A x \in made : Len(x[2]) = 1 => x \in Positions(EventOutcome)
  /\ pc = "done" => Positions(EventOutcome) \subseteq made

LEMMA OtherPlaces ==
  ASSUME NEW areCached, NEW x \in StateOutcome(areCached) \union CallOutcome
  PROVE  Len(Position(x)[2]) # 1
  BY StateOutcomeIs, CallOutcomeSays DEF Position

LEMMA EventsReported == Spec => []EventInv
<1>1. Init => EventInv
  BY DEF Init, EventInv
<1>2. ASSUME EventInv, [Next]_vars
      PROVE  EventInv'
  <2>1. CASE Attempt
    <3>1. UNCHANGED <<world, block>> /\ EventOutcome' = EventOutcome
      BY <2>1 DEF Attempt, EventOutcome, Monitor
    <3>2. ASSUME NEW xs, NEW areCached, xs \subseteq StateOutcome(areCached) \union EventOutcome \union CallOutcome,
                 made' = made \union Positions(xs)
          PROVE  \A x \in made' : Len(x[2]) = 1 => x \in Positions(EventOutcome)
      BY <1>2, <3>2, OtherPlaces DEF EventInv, Positions
    <3>3. PICK areCached \in BOOLEAN : Completes(areCached) \/ Fails(areCached)
      BY <2>1 DEF Attempt
    <3>4. CASE Completes(areCached)
      <4>1. PICK done \in SUBSET CallOutcome :
              made' = made \union Positions(StateOutcome(areCached) \union EventOutcome \union done)
        BY <3>4 DEF Completes
      <4> DEFINE xs == StateOutcome(areCached) \union EventOutcome \union done
      <4>2. Positions(EventOutcome) \subseteq made'
        BY <4>1 DEF Positions
      <4>3. \A x \in made' : Len(x[2]) = 1 => x \in Positions(EventOutcome)
        <5>1. xs \subseteq StateOutcome(areCached) \union EventOutcome \union CallOutcome /\ made' = made \union Positions(xs)
          BY <4>1
        <5> HIDE DEF xs
        <5> QED
          BY <3>2, <5>1
      <4> QED
        BY <1>2, <3>1, <4>2, <4>3 DEF EventInv
    <3>5. CASE Fails(areCached)
      <4>1. PICK done \in SUBSET (StateOutcome(areCached) \union EventOutcome) : made' = made \union Positions(done)
        BY <3>5 DEF Fails
      <4>2. pc' = "retry"
        BY <3>5 DEF Fails
      <4>3. \A x \in made' : Len(x[2]) = 1 => x \in Positions(EventOutcome)
        BY <3>2, <4>1
      <4> QED
        BY <1>2, <3>1, <4>2, <4>3 DEF EventInv
    <3> QED
      BY <3>3, <3>4, <3>5
  <2>2. CASE NextBlock
    BY <1>2, <2>2 DEF EventInv, NextBlock
  <2>3. CASE UNCHANGED vars
    <3>1. UNCHANGED <<world, block, made, pc>> /\ EventOutcome' = EventOutcome
      BY <2>3 DEF vars, EventOutcome, Monitor
    <3> QED
      BY <1>2, <3>1 DEF EventInv
  <2> QED
    BY <1>2, <2>1, <2>2, <2>3 DEF Next
<1> QED
  BY <1>1, <1>2, PTL DEF Spec

LEMMA EventPositions ==
  ASSUME NEW x
  PROVE  x \in Positions(EventOutcome)
           <=> \E i \in DOMAIN block.events : \E m \in Monitor :
                 \E y \in EventReports(monitors[m], now, prev, block.events[i]) : x = <<y.key, <<i>>>>
<1> DEFINE reports(i) == UNION {EventReports(monitors[m], now, prev, block.events[i]) : m \in Monitor}
           placed(y, i) == [key |-> y.key, at |-> <<i>>, what |-> y.what]
<1>1. EventOutcome = UNION {{placed(y, i) : y \in reports(i)} : i \in DOMAIN block.events}
  BY DEF EventOutcome, At
<1>2. \A y, i : Position(placed(y, i)) = <<y.key, <<i>>>>
  BY DEF Position
<1> HIDE DEF placed, reports
<1>3. x \in Positions(EventOutcome) <=> \E i \in DOMAIN block.events : \E y \in reports(i) : x = Position(placed(y, i))
  BY <1>1 DEF Positions
<1>4. x \in Positions(EventOutcome) <=> \E i \in DOMAIN block.events : \E y \in reports(i) : x = <<y.key, <<i>>>>
  BY <1>2, <1>3
<1> QED
  BY <1>4 DEF reports

LEMMA HappeningsReported ==
  ASSUME WorldsAreTyped, HappeningsAreClear, TrackInv, EventInv, pc = "done"
  PROVE  {x \in made : Len(x[2]) = 1 /\ x[1].handler # "ReferendaSubmittedEvent"} =
           UNION {{<<IncidentOf(w, TokenOf(w, block.events[i])), <<i>>>> :
                     w \in {w \in Wishes : Concerns(w, block.events[i])}} : i \in DOMAIN block.events}
<1> DEFINE told == {x \in made : Len(x[2]) = 1 /\ x[1].handler # "ReferendaSubmittedEvent"}
           due(i) == {<<IncidentOf(w, TokenOf(w, block.events[i])), <<i>>>> :
                        w \in {w \in Wishes : Concerns(w, block.events[i])}}
           Happens(i, k) == \E m \in Monitor : \E y \in EventReports(monitors[m], now, prev, block.events[i]) : y.key = k
<1>1. ASSUME NEW i \in DOMAIN block.events, NEW k
      PROVE  k.handler # "ReferendaSubmittedEvent" /\ Happens(i, k)
               <=> \E w \in Wishes : Concerns(w, block.events[i]) /\ k = IncidentOf(w, TokenOf(w, block.events[i]))
  <2>1. block \in Worlds[world].blocks
    BY DEF EventInv, Quiet
  <2>2. block.events[i] \in ToSet(block.events)
    BY DEF ToSet
  <2> QED
    BY <2>1, <2>2, EventKeysAre
<1>2. ASSUME NEW x
      PROVE  x \in told <=> \E i \in DOMAIN block.events : \E k : /\ x = <<k, <<i>>>> /\ Happens(i, k)
                                                                 /\ k.handler # "ReferendaSubmittedEvent"
  <2>1. x \in told <=> x \in Positions(EventOutcome) /\ Len(x[2]) = 1 /\ x[1].handler # "ReferendaSubmittedEvent"
    BY DEF EventInv
  <2>2. x \in Positions(EventOutcome) <=> \E i \in DOMAIN block.events : \E k : x = <<k, <<i>>>> /\ Happens(i, k)
    BY EventPositions
  <2>3. \A k, i : <<k, <<i>>>>[1] = k /\ Len(<<k, <<i>>>>[2]) = 1
    OBVIOUS
  <2> HIDE DEF told, Happens
  <2> QED
    BY <2>1, <2>2, <2>3
<1>3. ASSUME NEW x, NEW i \in DOMAIN block.events
      PROVE  x \in due(i) <=> \E w \in Wishes : /\ Concerns(w, block.events[i])
                                                /\ x = <<IncidentOf(w, TokenOf(w, block.events[i])), <<i>>>>
  OBVIOUS
<1> HIDE DEF told, due, Happens
<1>4. told = UNION {due(i) : i \in DOMAIN block.events}
  <2>1. ASSUME NEW x PROVE x \in told <=> \E i \in DOMAIN block.events : x \in due(i)
    BY <1>1, <1>2, <1>3
  <2> QED
    BY <2>1
<1> QED
  BY <1>4 DEF told, due

\* Every event is reported, at its place, for each account it concerns and whose group
\* wants to know, and for no other, for any configuration and any block.
THEOREM EventsAreReported ==
  ASSUME WorldsAreTyped, HappeningsAreClear
  PROVE  Spec => []HappeningsAreReported
<1>1. TrackInv /\ EventInv => HappeningsAreReported
  BY HappeningsReported DEF HappeningsAreReported
<1> QED
  BY <1>1, Tracking, EventsReported, PTL
=============================================================================
