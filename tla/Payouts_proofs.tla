--------------------------- MODULE Payouts_proofs ---------------------------
(***************************************************************************)
(* Proofs about the payouts job.  IInv says what a run has behind it,      *)
(* group by group: whose the claims are; that a group that is through has  *)
(* claimed what was due in the block it started from; that what is due and *)
(* not yet claimed can still be, as long as nothing came from outside; and *)
(* what the channels have been told.                                       *)
(***************************************************************************)
EXTENDS Payouts, TLAPS

Accounts == Range(config.accounts)

\* A group for each chain and signer of the accounts, and an account for each stash
\* of a chain.
Planned ==
  /\ config.plan = BuildPlan(config.accounts) /\ config.rejected \in BOOLEAN
  /\ \A a, b \in Accounts : SameAccount(a, b) => a = b

\* What a run reads of a chain.
Snapshot(chain) == [era : Nat, claimed : SUBSET Pages(chain)]
Page == UNION {Pages(c) : c \in PayoutChains}

Run ==
  [pc : {"idle", "connecting", "scanning", "claiming", "threw", "over"},
   group : config.plan \union {None}, left : SUBSET config.plan,
   at : (UNION {Snapshot(c) : c \in PayoutChains}) \union {None},
   pending : SUBSET Page, submitted : SUBSET Page,
   rejected : BOOLEAN, anyFailure : BOOLEAN, code : {None, 0, 1}]

Audit ==
  [at : [PayoutChains -> (UNION {Snapshot(c) : c \in PayoutChains}) \union {None}],
   claims : SUBSET (PayoutChains \X Page),
   failed : SUBSET {<<a.chain, a.ss58>> : a \in Accounts},
   lost : SUBSET UNION {Routed(a) : a \in Accounts}, cause : BOOLEAN]

TypeOK ==
  /\ Planned /\ run \in Run /\ audit \in Audit
  /\ activeEra \in [PayoutChains -> Nat]
  /\ best \in [PayoutChains -> SUBSET Page] /\ final \in [PayoutChains -> SUBSET Page]
  /\ \A c \in PayoutChains :
       /\ best[c] \subseteq Pages(c) /\ final[c] \subseteq Pages(c)
       /\ audit.at[c] # None =>
            audit.at[c] \in Snapshot(c) /\ audit.at[c].era <= activeEra[c]

-----------------------------------------------------------------------------
IsAtWork == run.pc # "idle"
Begun == config.plan \ run.left
Through == IF run.code = 0 THEN config.plan ELSE Begun \ {run.group}

\* Where the run is: chains are taken one after the other.
Placed ==
  /\ run.pc # "over"
  /\ IsAtWork =>
       /\ run.code = None /\ run.group \in Begun
       /\ \A g \in Begun, h \in run.left : g.chain = h.chain => h.chain = run.group.chain
  /\ run.pc = "connecting" => \A g \in Begun : g.chain = run.group.chain => g = run.group
  /\ run.pc \in {"connecting", "scanning"} => run.submitted = {} /\ ~run.rejected
  /\ run.pc \in {"scanning", "claiming", "threw"} =>
       Chain \in PayoutChains /\ run.at # None /\ run.at = audit.at[Chain]

Stashes(g) == {a.ss58 : a \in Members(g)}

\* Every claim is the run's, for a group that has begun, and no page is claimed twice.
Claims ==
  IsAtWork =>
    /\ \A c \in audit.claims :
         \E g \in Begun :
           /\ g.chain = c[1] /\ c[2].stash \in Stashes(g)
           /\ g = run.group => c[2] \in run.submitted
    /\ \A p \in run.submitted : <<Chain, p>> \in audit.claims
    /\ run.pc = "claiming" =>
         /\ run.pending \subseteq Pending(Chain, run.at, Group)
         /\ \A p \in run.pending : <<Chain, p>> \notin audit.claims
         /\ ~run.rejected => Pending(Chain, run.at, Group) \subseteq run.pending \union run.submitted

\* What was due, and unclaimed, when the run read the chain.
DueAt(chain) ==
  {p \in Pages(chain) : Due(audit.at[chain].era, p) /\ p \notin audit.at[chain].claimed}

HasClaimed(g) ==
  /\ g.chain \in PayoutChains /\ audit.at[g.chain] # None
  /\ \A p \in DueAt(g.chain) : p.stash \in Stashes(g) => <<g.chain, p>> \in audit.claims

\* A group that is through has claimed all that was due.
Successes ==
  (IsAtWork /\ ~run.anyFailure) \/ run.code = 0 => \A g \in Through : HasClaimed(g)

\* What is due, and not claimed by the run, can still be claimed.
IsOpen(c) ==
  \A p \in DueAt(c) :
    <<c, p>> \notin audit.claims => p \notin best[c] /\ activeEra[c] <= p.era + HistoryDepth

\* Without a cause from outside nothing fails.
Causeless ==
  /\ run.code = 1 => audit.cause
  /\ IsAtWork /\ ~audit.cause =>
       /\ ~run.anyFailure /\ ~run.rejected /\ run.pc # "threw"
       /\ \A c \in PayoutChains : audit.at[c] # None => IsOpen(c)

IsTrueOf(m) ==
  m.content.ok =>
    \A s \in m.content.accounts :
      /\ \E a \in Payable : a.chain = m.chain /\ a.ss58 = s /\ m.channel \in Routed(a)
      /\ m.content.eras[s] # {}
      /\ \A e \in m.content.eras[s] :
           \E c \in audit.claims : c[1] = m.chain /\ c[2].stash = s /\ c[2].era = e

IsToldOf(a, c) ==
  \A channel \in Routed(a) \ audit.lost :
    \E m \in told : /\ m.chain = c[1] /\ m.channel = channel /\ m.content.ok
                    /\ a.ss58 \in m.content.accounts
                    /\ c[2].era \in m.content.eras[a.ss58]

\* What is told is so, and of a group that is through and has not failed every claim
\* is told.
Reports ==
  /\ \A m \in told : IsTrueOf(m)
  /\ IsAtWork \/ run.code # None =>
       \A c \in audit.claims, a \in Payable :
         a.chain = c[1] /\ a.ss58 = c[2].stash /\ <<c[1], a.ss58>> \notin audit.failed =>
           IsToldOf(a, c) \/ (IsAtWork /\ a \in Group)

IInv == TypeOK /\ Placed /\ Claims /\ Successes /\ Causeless /\ Reports

-----------------------------------------------------------------------------
(***************************************************************************)
(* The pages of a chain.                                                   *)
(***************************************************************************)
LEMMA PageIs ==
  ASSUME NEW c \in PayoutChains, NEW p \in Pages(c)
  PROVE  /\ p = [stash |-> p.stash, era |-> p.era, page |-> p.page]
         /\ p.era \in Nat /\ p.page \in Int /\ p \in Page
         /\ p.stash \in DOMAIN Stakers(c, p.era) /\ p.page < Stakers(c, p.era)[p.stash]
         /\ p.page \in 0 .. Stakers(c, p.era)[p.stash] - 1
<1>1. PICK e \in DOMAIN Overview[c] : \E s \in DOMAIN Stakers(c, e) :
        \E n \in 0 .. Stakers(c, e)[s] - 1 : p = [stash |-> s, era |-> e, page |-> n]
  BY DEF Pages
<1>2. PICK s \in DOMAIN Stakers(c, e) :
        \E n \in 0 .. Stakers(c, e)[s] - 1 : p = [stash |-> s, era |-> e, page |-> n]
  BY <1>1
<1>3. PICK n \in 0 .. Stakers(c, e)[s] - 1 : p = [stash |-> s, era |-> e, page |-> n]
  BY <1>2
<1>4. e \in Nat /\ Stakers(c, e)[s] \in Nat
  BY PayoutsAssumption DEF Stakers, Or, Lookup
<1>5. p.stash = s /\ p.era = e /\ p.page = n
  BY <1>3
<1>6. n < Stakers(c, e)[s] /\ n \in Int
  BY <1>4
<1> QED
  BY <1>3, <1>4, <1>5, <1>6 DEF Page

\* A page of a stash that is elected is one of the chain.
LEMMA IsPage ==
  ASSUME NEW c \in PayoutChains, NEW era, NEW stash \in DOMAIN Stakers(c, era),
         NEW page \in 0 .. Stakers(c, era)[stash] - 1
  PROVE  [stash |-> stash, era |-> era, page |-> page] \in Pages(c)
<1>1. era \in DOMAIN Overview[c]
  BY DEF Stakers, Or, Lookup
<1> QED
  BY <1>1 DEF Pages

LEMMA RangeIsDue ==
  ASSUME NEW active \in Nat, NEW p, p.era \in Nat
  PROVE  p.era \in ClaimableEraRange(active) <=> Due(active, p)
  BY PayoutsAssumption DEF ClaimableEraRange, Due

\* What a group scans for is what is due of its stashes.
LEMMA PendingIsDue ==
  ASSUME NEW c \in PayoutChains, NEW at \in Snapshot(c), NEW accounts, NEW p
  PROVE  p \in Pending(c, at, accounts) <=>
           /\ p \in Pages(c) /\ Due(at.era, p) /\ p \notin at.claimed
           /\ p.stash \in {a.ss58 : a \in accounts}
<1>1. at.era \in Nat /\ at.claimed \subseteq Pages(c)
  BY DEF Snapshot
<1>2. ASSUME p \in Pending(c, at, accounts)
      PROVE  /\ p \in Pages(c) /\ Due(at.era, p) /\ p \notin at.claimed
             /\ p.stash \in {a.ss58 : a \in accounts}
  <2>1. PICK era \in ClaimableEraRange(at.era) :
          \E stash \in {a.ss58 : a \in accounts} \intersect DOMAIN Stakers(c, era) :
            p \in PagesOf(c, at, era, stash)
    BY <1>2 DEF Pending
  <2>2. PICK stash \in {a.ss58 : a \in accounts} \intersect DOMAIN Stakers(c, era) :
          p \in PagesOf(c, at, era, stash)
    BY <2>1
  <2>3. PICK page \in 0 .. Stakers(c, era)[stash] - 1 :
          /\ p = [stash |-> stash, era |-> era, page |-> page]
          /\ page \notin {q.page : q \in {x \in at.claimed : x.stash = stash /\ x.era = era}}
    BY <2>2 DEF PagesOf, UnclaimedPages
  <2>4. p.stash = stash /\ p.era = era /\ p.page = page
    BY <2>3
  <2>5. p \in Pages(c)
    BY <2>2, <2>3, IsPage
  <2>6. p.era \in Nat
    BY <2>5, PageIs
  <2>7. Due(at.era, p)
    BY <1>1, <2>1, <2>4, <2>6, RangeIsDue
  <2>8. p \notin at.claimed
    BY <2>3, <2>4
  <2> QED
    BY <2>2, <2>4, <2>5, <2>7, <2>8
<1>3. ASSUME p \in Pages(c), Due(at.era, p), p \notin at.claimed,
             p.stash \in {a.ss58 : a \in accounts}
      PROVE  p \in Pending(c, at, accounts)
  <2>1. /\ p = [stash |-> p.stash, era |-> p.era, page |-> p.page]
        /\ p.era \in Nat /\ p.stash \in DOMAIN Stakers(c, p.era)
        /\ p.page \in 0 .. Stakers(c, p.era)[p.stash] - 1
    BY <1>3, PageIs
  <2>2. p.page \notin {q.page : q \in {x \in at.claimed : x.stash = p.stash /\ x.era = p.era}}
    <3> SUFFICES ASSUME NEW q \in at.claimed, q.stash = p.stash, q.era = p.era, q.page = p.page
                 PROVE  FALSE
      OBVIOUS
    <3>1. q = [stash |-> q.stash, era |-> q.era, page |-> q.page]
      BY <1>1, PageIs
    <3> QED
      BY <1>3, <2>1, <3>1
  <2>3. p \in PagesOf(c, at, p.era, p.stash)
    BY <2>1, <2>2 DEF PagesOf, UnclaimedPages
  <2>4. p.era \in ClaimableEraRange(at.era)
    BY <1>1, <1>3, <2>1, RangeIsDue
  <2> QED
    BY <1>3, <2>1, <2>3, <2>4 DEF Pending
<1> QED
  BY <1>2, <1>3

\* The chain accepts the claim of a page that is of an era in its history and that
\* nobody has claimed.
LEMMA AcceptsIs ==
  ASSUME NEW c \in PayoutChains, NEW p \in Pages(c)
  PROVE  Accepts(c, p) <=>
           p.era < activeEra[c] /\ activeEra[c] <= p.era + HistoryDepth /\ p \notin best[c]
  BY PageIs DEF Accepts

-----------------------------------------------------------------------------
(***************************************************************************)
(* What reportClaims sends.                                                *)
(***************************************************************************)
LEMMA ReportIsTrue ==
  ASSUME NEW accounts, NEW ok \in BOOLEAN, NEW claims,
         NEW channel \in DOMAIN ReportClaims(accounts, ok, claims),
         NEW content, content = ReportClaims(accounts, ok, claims)[channel], content.ok
  PROVE  /\ ok
         /\ \A s \in content.accounts :
              /\ \E a \in accounts : a.ss58 = s /\ channel \in Routed(a)
              /\ content.eras[s] # {}
              /\ \A e \in content.eras[s] : \E q \in claims : q.stash = s /\ q.era = e
<1> DEFINE mine == {a \in accounts : channel \in Routed(a)}
<1>1. content = BuildContent(mine, ok, claims)
  BY DEF ReportClaims
<1>2. ok
  BY <1>1 DEF BuildContent
<1>3. /\ content.accounts = {a.ss58 : a \in ClaimedAccounts(mine, claims)}
      /\ content.eras = [s \in content.accounts |-> {p.era : p \in {q \in claims : q.stash = s}}]
  BY <1>1, <1>2 DEF BuildContent
<1>4. ASSUME NEW s \in content.accounts
      PROVE  \E a \in mine : a.ss58 = s /\ \E p \in claims : p.stash = s
  BY <1>3, <1>4 DEF ClaimedAccounts
<1>5. ASSUME NEW s \in content.accounts
      PROVE  /\ content.eras[s] # {}
             /\ \A e \in content.eras[s] : \E q \in claims : q.stash = s /\ q.era = e
  <2>1. content.eras[s] = {p.era : p \in {q \in claims : q.stash = s}}
    BY <1>3, <1>5
  <2>2. \E p \in claims : p.stash = s
    BY <1>4, <1>5
  <2> QED
    BY <2>1, <2>2
<1> QED
  BY <1>2, <1>4, <1>5

LEMMA ReportIsWhole ==
  ASSUME NEW accounts, NEW claims, NEW a \in accounts, NEW p \in claims, p.stash = a.ss58,
         NEW channel \in Routed(a)
  PROVE  /\ channel \in DOMAIN ReportClaims(accounts, TRUE, claims)
         /\ ReportClaims(accounts, TRUE, claims)[channel].ok
         /\ a.ss58 \in ReportClaims(accounts, TRUE, claims)[channel].accounts
         /\ p.era \in ReportClaims(accounts, TRUE, claims)[channel].eras[a.ss58]
<1> DEFINE mine == {b \in accounts : channel \in Routed(b)}
<1>1. a \in ClaimedAccounts(mine, claims)
  BY DEF ClaimedAccounts
<1>2. channel \in UNION {Routed(b) : b \in accounts}
  OBVIOUS
<1>3. channel \in DOMAIN ReportClaims(accounts, TRUE, claims)
  BY <1>1, <1>2 DEF ReportClaims
<1>4. PICK content : /\ content = ReportClaims(accounts, TRUE, claims)[channel]
                     /\ content = BuildContent(mine, TRUE, claims)
  BY <1>1, <1>2 DEF ReportClaims
<1>5. /\ content.ok
      /\ content.accounts = {b.ss58 : b \in ClaimedAccounts(mine, claims)}
      /\ content.eras = [s \in content.accounts |-> {q.era : q \in {x \in claims : x.stash = s}}]
  <2>1. PICK claimed : claimed = {b.ss58 : b \in ClaimedAccounts(mine, claims)}
    OBVIOUS
  <2>2. content = [ok |-> TRUE, accounts |-> claimed,
                   eras |-> [s \in claimed |-> {q.era : q \in {x \in claims : x.stash = s}}]]
    BY <1>4, <2>1 DEF BuildContent
  <2> QED
    BY <2>1, <2>2
<1>6. a.ss58 \in content.accounts
  BY <1>1, <1>5
<1>7. content.eras[a.ss58] = {q.era : q \in {x \in claims : x.stash = a.ss58}}
  BY <1>5, <1>6
<1>8. p.era \in content.eras[a.ss58]
  BY <1>7
<1> QED
  BY <1>3, <1>4, <1>5, <1>6, <1>8

-----------------------------------------------------------------------------
(***************************************************************************)
(* The configuration of the job does not change.                           *)
(***************************************************************************)
LEMMA ConfigStays ==
  ASSUME UNCHANGED config
  PROVE  /\ Accounts' = Accounts /\ Payable' = Payable /\ Run' = Run /\ Audit' = Audit
         /\ Planned => Planned'
         /\ \A g : Members(g)' = Members(g) /\ Stashes(g)' = Stashes(g)
<1>1. Accounts' = Accounts /\ Payable' = Payable /\ Run' = Run
  BY DEF Accounts, Payable, Run
<1>2. Audit' = Audit
  BY <1>1 DEF Audit
<1>3. Planned => Planned'
  BY <1>1 DEF Planned
<1>4. \A g : Members(g)' = Members(g) /\ Stashes(g)' = Stashes(g)
  BY DEF Members, Stashes
<1> QED
  BY <1>1, <1>2, <1>3, <1>4

\* A stash of a chain is in one group.
LEMMA OneGroup ==
  ASSUME Planned, NEW g \in config.plan, NEW h \in config.plan, g.chain = h.chain,
         NEW s \in Stashes(g) \intersect Stashes(h)
  PROVE  g = h
<1>1. PICK a \in Members(g), b \in Members(h) : a.ss58 = s /\ b.ss58 = s
  BY DEF Stashes
<1>2. a = b
  BY <1>1 DEF Planned, Members, Accounts, SameAccount
<1>3. g = [chain |-> g.chain, signer |-> g.signer] /\ h = [chain |-> h.chain, signer |-> h.signer]
  BY DEF Planned, BuildPlan
<1> QED
  BY <1>1, <1>2, <1>3 DEF Members

\* Who is in a group can be paid, and who can be paid is in one.
LEMMA PayableIs ==
  ASSUME Planned
  PROVE  /\ \A g \in config.plan : Members(g) \subseteq Payable
         /\ \A a \in Payable : \E g \in config.plan : a \in Members(g) /\ g.chain = a.chain
<1>1. ASSUME NEW g \in config.plan PROVE Members(g) \subseteq Payable
  BY <1>1 DEF Planned, BuildPlan, Members, Payable
<1>2. ASSUME NEW a \in Payable
      PROVE  \E g \in config.plan : a \in Members(g) /\ g.chain = a.chain
  <2>1. PICK g : g = [chain |-> a.chain, signer |-> a.signer]
    OBVIOUS
  <2>2. g \in config.plan /\ g.chain = a.chain /\ g.signer = a.signer
    BY <2>1 DEF Planned, BuildPlan, Payable
  <2> QED
    BY <2>2 DEF Members, Payable
<1> QED
  BY <1>1, <1>2

\* A payable account whose stash is in a group of its chain is a member of it.
LEMMA MemberIs ==
  ASSUME Planned, NEW g \in config.plan, NEW a \in Payable, a.chain = g.chain, a.ss58 \in Stashes(g)
  PROVE  a \in Members(g)
<1>1. PICK b \in Members(g) : b.ss58 = a.ss58
  BY DEF Stashes
<1> QED
  BY <1>1 DEF Planned, Payable, Members, Accounts, SameAccount

\* What getPayoutAccounts and buildPlan make of the files.
LEMMA ResolvedIsPlanned ==
  ASSUME NEW files, config = Resolved(files)
  PROVE  Planned
<1>1. config.plan = BuildPlan(config.accounts) /\ config.rejected = PayoutsAreRejected(files)
  BY DEF Resolved
<1>2. config.rejected \in BOOLEAN
  BY <1>1 DEF PayoutsAreRejected
<1>3. CASE PayoutsAreRejected(files)
  <2>1. Accounts = {}
    BY <1>3 DEF Resolved, Accounts, Range
  <2> QED
    BY <1>1, <1>2, <2>1 DEF Planned
<1>4. CASE ~PayoutsAreRejected(files)
  <2>1. PICK all : all = PayoutCandidates(files)
    OBVIOUS
  <2>2. PICK first : first = {i \in 1 .. Len(all) : \A j \in 1 .. i - 1 : ~SameAccount(all[i], all[j])}
    OBVIOUS
  <2>3. config.accounts = [i \in first |-> all[i]]
    BY <1>4, <2>1, <2>2 DEF Resolved, PayoutAccounts
  <2>4. Accounts = {all[i] : i \in first}
    BY <2>3 DEF Accounts, Range
  <2>5. ASSUME NEW i \in first, NEW k \in first, SameAccount(all[i], all[k])
        PROVE  i = k
    <3>1. i \in Int /\ k \in Int /\ 1 <= i /\ 1 <= k
      BY <2>2
    <3>2. ~(i < k) /\ ~(k < i)
      BY <2>2, <2>5, <3>1 DEF SameAccount
    <3> QED
      BY <3>1, <3>2
  <2>6. \A a, b \in Accounts : SameAccount(a, b) => a = b
    BY <2>4, <2>5
  <2> QED
    BY <1>1, <1>2, <2>6 DEF Planned
<1> QED
  BY <1>3, <1>4

-----------------------------------------------------------------------------
(***************************************************************************)
(* The steps of the chains.                                                *)
(***************************************************************************)
LEMMA ChainStepKeeps ==
  ASSUME IInv, UNCHANGED <<config, run, told>>,
         audit'.at = audit.at, audit'.claims = audit.claims, audit'.failed = audit.failed,
         audit'.lost = audit.lost
  PROVE  Placed' /\ Claims' /\ Successes' /\ Reports'
<1>1. /\ Payable' = Payable
      /\ \A g : Members(g)' = Members(g) /\ Stashes(g)' = Stashes(g)
  BY ConfigStays
<1>2. Begun' = Begun /\ Through' = Through /\ Chain' = Chain /\ IsAtWork' = IsAtWork /\ Group' = Group
  BY <1>1 DEF Begun, Through, Chain, IsAtWork, Group, Members
<1>3. Placed'
  BY <1>2 DEF IInv, Placed
<1>4. Claims'
  BY <1>1, <1>2 DEF IInv, Claims
<1>5. \A g : HasClaimed(g) => HasClaimed(g)'
  BY <1>1 DEF HasClaimed, DueAt
<1>6. Successes'
  BY <1>2, <1>5 DEF IInv, Successes
<1>7. \A m : IsTrueOf(m) => IsTrueOf(m)'
  BY <1>1 DEF IsTrueOf
<1>8. \A a, c : IsToldOf(a, c) => IsToldOf(a, c)'
  BY DEF IsToldOf
<1>9. Reports'
  BY <1>1, <1>2, <1>7, <1>8 DEF IInv, Reports
<1> QED
  BY <1>3, <1>4, <1>6, <1>9

\* What was due can still be claimed, as long as nothing has come from outside.
LEMMA OpenStays ==
  ASSUME IInv, UNCHANGED run, audit'.at = audit.at, audit'.claims = audit.claims,
         audit'.cause \/ \A c \in PayoutChains : IsOpen(c) => IsOpen(c)',
         audit.cause => audit'.cause
  PROVE  Causeless'
  BY DEF IInv, Causeless, IsAtWork

LEMMA FinalizeKeeps ==
  ASSUME IInv, NEW chain \in PayoutChains, Finalize(chain)
  PROVE  IInv'
<1>1. UNCHANGED <<config, activeEra, best, run, told, audit>>
  BY DEF Finalize
<1>2. TypeOK'
  BY <1>1, ConfigStays DEF Finalize, IInv, TypeOK
<1>3. \A c \in PayoutChains : IsOpen(c) => IsOpen(c)'
  BY <1>1 DEF IsOpen, DueAt
<1> QED
  BY <1>1, <1>2, <1>3, ChainStepKeeps, OpenStays DEF IInv

LEMMA ReorganiseKeeps ==
  ASSUME IInv, NEW chain \in PayoutChains, Reorganise(chain)
  PROVE  IInv'
<1>1. UNCHANGED <<config, activeEra, final, run, told, audit>>
  BY DEF Reorganise
<1>2. \A c \in PayoutChains : best'[c] \subseteq best[c]
  BY DEF Reorganise, IInv, TypeOK
<1>3. best' \in [PayoutChains -> SUBSET Page]
  BY DEF Reorganise, IInv, TypeOK
<1>4. TypeOK'
  BY <1>1, <1>2, <1>3, ConfigStays DEF IInv, TypeOK
<1>5. \A c \in PayoutChains : IsOpen(c) => IsOpen(c)'
  BY <1>1, <1>2 DEF IsOpen, DueAt
<1> QED
  BY <1>1, <1>4, <1>5, ChainStepKeeps, OpenStays DEF IInv

\* A history variable that has the cause, and nothing else, changed.
LEMMA AuditCause ==
  ASSUME TypeOK, NEW cause \in BOOLEAN, audit' = [audit EXCEPT !.cause = cause]
  PROVE  /\ audit' \in Audit /\ audit'.cause = cause
         /\ audit'.at = audit.at /\ audit'.claims = audit.claims
         /\ audit'.failed = audit.failed /\ audit'.lost = audit.lost
  BY DEF TypeOK, Audit

LEMMA RivalClaimsKeeps ==
  ASSUME IInv, NEW chain \in PayoutChains, RivalClaims(chain)
  PROVE  IInv'
<1>1. UNCHANGED <<config, activeEra, final, run, told>> /\ audit' = [audit EXCEPT !.cause = TRUE]
  BY DEF RivalClaims
<1>2. PICK p \in Pages(chain) : best' = [best EXCEPT ![chain] = @ \union {p}]
  BY DEF RivalClaims
<1>3. p \in Page
  BY DEF Page
<1>4. best' \in [PayoutChains -> SUBSET Page] /\ \A c \in PayoutChains : best'[c] \subseteq Pages(c)
  BY <1>2, <1>3 DEF IInv, TypeOK
<1>5. /\ audit' \in Audit /\ audit'.cause
      /\ audit'.at = audit.at /\ audit'.claims = audit.claims
      /\ audit'.failed = audit.failed /\ audit'.lost = audit.lost
  BY <1>1, AuditCause DEF IInv
<1>6. TypeOK'
  BY <1>1, <1>4, <1>5, ConfigStays DEF IInv, TypeOK
<1> QED
  BY <1>1, <1>5, <1>6, ChainStepKeeps, OpenStays DEF IInv

\* A page that was open leaves the history unclaimed, or stays open.
LEMMA EraPassesKeeps ==
  ASSUME IInv, NEW chain \in PayoutChains, EraPasses(chain)
  PROVE  IInv'
<1> DEFINE leaves == \E p \in Pages(chain) : Accepts(chain, p) /\ p.era + HistoryDepth = activeEra[chain]
<1>1. /\ UNCHANGED <<config, best, final, run, told>>
      /\ activeEra' = [activeEra EXCEPT ![chain] = @ + 1]
      /\ audit' = [audit EXCEPT !.cause = audit.cause \/ leaves]
  BY DEF EraPasses
<1>2. activeEra' \in [PayoutChains -> Nat] /\ \A c \in PayoutChains : activeEra[c] <= activeEra'[c]
  BY <1>1 DEF IInv, TypeOK
<1>3. (audit.cause \/ leaves) \in BOOLEAN
  OBVIOUS
<1>4. /\ audit' \in Audit /\ audit'.cause = (audit.cause \/ leaves)
      /\ audit'.at = audit.at /\ audit'.claims = audit.claims
      /\ audit'.failed = audit.failed /\ audit'.lost = audit.lost
  BY <1>1, <1>3, AuditCause DEF IInv
<1>5. TypeOK'
  <2>1. \A c \in PayoutChains : audit'.at[c] # None =>
          audit'.at[c] \in Snapshot(c) /\ audit'.at[c].era <= activeEra'[c]
    <3> SUFFICES ASSUME NEW c \in PayoutChains, audit.at[c] # None
                 PROVE  audit.at[c] \in Snapshot(c) /\ audit.at[c].era <= activeEra'[c]
      BY <1>4
    <3>1. audit.at[c] \in Snapshot(c) /\ audit.at[c].era <= activeEra[c] /\ activeEra[c] \in Nat
      BY DEF IInv, TypeOK
    <3>2. audit.at[c].era \in Nat /\ activeEra'[c] \in Nat /\ activeEra[c] <= activeEra'[c]
      BY <1>2, <3>1 DEF Snapshot
    <3> QED
      BY <3>1, <3>2
  <2> QED
    BY <1>1, <1>2, <1>4, <2>1, ConfigStays DEF IInv, TypeOK
<1>6. ASSUME NEW c \in PayoutChains, audit.at[c] # None, IsOpen(c), ~leaves
      PROVE  IsOpen(c)'
  <2> SUFFICES ASSUME NEW p \in DueAt(c), <<c, p>> \notin audit.claims
               PROVE  p \notin best[c] /\ activeEra'[c] <= p.era + HistoryDepth
    BY <1>1, <1>4 DEF IsOpen, DueAt
  <2>1. p \notin best[c] /\ activeEra[c] <= p.era + HistoryDepth
    BY <1>6 DEF IsOpen
  <2>2. p \in Pages(c) /\ p.era \in Nat /\ Due(audit.at[c].era, p)
    BY PageIs DEF DueAt
  <2>3. activeEra[c] \in Nat /\ audit.at[c].era <= activeEra[c] /\ audit.at[c].era \in Nat
    BY <1>6 DEF IInv, TypeOK, Snapshot
  <2>4. p.era < activeEra[c]
    BY <2>2, <2>3, PayoutsAssumption DEF Due
  <2>5. Accepts(c, p)
    BY <2>1, <2>2, <2>4, AcceptsIs
  <2>6. CASE c = chain
    <3>1. p.era + HistoryDepth # activeEra[c]
      BY <1>6, <2>2, <2>5, <2>6
    <3>2. activeEra'[c] = activeEra[c] + 1
      BY <1>1, <2>6 DEF IInv, TypeOK
    <3> QED
      BY <2>1, <2>2, <2>3, <3>1, <3>2, PayoutsAssumption
  <2>7. CASE c # chain
    BY <1>1, <2>1, <2>7 DEF IInv, TypeOK
  <2> QED
    BY <2>6, <2>7
<1>7. Causeless'
  BY <1>1, <1>4, <1>6 DEF IInv, Causeless, IsAtWork
<1> QED
  BY <1>1, <1>4, <1>5, <1>7, ChainStepKeeps DEF IInv

-----------------------------------------------------------------------------
(***************************************************************************)
(* The steps of the run.                                                   *)
(***************************************************************************)
LEMMA EndedType ==
  ASSUME NEW code \in {None, 0, 1}
  PROVE  /\ Ended(code) \in Run /\ Ended(code).pc = "idle" /\ Ended(code).code = code
         /\ ~Ended(code).anyFailure /\ Ended(code).group = None /\ Ended(code).left = {}
         /\ Ended(code).submitted = {} /\ Ended(code).pending = {} /\ ~Ended(code).rejected
  BY DEF Ended, Run

LEMMA NothingType ==
  ASSUME NEW cause \in BOOLEAN, NEW at, at = [c \in PayoutChains |-> None],
         NEW a, a = [at |-> at, claims |-> {}, failed |-> {}, lost |-> {}, cause |-> cause]
  PROVE  /\ a \in Audit /\ a.cause = cause /\ a.claims = {}
         /\ \A c \in PayoutChains : a.at[c] = None
<1>1. at \in [PayoutChains -> (UNION {Snapshot(c) : c \in PayoutChains}) \union {None}]
  OBVIOUS
<1>2. a \in Audit
  <2>1. PICK Failed : Failed = {<<b.chain, b.ss58>> : b \in Accounts}
    OBVIOUS
  <2>2. PICK Lost : Lost = UNION {Routed(b) : b \in Accounts}
    OBVIOUS
  <2>3. PICK At : At = [PayoutChains -> (UNION {Snapshot(c) : c \in PayoutChains}) \union {None}]
    OBVIOUS
  <2>4. Audit = [at : At, claims : SUBSET (PayoutChains \X Page), failed : SUBSET Failed,
                 lost : SUBSET Lost, cause : BOOLEAN]
    BY <2>1, <2>2, <2>3 DEF Audit
  <2>5. at \in At /\ {} \in SUBSET (PayoutChains \X Page) /\ {} \in SUBSET Failed /\ {} \in SUBSET Lost
    BY <1>1, <2>3
  <2>6. [at |-> at, claims |-> {}, failed |-> {}, lost |-> {}, cause |-> cause] \in Audit
    BY <2>4, <2>5
  <2> QED
    BY <2>6
<1>3. a.cause = cause /\ a.claims = {} /\ a.at = at
  OBVIOUS
<1> QED
  BY <1>2, <1>3

\* Where a run goes from the end of a group, or from its start.
LEMMA OnwardIs ==
  ASSUME NEW r \in Run, r.pc = "over", r.code = None, NEW s \in Onward(r)
  PROVE  /\ s \in Run /\ s.pc \in {"scanning", "connecting", "idle"}
         /\ s.pc = "idle" => /\ r.left = {} /\ ~s.anyFailure
                             /\ s.code = IF r.anyFailure THEN 1 ELSE 0
         /\ s.pc # "idle" =>
              /\ s.code = None /\ s.anyFailure = r.anyFailure
              /\ s.group \in r.left /\ s.left = r.left \ {s.group}
              /\ s.at = r.at /\ s.submitted = r.submitted /\ s.pending = r.pending
              /\ s.rejected = r.rejected
         /\ s.pc = "scanning" => r.group # None /\ s.group.chain = r.group.chain
         /\ s.pc = "connecting" =>
              r.group = None \/ \A g \in r.left : g.chain # r.group.chain
<1> DEFINE here == {g \in r.left : r.group # None /\ g.chain = r.group.chain}
<1>1. \A pc \in {"scanning", "connecting"} : \A groups \in SUBSET r.left :
        s \in To(pc, groups, r) =>
          /\ s \in Run /\ s.pc = pc /\ s.code = None /\ s.anyFailure = r.anyFailure
          /\ s.group \in groups /\ s.left = r.left \ {s.group}
          /\ s.at = r.at /\ s.submitted = r.submitted /\ s.pending = r.pending
          /\ s.rejected = r.rejected
  <2> SUFFICES ASSUME NEW pc \in {"scanning", "connecting"}, NEW groups \in SUBSET r.left,
                      s \in To(pc, groups, r)
               PROVE  /\ s \in Run /\ s.pc = pc /\ s.code = None /\ s.anyFailure = r.anyFailure
                      /\ s.group \in groups /\ s.left = r.left \ {s.group}
                      /\ s.at = r.at /\ s.submitted = r.submitted /\ s.pending = r.pending
                      /\ s.rejected = r.rejected
    OBVIOUS
  <2>1. PICK g \in groups : s = [r EXCEPT !.pc = pc, !.group = g, !.left = r.left \ {g}]
    BY DEF To, First
  <2>2. g \in config.plan /\ r.left \ {g} \subseteq config.plan
    BY DEF Run
  <2> QED
    BY <2>1, <2>2 DEF Run
<1>2. CASE here # {}
  <2>1. s \in To("scanning", here, r)
    BY <1>2 DEF Onward
  <2> QED
    BY <1>1, <2>1
<1>3. CASE here = {} /\ r.left # {}
  <2>1. s \in To("connecting", r.left, r)
    BY <1>3 DEF Onward
  <2> QED
    BY <1>1, <1>3, <2>1
<1>4. CASE r.left = {}
  <2>1. s = Ended(IF r.anyFailure THEN 1 ELSE 0)
    BY <1>4 DEF Onward
  <2> QED
    BY <1>4, <2>1, EndedType
<1> QED
  BY <1>2, <1>3, <1>4

\* The chains stand still.
LEMMA RunType ==
  ASSUME IInv, UNCHANGED <<config, chainVars>>, run' \in Run, audit' \in Audit,
         \A c \in PayoutChains :
           audit'.at[c] \in {None, audit.at[c], [era |-> activeEra[c], claimed |-> final[c]]}
  PROVE  TypeOK'
<1>1. ASSUME NEW c \in PayoutChains, audit'.at[c] # None
      PROVE  audit'.at[c] \in Snapshot(c) /\ audit'.at[c].era <= activeEra[c]
  <2>1. CASE audit'.at[c] = audit.at[c]
    BY <1>1, <2>1 DEF IInv, TypeOK
  <2>2. CASE audit'.at[c] = [era |-> activeEra[c], claimed |-> final[c]]
    <3>1. activeEra[c] \in Nat /\ final[c] \subseteq Pages(c)
      BY DEF IInv, TypeOK
    <3>2. audit'.at[c].era = activeEra[c]
      BY <2>2
    <3> QED
      BY <2>2, <3>1, <3>2 DEF Snapshot
  <2> QED
    BY <1>1, <2>1, <2>2
<1>2. UNCHANGED <<activeEra, best, final>>
  BY DEF chainVars
<1>3. Planned' /\ run' \in Run' /\ audit' \in Audit'
  BY ConfigStays DEF IInv, TypeOK
<1> QED
  BY <1>1, <1>2, <1>3 DEF IInv, TypeOK

LEMMA StartKeeps ==
  ASSUME IInv, Start
  PROVE  IInv'
<1>1. /\ UNCHANGED <<config, chainVars>> /\ told' = {} /\ audit' = [Nothing EXCEPT !.cause = config.rejected]
  BY DEF Start
<1>2. config.rejected \in BOOLEAN
  BY DEF IInv, TypeOK, Planned
<1>3. /\ audit' \in Audit /\ audit'.cause = config.rejected /\ audit'.claims = {}
      /\ \A c \in PayoutChains : audit'.at[c] = None
  <2>1. PICK at : at = [c \in PayoutChains |-> None]
    OBVIOUS
  <2>2. audit' = [at |-> at, claims |-> {}, failed |-> {}, lost |-> {}, cause |-> config.rejected]
    BY <1>1, <2>1 DEF Nothing
  <2> QED
    BY <1>2, <2>1, <2>2, NothingType
<1>4. CASE config.rejected
  <2>1. run' = Ended(1)
    BY <1>4 DEF Start
  <2>2. /\ run' \in Run /\ run'.pc = "idle" /\ run'.code = 1 /\ ~run'.anyFailure /\ run'.code # 0
        /\ run'.submitted = {} /\ ~run'.rejected
    BY <2>1, EndedType
  <2>3. TypeOK'
    BY <1>1, <1>3, <2>2, RunType
  <2> QED
    BY <1>1, <1>3, <1>4, <2>2, <2>3 DEF IInv, Placed, Claims, Successes, Causeless, Reports, IsAtWork
<1>5. CASE ~config.rejected
  <2>1. PICK r : r = [Ended(None) EXCEPT !.pc = "over", !.left = config.plan]
    OBVIOUS
  <2>2. /\ r \in Run /\ r.pc = "over" /\ r.code = None /\ r.left = config.plan /\ r.group = None
        /\ ~r.anyFailure /\ r.submitted = {} /\ ~r.rejected
    BY <2>1, EndedType DEF Run
  <2>3. run' \in Onward(r)
    BY <1>5, <2>1 DEF Start
  <2>4. /\ run' \in Run /\ run'.pc \in {"connecting", "idle"} /\ ~run'.anyFailure
        /\ run'.pc = "idle" => config.plan = {} /\ run'.code = 0
        /\ run'.pc # "idle" =>
             /\ run'.code = None /\ run'.group \in config.plan /\ run'.left = config.plan \ {run'.group}
             /\ run'.submitted = {} /\ ~run'.rejected
    BY <2>2, <2>3, OnwardIs
  <2>5. TypeOK'
    BY <1>1, <1>3, <2>4, RunType
  <2>6. Begun' = {run'.group} \intersect config.plan \/ run'.pc = "idle"
    BY <1>1, <2>4 DEF Begun
  <2>7. Placed'
    BY <2>4, <2>6, <1>1 DEF Placed, IsAtWork
  <2>8. Claims'
    BY <1>3, <2>4 DEF Claims, IsAtWork
  <2>9. Through' = {}
    BY <1>1, <2>4, <2>6, NothingIsNone DEF Through
  <2>10. Successes'
    BY <2>9 DEF Successes
  <2>11. Causeless'
    BY <1>3, <2>4, NothingIsNone DEF Causeless, IsAtWork
  <2>12. Reports'
    BY <1>1, <1>3 DEF Reports
  <2> QED
    BY <2>5, <2>7, <2>8, <2>10, <2>11, <2>12 DEF IInv
<1> QED
  BY <1>4, <1>5

\* The run is over, and keeps nothing, or ends with a cause.
LEMMA EndsKeeps ==
  ASSUME IInv, UNCHANGED <<config, chainVars, told>>, run' \in {Ended(None), Ended(1)},
         audit' = [audit EXCEPT !.cause = audit'.cause], audit'.cause \in BOOLEAN,
         run' = Ended(1) => audit'.cause /\ run.pc = "connecting"
  PROVE  IInv'
<1>1. /\ run' \in Run /\ run'.pc = "idle" /\ run'.code \in {None, 1} /\ run'.submitted = {}
      /\ run'.code = 1 => run' = Ended(1)
      /\ ~run'.rejected
  BY EndedType, NothingIsNone
<1>2. /\ audit' \in Audit
      /\ audit'.at = audit.at /\ audit'.claims = audit.claims
      /\ audit'.failed = audit.failed /\ audit'.lost = audit.lost
  BY AuditCause DEF IInv
<1>3. TypeOK'
  BY <1>1, <1>2, RunType
<1>4. Placed' /\ Claims'
  BY <1>1 DEF Placed, Claims, IsAtWork
<1>5. Successes'
  BY <1>1, NothingIsNone DEF Successes, IsAtWork
<1>6. Causeless'
  BY <1>1 DEF Causeless, IsAtWork
<1>7. Payable' = Payable
  BY ConfigStays
<1>8. \A m : IsTrueOf(m) => IsTrueOf(m)'
  BY <1>2, <1>7 DEF IsTrueOf
<1>9. ASSUME run'.code # None, NEW c \in audit.claims, NEW a \in Payable,
             a.chain = c[1], a.ss58 = c[2].stash, <<c[1], a.ss58>> \notin audit.failed
      PROVE  IsToldOf(a, c)'
  <2>1. run.pc = "connecting"
    BY <1>1, <1>9
  <2>2. IsToldOf(a, c) \/ a \in Group
    BY <1>9, <2>1 DEF IInv, Reports, IsAtWork
  <2>3. PICK g \in Begun : g.chain = c[1] /\ c[2].stash \in Stashes(g) /\ g # run.group
    BY <2>1 DEF IInv, Claims, Placed, IsAtWork
  <2>4. g.chain # run.group.chain
    BY <2>1, <2>3 DEF IInv, Placed
  <2>5. a \notin Group
    BY <1>9, <2>3, <2>4 DEF Group, Members
  <2> QED
    BY <1>2, <2>2, <2>5 DEF IsToldOf
<1>10. Reports'
  BY <1>1, <1>2, <1>7, <1>8, <1>9 DEF IInv, Reports, IsAtWork
<1> QED
  BY <1>3, <1>4, <1>5, <1>6, <1>10 DEF IInv

LEMMA KillKeeps ==
  ASSUME IInv, Kill
  PROVE  IInv'
<1>1. UNCHANGED <<config, chainVars, told, audit>> /\ run' = Ended(None)
  BY DEF Kill
<1>2. audit' = [audit EXCEPT !.cause = audit'.cause] /\ audit'.cause \in BOOLEAN
  BY <1>1 DEF IInv, TypeOK, Audit
<1>3. Ended(None) # Ended(1)
  BY EndedType, NothingIsNone
<1> QED
  BY <1>1, <1>2, <1>3, EndsKeeps

\* A run that goes on with its group reports as before.
LEMMA ReportsStay ==
  ASSUME IInv, UNCHANGED <<config, told>>, run'.group = run.group, IsAtWork,
         audit'.claims = audit.claims, audit'.failed = audit.failed, audit'.lost = audit.lost,
         run'.pc # "idle"
  PROVE  Reports'
<1>1. Payable' = Payable /\ Group' = Group
  BY ConfigStays DEF Group, Members
<1>2. \A m : IsTrueOf(m) => IsTrueOf(m)'
  BY <1>1 DEF IsTrueOf
<1>3. \A a, c : IsToldOf(a, c) => IsToldOf(a, c)'
  BY DEF IsToldOf
<1> QED
  BY <1>1, <1>2, <1>3 DEF IInv, Reports, IsAtWork

LEMMA SuccessesStay ==
  ASSUME IInv, UNCHANGED config, IsAtWork, run'.pc # "idle",
         run'.group = run.group, run'.left = run.left, run'.code = None,
         run'.anyFailure = run.anyFailure, audit.claims \subseteq audit'.claims,
         \A g \in Through : HasClaimed(g) => audit'.at[g.chain] = audit.at[g.chain]
  PROVE  Successes'
<1>1. run.code = None
  BY DEF IInv, Placed
<1>2. Through' = Through
  BY <1>1, NothingIsNone DEF Through, Begun
<1>3. ASSUME NEW g \in Through, HasClaimed(g)
      PROVE  HasClaimed(g)'
  <2>1. audit'.at[g.chain] = audit.at[g.chain]
    BY <1>3
  <2>2. DueAt(g.chain)' = DueAt(g.chain)
    BY <2>1 DEF DueAt
  <2>3. Stashes(g)' = Stashes(g)
    BY ConfigStays
  <2> QED
    BY <1>3, <2>1, <2>2, <2>3 DEF HasClaimed
<1> QED
  BY <1>2, <1>3, NothingIsNone DEF IInv, Successes, IsAtWork

\* What Connect reads of the chain.
LEMMA SnapshotIs ==
  ASSUME TypeOK, NEW c \in PayoutChains, NEW at, at = [era |-> activeEra[c], claimed |-> final[c]]
  PROVE  /\ at \in Snapshot(c) /\ at # None /\ at.era = activeEra[c] /\ at.claimed = final[c]
<1>1. activeEra[c] \in Nat /\ final[c] \subseteq Pages(c)
  BY DEF TypeOK
<1>2. at \in Snapshot(c)
  BY <1>1 DEF Snapshot
<1> QED
  BY <1>2, NothingIsNone DEF Snapshot

LEMMA ConnectedRun ==
  ASSUME TypeOK, NEW c \in PayoutChains, NEW at \in Snapshot(c),
         run' = [run EXCEPT !.pc = "scanning", !.at = at]
  PROVE  /\ run' \in Run /\ run'.pc = "scanning" /\ run'.at = at
         /\ run'.group = run.group /\ run'.left = run.left /\ run'.submitted = run.submitted
         /\ run'.rejected = run.rejected /\ run'.anyFailure = run.anyFailure /\ run'.code = run.code
<1>1. PICK At : At = (UNION {Snapshot(d) : d \in PayoutChains}) \union {None}
  OBVIOUS
<1>2. at \in At
  BY <1>1
<1>3. run \in Run
  BY DEF TypeOK
<1> QED
  BY <1>1, <1>2, <1>3 DEF Run

LEMMA ConnectedAudit ==
  ASSUME TypeOK, NEW c \in PayoutChains, NEW at \in Snapshot(c), NEW cause \in BOOLEAN,
         audit' = [audit EXCEPT !.at[c] = at, !.cause = cause]
  PROVE  /\ audit' \in Audit /\ audit'.cause = cause
         /\ audit'.at[c] = at /\ \A d \in PayoutChains \ {c} : audit'.at[d] = audit.at[d]
         /\ audit'.claims = audit.claims /\ audit'.failed = audit.failed /\ audit'.lost = audit.lost
<1>1. PICK At : At = (UNION {Snapshot(d) : d \in PayoutChains}) \union {None}
  OBVIOUS
<1>2. at \in At
  BY <1>1
<1>3. audit \in Audit /\ audit.at \in [PayoutChains -> At]
  BY <1>1 DEF TypeOK, Audit
<1>4. PICK all : all = [audit.at EXCEPT ![c] = at]
  OBVIOUS
<1>5. /\ all \in [PayoutChains -> At] /\ all[c] = at
      /\ \A d \in PayoutChains \ {c} : all[d] = audit.at[d]
  BY <1>2, <1>3, <1>4
<1>6. audit' = [audit EXCEPT !.at = all, !.cause = cause]
  BY <1>4
<1>7. audit' \in Audit
  BY <1>1, <1>3, <1>5, <1>6 DEF Audit
<1>8. /\ audit'.cause = cause /\ audit'.at = all
      /\ audit'.claims = audit.claims /\ audit'.failed = audit.failed /\ audit'.lost = audit.lost
  BY <1>3, <1>6 DEF Audit
<1> QED
  BY <1>5, <1>7, <1>8

LEMMA ConnectedKeeps ==
  ASSUME IInv, UNCHANGED <<config, chainVars, told>>, run.pc = "connecting",
         NEW c \in PayoutChains, c = Chain,
         NEW at, at = [era |-> activeEra[c], claimed |-> final[c]],
         run' = [run EXCEPT !.pc = "scanning", !.at = at],
         audit' = [audit EXCEPT !.at[c] = at, !.cause = audit.cause \/ best[c] # final[c]]
  PROVE  IInv'
<1>1. TypeOK /\ at \in Snapshot(c) /\ at # None /\ at.era = activeEra[c] /\ at.claimed = final[c]
  BY SnapshotIs DEF IInv
<1>2. /\ run' \in Run /\ run'.pc = "scanning" /\ run'.at = at
      /\ run'.group = run.group /\ run'.left = run.left /\ run'.submitted = run.submitted
      /\ run'.rejected = run.rejected /\ run'.anyFailure = run.anyFailure /\ run'.code = run.code
  BY <1>1, ConnectedRun
<1>3. (audit.cause \/ best[c] # final[c]) \in BOOLEAN
  OBVIOUS
<1>4. /\ audit' \in Audit /\ audit'.cause = (audit.cause \/ best[c] # final[c])
      /\ audit'.at[c] = at /\ \A d \in PayoutChains \ {c} : audit'.at[d] = audit.at[d]
      /\ audit'.claims = audit.claims /\ audit'.failed = audit.failed /\ audit'.lost = audit.lost
  BY <1>1, <1>3, ConnectedAudit
<1>5. TypeOK'
  BY <1>2, <1>4, RunType
<1>6. /\ IsAtWork /\ IsAtWork' /\ Begun' = Begun /\ Chain' = c /\ run.code = None
      /\ run.group.chain = c /\ run.group \in Begun /\ run.submitted = {} /\ ~run.rejected
      /\ \A g \in Begun, h \in run.left : g.chain = h.chain => h.chain = run.group.chain
      /\ \A g \in Begun : g.chain = c => g = run.group
  BY <1>2 DEF IInv, Placed, IsAtWork, Begun, Chain
<1>7. Placed'
  BY <1>1, <1>2, <1>4, <1>6 DEF Placed, IsAtWork
<1>8. Claims'
  <2>1. \A g : Stashes(g)' = Stashes(g)
    BY ConfigStays
  <2> QED
    BY <1>2, <1>4, <1>6, <2>1 DEF IInv, Claims
<1>9. Successes'
  <2>1. \A g \in Through : g.chain # c
    BY <1>6, NothingIsNone DEF Through
  <2> QED
    BY <1>2, <1>4, <1>6, <2>1, SuccessesStay DEF HasClaimed
<1>10. ASSUME ~audit'.cause, NEW d \in PayoutChains, audit'.at[d] # None
       PROVE  IsOpen(d)'
  <2>1. ~audit.cause /\ best[c] = final[c]
    BY <1>4, <1>10
  <2>2. UNCHANGED <<activeEra, best>>
    BY DEF chainVars
  <2>3. CASE d = c
    <3> SUFFICES ASSUME NEW p \in Pages(c), Due(at.era, p), p \notin at.claimed
                 PROVE  p \notin best[c] /\ activeEra[c] <= p.era + HistoryDepth
      BY <1>4, <2>2, <2>3 DEF IsOpen, DueAt
    <3> QED
      BY <1>1, <2>1 DEF Due
  <2>4. CASE d # c
    <3>1. audit'.at[d] = audit.at[d] /\ IsOpen(d)
      BY <1>4, <1>6, <1>10, <2>1, <2>4 DEF IInv, Causeless
    <3> QED
      BY <1>4, <2>2, <3>1 DEF IsOpen, DueAt
  <2> QED
    BY <2>3, <2>4
<1>11. Causeless'
  <2>1. run'.code # 1
    BY <1>2, <1>6, NothingIsNone
  <2>2. ASSUME ~audit'.cause
        PROVE  ~run'.anyFailure /\ ~run'.rejected /\ run'.pc # "threw"
    BY <1>2, <1>4, <1>6, <2>2 DEF IInv, Causeless
  <2> QED
    BY <1>10, <2>1, <2>2 DEF Causeless
<1>12. Reports'
  BY <1>2, <1>4, <1>6, ReportsStay
<1> QED
  BY <1>5, <1>7, <1>8, <1>9, <1>11, <1>12 DEF IInv

LEMMA ConnectKeeps ==
  ASSUME IInv, Connect
  PROVE  IInv'
<1>1. UNCHANGED <<config, chainVars, told>> /\ run.pc = "connecting"
  BY DEF Connect
<1>2. ASSUME run' = Ended(1), audit' = [audit EXCEPT !.cause = TRUE]
      PROVE  IInv'
  <2>1. audit'.cause = TRUE
    BY <1>2, AuditCause DEF IInv
  <2>2. audit' = [audit EXCEPT !.cause = audit'.cause] /\ audit'.cause \in BOOLEAN
    BY <1>2, <2>1
  <2> QED
    BY <1>1, <1>2, <2>1, <2>2, EndsKeeps
<1>3. ASSUME Chain \in PayoutChains,
             run' = [run EXCEPT !.pc = "scanning",
                                !.at = [era |-> activeEra[Chain], claimed |-> final[Chain]]],
             audit' = [audit EXCEPT !.at[Chain] = [era |-> activeEra[Chain], claimed |-> final[Chain]],
                                    !.cause = audit.cause \/ best[Chain] # final[Chain]]
      PROVE  IInv'
  <2>1. PICK c \in PayoutChains : c = Chain
    BY <1>3
  <2>2. PICK at : at = [era |-> activeEra[c], claimed |-> final[c]]
    OBVIOUS
  <2>3. run' = [run EXCEPT !.pc = "scanning", !.at = at]
    BY <1>3, <2>1, <2>2
  <2>4. audit' = [audit EXCEPT !.at[c] = at, !.cause = audit.cause \/ best[c] # final[c]]
    BY <1>3, <2>1, <2>2
  <2> QED
    BY <1>1, <2>1, <2>2, <2>3, <2>4, ConnectedKeeps
<1> QED
  BY <1>2, <1>3 DEF Connect

\* The page that is claimed is included in the best block.
LEMMA BestGrows ==
  ASSUME TypeOK, NEW c \in PayoutChains, NEW p \in Pages(c),
         best' = [best EXCEPT ![c] = @ \union {p}]
  PROVE  /\ best' \in [PayoutChains -> SUBSET Page] /\ \A d \in PayoutChains : best'[d] \subseteq Pages(d)
         /\ best'[c] = best[c] \union {p} /\ \A d \in PayoutChains \ {c} : best'[d] = best[d]
<1>1. p \in Page
  BY DEF Page
<1> QED
  BY <1>1 DEF TypeOK

LEMMA ScanKeeps ==
  ASSUME IInv, Scan
  PROVE  IInv'
<1>1. /\ run.pc = "scanning" /\ UNCHANGED <<config, chainVars, told, faults, audit>>
      /\ run' = [run EXCEPT !.pc = "claiming", !.pending = Pending(Chain, run.at, Group)]
  BY DEF Scan
<1>2. /\ IsAtWork /\ Chain \in PayoutChains /\ run.at # None /\ run.at = audit.at[Chain]
      /\ run.code = None /\ run.group \in Begun /\ run.submitted = {} /\ ~run.rejected
      /\ run.at \in Snapshot(Chain)
  BY <1>1 DEF IInv, Placed, IsAtWork, TypeOK
<1>3. PICK pending : pending = Pending(Chain, run.at, Group)
  OBVIOUS
<1>4. \A p \in pending : p \in Pages(Chain) /\ p.stash \in Stashes(run.group)
  BY <1>2, <1>3, PendingIsDue DEF Stashes, Group
<1>5. pending \subseteq Page
  BY <1>2, <1>4 DEF Page
<1>6. /\ run' \in Run /\ run'.pc = "claiming" /\ run'.pending = pending /\ run'.at = run.at
      /\ run'.group = run.group /\ run'.left = run.left /\ run'.submitted = run.submitted
      /\ run'.rejected = run.rejected /\ run'.anyFailure = run.anyFailure /\ run'.code = run.code
  BY <1>1, <1>3, <1>5 DEF IInv, TypeOK, Run
<1>7. TypeOK'
  <2>1. audit' \in Audit /\ \A c \in PayoutChains : audit'.at[c] = audit.at[c]
    BY <1>1 DEF IInv, TypeOK
  <2> QED
    BY <1>1, <1>6, <2>1, RunType
<1>8. Begun' = Begun /\ Chain' = Chain /\ Group' = Group /\ IsAtWork'
  BY <1>1, <1>6 DEF Begun, Chain, Group, Members, IsAtWork
<1>9. Placed'
  BY <1>1, <1>2, <1>6, <1>8 DEF IInv, Placed
<1>10. Claims'
  <2>1. \A g : Stashes(g)' = Stashes(g)
    BY <1>1, ConfigStays
  <2>2. ASSUME NEW p \in pending
        PROVE  <<Chain, p>> \notin audit.claims
    <3> SUFFICES ASSUME <<Chain, p>> \in audit.claims
                 PROVE  FALSE
      OBVIOUS
    <3>1. PICK g \in Begun : g.chain = Chain /\ p.stash \in Stashes(g) /\ g # run.group
      BY <1>2 DEF IInv, Claims
    <3>2. g \in config.plan /\ run.group \in config.plan /\ run.group.chain = Chain
      BY <1>2 DEF Begun, Chain
    <3> QED
      BY <1>4, <3>1, <3>2, OneGroup DEF IInv, TypeOK
  <2>3. Pending(Chain', run'.at, Group') = pending
    BY <1>3, <1>6, <1>8
  <2> QED
    BY <1>1, <1>2, <1>6, <1>8, <2>1, <2>2, <2>3 DEF IInv, Claims
<1>11. Successes'
  BY <1>1, <1>2, <1>6, <1>8, SuccessesStay DEF IsAtWork
<1>12. Causeless'
  <2>1. run'.code # 1
    BY <1>2, <1>6, NothingIsNone
  <2>2. \A c \in PayoutChains : IsOpen(c) => IsOpen(c)'
    BY <1>1 DEF IsOpen, DueAt, chainVars
  <2> QED
    BY <1>1, <1>2, <1>6, <2>1, <2>2 DEF IInv, Causeless
<1>13. Reports'
  BY <1>1, <1>2, <1>6, ReportsStay
<1> QED
  BY <1>7, <1>9, <1>10, <1>11, <1>12, <1>13 DEF IInv

\* A claim that is accepted.
LEMMA AcceptedKeeps ==
  ASSUME IInv, UNCHANGED <<config, activeEra, final, told>>, run.pc = "claiming",
         NEW c, c = Chain, NEW p \in run.pending,
         best' = [best EXCEPT ![c] = @ \union {p}],
         run' = [run EXCEPT !.pending = @ \ {p}, !.submitted = @ \union {p}],
         audit' = [audit EXCEPT !.claims = @ \union {<<c, p>>}]
  PROVE  IInv'
<1>1. /\ IsAtWork /\ c \in PayoutChains /\ run.at # None /\ run.at = audit.at[c]
      /\ run.code = None /\ run.group \in Begun /\ run.group.chain = c
      /\ run.at \in Snapshot(c)
  BY DEF IInv, Placed, IsAtWork, TypeOK, Chain
<1>2. p \in Pages(c) /\ p \in Page /\ p.stash \in Stashes(run.group)
  <2>1. p \in Pending(c, run.at, Group)
    BY <1>1 DEF IInv, Claims
  <2>2. p \in Pages(c) /\ p.stash \in Stashes(run.group)
    BY <1>1, <2>1, PendingIsDue DEF Stashes, Group
  <2> QED
    BY <1>1, <2>2 DEF Page
<1>3. /\ best' \in [PayoutChains -> SUBSET Page] /\ \A d \in PayoutChains : best'[d] \subseteq Pages(d)
      /\ best'[c] = best[c] \union {p} /\ \A d \in PayoutChains \ {c} : best'[d] = best[d]
  BY <1>1, <1>2, BestGrows DEF IInv
<1>4. /\ run' \in Run /\ run'.pc = "claiming" /\ run'.pending = run.pending \ {p}
      /\ run'.submitted = run.submitted \union {p} /\ run'.at = run.at
      /\ run'.group = run.group /\ run'.left = run.left
      /\ run'.rejected = run.rejected /\ run'.anyFailure = run.anyFailure /\ run'.code = run.code
  BY <1>2 DEF IInv, TypeOK, Run
<1>5. /\ audit' \in Audit /\ audit'.claims = audit.claims \union {<<c, p>>}
      /\ audit'.at = audit.at /\ audit'.failed = audit.failed /\ audit'.lost = audit.lost
      /\ audit'.cause = audit.cause
  <2>1. <<c, p>> \in PayoutChains \X Page
    BY <1>1, <1>2
  <2> QED
    BY <2>1 DEF IInv, TypeOK, Audit
<1>6. TypeOK'
  BY <1>3, <1>4, <1>5, ConfigStays DEF IInv, TypeOK
<1>7. Begun' = Begun /\ Chain' = Chain /\ Group' = Group /\ IsAtWork'
  BY <1>4 DEF Begun, Chain, Group, Members, IsAtWork
<1>8. Placed'
  BY <1>1, <1>4, <1>5, <1>7 DEF IInv, Placed
<1>9. Claims'
  <2>1. \A g : Stashes(g)' = Stashes(g)
    BY ConfigStays
  <2>2. Pending(Chain, run.at, Group)' = Pending(Chain, run.at, Group)
    BY <1>4, <1>7
  <2>3. ASSUME NEW x \in audit'.claims
        PROVE  \E g \in Begun : /\ g.chain = x[1] /\ x[2].stash \in Stashes(g)
                                /\ g = run.group => x[2] \in run'.submitted
    <3>1. CASE x \in audit.claims
      <4>1. PICK g \in Begun : /\ g.chain = x[1] /\ x[2].stash \in Stashes(g)
                               /\ g = run.group => x[2] \in run.submitted
        BY <1>1, <3>1 DEF IInv, Claims
      <4> QED
        BY <1>4, <4>1
    <3>2. CASE x = <<c, p>>
      BY <1>1, <1>2, <1>4, <3>2
    <3> QED
      BY <1>5, <2>3, <3>1, <3>2
  <2>4. \A q \in run'.submitted : <<Chain, q>> \in audit'.claims
    BY <1>1, <1>4, <1>5 DEF IInv, Claims
  <2>5. /\ run'.pending \subseteq Pending(Chain, run.at, Group)
        /\ \A q \in run'.pending : <<Chain, q>> \notin audit'.claims
        /\ ~run'.rejected => Pending(Chain, run.at, Group) \subseteq run'.pending \union run'.submitted
    BY <1>1, <1>4, <1>5 DEF IInv, Claims
  <2> QED
    BY <1>4, <1>7, <2>1, <2>2, <2>3, <2>4, <2>5 DEF Claims
<1>10. Successes'
  BY <1>1, <1>4, <1>5, <1>7, SuccessesStay DEF IsAtWork
<1>11. Causeless'
  <2>1. run'.code # 1
    BY <1>1, <1>4, NothingIsNone
  <2>2. ASSUME NEW d \in PayoutChains, IsOpen(d) PROVE IsOpen(d)'
    <3> SUFFICES ASSUME NEW q \in DueAt(d), <<d, q>> \notin audit'.claims
                 PROVE  q \notin best'[d] /\ activeEra[d] <= q.era + HistoryDepth
      BY <1>5 DEF IsOpen, DueAt
    <3>1. q \notin best[d] /\ activeEra[d] <= q.era + HistoryDepth
      BY <1>5, <2>2 DEF IsOpen
    <3>2. d # c \/ q # p
      BY <1>5
    <3> QED
      BY <1>3, <3>1, <3>2
  <2> QED
    BY <1>1, <1>4, <1>5, <2>1, <2>2 DEF IInv, Causeless
<1>12. Reports'
  <2>1. Payable' = Payable
    BY ConfigStays
  <2>2. \A m : IsTrueOf(m) => IsTrueOf(m)'
    BY <1>5, <2>1 DEF IsTrueOf
  <2>3. ASSUME NEW x \in audit'.claims, NEW a \in Payable,
               a.chain = x[1], a.ss58 = x[2].stash, <<x[1], a.ss58>> \notin audit'.failed
        PROVE  IsToldOf(a, x)' \/ a \in Group
    <3>1. CASE x \in audit.claims
      <4>1. IsToldOf(a, x) \/ a \in Group
        BY <1>1, <1>5, <2>3, <3>1 DEF IInv, Reports
      <4> QED
        BY <1>5, <4>1 DEF IsToldOf
    <3>2. CASE x = <<c, p>>
      <4>1. run.group \in config.plan /\ a.chain = run.group.chain /\ a.ss58 \in Stashes(run.group)
        BY <1>1, <1>2, <2>3, <3>2 DEF Begun
      <4> QED
        BY <4>1, MemberIs DEF IInv, TypeOK, Group
    <3> QED
      BY <1>5, <2>3, <3>1, <3>2
  <2> QED
    BY <1>7, <2>1, <2>2, <2>3 DEF IInv, Reports
<1> QED
  BY <1>6, <1>8, <1>9, <1>10, <1>11, <1>12 DEF IInv

\* A claim that is rejected, for which there is a cause.
LEMMA RejectedKeeps ==
  ASSUME IInv, UNCHANGED <<config, chainVars, told, audit>>, run.pc = "claiming",
         NEW p \in run.pending, ~Accepts(Chain, p),
         run' = [run EXCEPT !.pending = @ \ {p}, !.rejected = TRUE]
  PROVE  IInv'
<1>1. /\ IsAtWork /\ Chain \in PayoutChains /\ run.at # None /\ run.at = audit.at[Chain]
      /\ run.code = None /\ run.at \in Snapshot(Chain)
  BY DEF IInv, Placed, IsAtWork, TypeOK
<1>2. audit.cause
  <2> SUFFICES ASSUME ~audit.cause
               PROVE  FALSE
    OBVIOUS
  <2>1. PICK c \in PayoutChains : c = Chain
    BY <1>1
  <2>2. p \in Pending(c, run.at, Group) /\ <<c, p>> \notin audit.claims
    BY <1>1, <2>1 DEF IInv, Claims
  <2>3. p \in Pages(c) /\ Due(run.at.era, p) /\ p \notin run.at.claimed
    BY <1>1, <2>1, <2>2, PendingIsDue
  <2>4. p \in DueAt(c)
    BY <1>1, <2>1, <2>3 DEF DueAt
  <2>5. IsOpen(c)
    BY <1>1, <2>1 DEF IInv, Causeless
  <2>6. p \notin best[c] /\ activeEra[c] <= p.era + HistoryDepth
    BY <2>2, <2>4, <2>5 DEF IsOpen
  <2>7. /\ p.era \in Nat /\ run.at.era \in Nat /\ activeEra[c] \in Nat
        /\ run.at.era <= activeEra[c]
    BY <1>1, <2>1, <2>3, PageIs DEF IInv, TypeOK, Snapshot
  <2>8. p.era < activeEra[c]
    BY <2>3, <2>7, PayoutsAssumption DEF Due
  <2> QED
    BY <2>1, <2>3, <2>6, <2>8, AcceptsIs
<1>3. /\ run' \in Run /\ run'.pc = "claiming" /\ run'.pending = run.pending \ {p} /\ run'.rejected
      /\ run'.submitted = run.submitted /\ run'.at = run.at
      /\ run'.group = run.group /\ run'.left = run.left
      /\ run'.anyFailure = run.anyFailure /\ run'.code = run.code
  BY DEF IInv, TypeOK, Run
<1>4. TypeOK'
  <2>1. audit' \in Audit /\ \A c \in PayoutChains : audit'.at[c] = audit.at[c]
    BY DEF IInv, TypeOK
  <2> QED
    BY <1>3, <2>1, RunType
<1>5. Begun' = Begun /\ Chain' = Chain /\ Group' = Group /\ IsAtWork'
  BY <1>3 DEF Begun, Chain, Group, Members, IsAtWork
<1>6. Placed'
  BY <1>1, <1>3, <1>5 DEF IInv, Placed
<1>7. Claims'
  <2>1. \A g : Stashes(g)' = Stashes(g)
    BY ConfigStays
  <2>2. Pending(Chain, run.at, Group)' = Pending(Chain, run.at, Group)
    BY <1>3, <1>5
  <2> QED
    BY <1>1, <1>3, <1>5, <2>1, <2>2 DEF IInv, Claims
<1>8. Successes'
  BY <1>1, <1>3, <1>5, SuccessesStay DEF IsAtWork
<1>9. Causeless'
  BY <1>2 DEF Causeless
<1>10. Reports'
  BY <1>1, <1>3, ReportsStay
<1> QED
  BY <1>4, <1>6, <1>7, <1>8, <1>9, <1>10 DEF IInv

LEMMA ClaimKeeps ==
  ASSUME IInv, Claim
  PROVE  IInv'
<1>1. PICK p \in run.pending :
        IF Accepts(Chain, p)
        THEN /\ best' = [best EXCEPT ![Chain] = @ \union {p}]
             /\ run' = [run EXCEPT !.pending = @ \ {p}, !.submitted = @ \union {p}]
             /\ audit' = [audit EXCEPT !.claims = @ \union {<<Chain, p>>}]
        ELSE /\ run' = [run EXCEPT !.pending = @ \ {p}, !.rejected = TRUE]
             /\ UNCHANGED <<best, audit>>
  BY DEF Claim
<1>2. UNCHANGED <<config, activeEra, final, told>> /\ run.pc = "claiming"
  BY DEF Claim
<1>3. CASE Accepts(Chain, p)
  <2>1. PICK c : c = Chain
    OBVIOUS
  <2>2. /\ best' = [best EXCEPT ![c] = @ \union {p}]
        /\ run' = [run EXCEPT !.pending = @ \ {p}, !.submitted = @ \union {p}]
        /\ audit' = [audit EXCEPT !.claims = @ \union {<<c, p>>}]
    BY <1>1, <1>3, <2>1
  <2> QED
    BY <1>2, <2>1, <2>2, AcceptedKeeps
<1>4. CASE ~Accepts(Chain, p)
  <2>1. UNCHANGED <<config, chainVars, told, audit>>
    BY <1>1, <1>2, <1>4 DEF chainVars
  <2>2. run' = [run EXCEPT !.pending = @ \ {p}, !.rejected = TRUE]
    BY <1>1, <1>4
  <2> QED
    BY <1>2, <1>4, <2>1, <2>2, RejectedKeeps
<1> QED
  BY <1>3, <1>4

LEMMA GroupThrowsKeeps ==
  ASSUME IInv, GroupThrows
  PROVE  IInv'
<1>1. /\ run.pc \in {"scanning", "claiming"} /\ UNCHANGED <<config, activeEra, final, told>>
      /\ run' = [run EXCEPT !.pc = "threw"] /\ audit' = [audit EXCEPT !.cause = TRUE]
  BY DEF GroupThrows
<1>2. PICK c \in PayoutChains : c = Chain
  BY <1>1 DEF IInv, Placed
<1>3. /\ best' \in [PayoutChains -> SUBSET Page]
      /\ \A d \in PayoutChains : best'[d] \subseteq Pages(d)
  <2>1. CASE UNCHANGED best
    BY <2>1 DEF IInv, TypeOK
  <2>2. CASE \E p \in run.pending : Accepts(Chain, p) /\ best' = [best EXCEPT ![Chain] = @ \union {p}]
    <3>1. PICK p \in run.pending : Accepts(c, p) /\ best' = [best EXCEPT ![c] = @ \union {p}]
      BY <1>2, <2>2
    <3>2. p.stash \in DOMAIN Stakers(c, p.era) /\ p.page < Stakers(c, p.era)[p.stash] /\ p \in Page
      BY <3>1 DEF Accepts, IInv, TypeOK, Run
    <3>3. PICK d \in PayoutChains : p \in Pages(d)
      BY <3>2 DEF Page
    <3>4. p \in Pages(c)
      <4>1. p = [stash |-> p.stash, era |-> p.era, page |-> p.page] /\ p.page \in 0 .. Stakers(d, p.era)[p.stash] - 1
        BY <3>3, PageIs
      <4>2. p.era \in DOMAIN Overview[c] /\ Stakers(c, p.era)[p.stash] \in Nat
        BY <3>2, PayoutsAssumption DEF Stakers, Or, Lookup
      <4>3. Stakers(d, p.era)[p.stash] \in Nat
        BY <3>3, PageIs, PayoutsAssumption DEF Stakers, Or, Lookup
      <4>4. p.page \in 0 .. Stakers(c, p.era)[p.stash] - 1
        BY <3>2, <4>1, <4>2, <4>3
      <4> QED
        BY <3>2, <4>1, <4>4, IsPage
    <3> QED
      BY <3>1, <3>4, BestGrows DEF IInv
  <2> QED
    BY <2>1, <2>2 DEF GroupThrows
<1>4. /\ run' \in Run /\ run'.pc = "threw" /\ run'.pending = run.pending
      /\ run'.submitted = run.submitted /\ run'.at = run.at
      /\ run'.group = run.group /\ run'.left = run.left
      /\ run'.rejected = run.rejected /\ run'.anyFailure = run.anyFailure /\ run'.code = run.code
  BY <1>1 DEF IInv, TypeOK, Run
<1>5. /\ audit' \in Audit /\ audit'.cause /\ audit'.at = audit.at /\ audit'.claims = audit.claims
      /\ audit'.failed = audit.failed /\ audit'.lost = audit.lost
  BY <1>1, AuditCause DEF IInv
<1>6. TypeOK'
  BY <1>1, <1>3, <1>4, <1>5, ConfigStays DEF IInv, TypeOK
<1>7. IsAtWork /\ run.code = None
  BY <1>1 DEF IInv, Placed, IsAtWork
<1>8. Begun' = Begun /\ Chain' = Chain /\ Group' = Group /\ IsAtWork'
  BY <1>1, <1>4 DEF Begun, Chain, Group, Members, IsAtWork
<1>9. Placed'
  BY <1>1, <1>4, <1>5, <1>7, <1>8 DEF IInv, Placed
<1>10. Claims'
  <2>1. \A g : Stashes(g)' = Stashes(g)
    BY <1>1, ConfigStays
  <2> QED
    BY <1>4, <1>5, <1>7, <1>8, <2>1 DEF IInv, Claims
<1>11. Successes'
  BY <1>1, <1>4, <1>5, <1>7, SuccessesStay
<1>12. Causeless'
  BY <1>5 DEF Causeless
<1>13. Reports'
  BY <1>1, <1>4, <1>5, <1>7, ReportsStay
<1> QED
  BY <1>6, <1>9, <1>10, <1>11, <1>12, <1>13 DEF IInv

\* The run after the report of its group, before it goes on.
LEMMA LeftIs ==
  ASSUME TypeOK, NEW ok \in BOOLEAN, NEW r, r = Left([run EXCEPT !.anyFailure = @ \/ ~ok])
  PROVE  /\ r \in Run /\ r.pc = "over" /\ r.submitted = {} /\ ~r.rejected
         /\ r.anyFailure = (run.anyFailure \/ ~ok) /\ r.group = run.group /\ r.left = run.left
         /\ r.at = run.at /\ r.code = run.code
<1>1. run \in Run
  BY DEF TypeOK
<1>2. PICK any : any = (run.anyFailure \/ ~ok)
  OBVIOUS
<1>3. any \in BOOLEAN
  BY <1>2
<1>4. r = [run EXCEPT !.anyFailure = any, !.pc = "over", !.pending = {}, !.submitted = {}, !.rejected = FALSE]
  BY <1>1, <1>2 DEF Left, Run
<1>5. r \in Run
  BY <1>1, <1>3, <1>4 DEF Run
<1>6. /\ r.pc = "over" /\ r.submitted = {} /\ ~r.rejected /\ r.anyFailure = any
      /\ r.group = run.group /\ r.left = run.left /\ r.at = run.at /\ r.code = run.code
  BY <1>1, <1>4 DEF Run
<1> QED
  BY <1>2, <1>5, <1>6

LEMMA ReportedAudit ==
  ASSUME TypeOK, run.group \in config.plan, NEW ok \in BOOLEAN,
         NEW lost, lost \subseteq UNION {Routed(a) : a \in Group},
         audit' = [audit EXCEPT !.lost = @ \union lost,
                                !.failed = IF ok THEN @ ELSE @ \union {<<Chain, a.ss58>> : a \in Group}]
  PROVE  /\ audit' \in Audit /\ audit'.at = audit.at /\ audit'.claims = audit.claims
         /\ audit'.cause = audit.cause /\ audit'.lost = audit.lost \union lost
         /\ audit.failed \subseteq audit'.failed
         /\ ~ok => \A a \in Group : <<Chain, a.ss58>> \in audit'.failed
<1>1. audit \in Audit
  BY DEF TypeOK
<1>2. PICK failed : failed = IF ok THEN audit.failed ELSE audit.failed \union {<<Chain, a.ss58>> : a \in Group}
  OBVIOUS
<1>3. audit' = [audit EXCEPT !.lost = @ \union lost, !.failed = failed]
  BY <1>2
<1>4. \A a \in Group : a \in Accounts /\ a.chain = Chain
  BY DEF Group, Members, Chain, Accounts
<1>5. failed \subseteq {<<a.chain, a.ss58>> : a \in Accounts}
  <2>1. audit.failed \subseteq {<<a.chain, a.ss58>> : a \in Accounts}
    BY <1>1 DEF Audit
  <2>2. {<<Chain, a.ss58>> : a \in Group} \subseteq {<<a.chain, a.ss58>> : a \in Accounts}
    BY <1>4
  <2> QED
    BY <1>2, <2>1, <2>2
<1>6. audit.lost \union lost \subseteq UNION {Routed(a) : a \in Accounts}
  <2>1. audit.lost \subseteq UNION {Routed(a) : a \in Accounts}
    BY <1>1 DEF Audit
  <2> QED
    BY <1>4, <2>1
<1>7. audit' \in Audit
  BY <1>1, <1>3, <1>5, <1>6 DEF Audit
<1>8. /\ audit'.at = audit.at /\ audit'.claims = audit.claims
      /\ audit'.cause = audit.cause /\ audit'.lost = audit.lost \union lost /\ audit'.failed = failed
  BY <1>1, <1>3 DEF Audit
<1>9. audit.failed \subseteq failed /\ (~ok => \A a \in Group : <<Chain, a.ss58>> \in failed)
  BY <1>2
<1> QED
  BY <1>7, <1>8, <1>9

\* The channels of a report are those of its accounts.
LEMMA ReportedChannels ==
  ASSUME NEW accounts, NEW ok, NEW claims
  PROVE  DOMAIN ReportClaims(accounts, ok, claims) \subseteq UNION {Routed(a) : a \in accounts}
  BY DEF ReportClaims

LEMMA ReportKeeps ==
  ASSUME IInv, Report
  PROVE  IInv'
<1>1. /\ run.pc = "threw" \/ (run.pc = "claiming" /\ run.pending = {})
      /\ UNCHANGED <<config, chainVars>>
  BY DEF Report
<1>2. PICK ok \in BOOLEAN : ok = (run.pc # "threw" /\ ~run.rejected)
  OBVIOUS
<1>3. PICK messages : messages = ReportClaims(Group, ok, run.submitted)
  OBVIOUS
<1>4. PICK lost \in SUBSET DOMAIN messages :
        /\ told' = told \union {[chain |-> Chain, channel |-> c, content |-> messages[c]] :
                                  c \in DOMAIN messages \ lost}
        /\ audit' = [audit EXCEPT !.lost = @ \union lost,
                                  !.failed = IF ok THEN @ ELSE @ \union {<<Chain, a.ss58>> : a \in Group}]
        /\ run' \in Onward(Left([run EXCEPT !.anyFailure = @ \/ ~ok]))
  <2> DEFINE sent(okay, all, some) ==
        /\ told' = told \union {[chain |-> Chain, channel |-> c, content |-> all[c]] :
                                  c \in DOMAIN all \ some}
        /\ audit' = [audit EXCEPT !.lost = @ \union some,
                                  !.failed = IF okay THEN @ ELSE @ \union {<<Chain, a.ss58>> : a \in Group}]
        /\ run' \in Onward(Left([run EXCEPT !.anyFailure = @ \/ ~okay]))
  <2>1. LET okay == run.pc # "threw" /\ ~run.rejected
            all == ReportClaims(Group, okay, run.submitted)
        IN \E some \in SUBSET DOMAIN all : sent(okay, all, some)
    BY DEF Report
  <2> HIDE DEF sent
  <2>2. \E some \in SUBSET DOMAIN messages : sent(ok, messages, some)
    BY <1>2, <1>3, <2>1
  <2> QED
    BY <2>2 DEF sent
<1>5. PICK c \in PayoutChains : c = Chain
  BY <1>1 DEF IInv, Placed
<1>6. /\ IsAtWork /\ run.code = None /\ run.at # None /\ run.at = audit.at[c]
      /\ run.group \in Begun /\ run.group \in config.plan /\ run.group.chain = c
      /\ run.left \subseteq config.plan /\ run.at \in Snapshot(c)
      /\ \A g \in Begun, h \in run.left : g.chain = h.chain => h.chain = run.group.chain
  BY <1>1, <1>5 DEF IInv, Placed, IsAtWork, Begun, TypeOK, Run, Chain
<1>7. lost \subseteq UNION {Routed(a) : a \in Group}
  BY <1>3, <1>4, ReportedChannels
<1>8. /\ audit' \in Audit /\ audit'.at = audit.at /\ audit'.claims = audit.claims
      /\ audit'.cause = audit.cause /\ audit'.lost = audit.lost \union lost
      /\ audit.failed \subseteq audit'.failed
      /\ ~ok => \A a \in Group : <<Chain, a.ss58>> \in audit'.failed
  BY <1>4, <1>6, <1>7, ReportedAudit DEF IInv
<1>9. PICK r : r = Left([run EXCEPT !.anyFailure = @ \/ ~ok])
  OBVIOUS
<1>10. /\ r \in Run /\ r.pc = "over" /\ r.submitted = {} /\ ~r.rejected
       /\ r.anyFailure = (run.anyFailure \/ ~ok) /\ r.group = run.group /\ r.left = run.left
       /\ r.at = run.at /\ r.code = None
  BY <1>6, <1>9, LeftIs DEF IInv
<1>11. r.group # None
  <2>1. run.group \in [chain : RpcUrls, signer : Secrets]
    BY <1>6 DEF IInv, TypeOK, Planned, BuildPlan
  <2> QED
    BY <1>10, <2>1, NothingIsNone
<1>12. /\ run' \in Run /\ run'.pc \in {"scanning", "connecting", "idle"}
       /\ run'.pc = "idle" => /\ run.left = {} /\ ~run'.anyFailure
                              /\ run'.code = IF r.anyFailure THEN 1 ELSE 0
       /\ run'.pc # "idle" =>
            /\ run'.code = None /\ run'.anyFailure = r.anyFailure
            /\ run'.group \in run.left /\ run'.left = run.left \ {run'.group}
            /\ run'.at = run.at /\ run'.submitted = {} /\ ~run'.rejected
       /\ run'.pc = "scanning" => run'.group.chain = c
       /\ run'.pc = "connecting" => \A g \in run.left : g.chain # c
  BY <1>4, <1>6, <1>9, <1>10, <1>11, OnwardIs
<1>13. TypeOK'
  BY <1>1, <1>8, <1>12, RunType
<1>14. run'.pc # "idle" => Begun' = Begun \union {run'.group} /\ run'.group \notin Begun
  BY <1>1, <1>6, <1>12 DEF Begun
<1>15. Placed'
  <2>1. CASE run'.pc = "idle"
    BY <2>1 DEF Placed, IsAtWork
  <2>2. CASE run'.pc # "idle"
    <3>1. ASSUME NEW g \in Begun', NEW h \in run'.left, g.chain = h.chain
          PROVE  h.chain = run'.group.chain
      <4>1. CASE g = run'.group
        BY <3>1, <4>1
      <4>2. CASE g \in Begun
        <5>1. h \in run.left /\ h.chain = c
          BY <1>6, <1>12, <2>2, <3>1, <4>2
        <5> QED
          BY <1>12, <2>2, <5>1
      <4> QED
        BY <1>14, <2>2, <3>1, <4>1, <4>2
    <3>2. ASSUME run'.pc = "connecting", NEW g \in Begun', g.chain = run'.group.chain
          PROVE  g = run'.group
      BY <1>6, <1>12, <1>14, <2>2, <3>2
    <3>3. run'.pc = "scanning" => Chain' = c
      BY <1>12 DEF Chain
    <3>4. run'.group \in Begun'
      BY <1>14, <2>2
    <3> QED
      BY <1>6, <1>8, <1>12, <2>2, <3>1, <3>2, <3>3, <3>4 DEF Placed
  <2> QED
    BY <2>1, <2>2
<1>16. \A g : Stashes(g)' = Stashes(g)
  BY <1>1, ConfigStays
<1>17. Claims'
  <2>1. CASE run'.pc = "idle"
    BY <2>1 DEF Claims, IsAtWork
  <2>2. CASE run'.pc # "idle"
    <3>1. ASSUME NEW x \in audit'.claims
          PROVE  \E g \in Begun' : g.chain = x[1] /\ x[2].stash \in Stashes(g) /\ g # run'.group
      <4>1. PICK g \in Begun : g.chain = x[1] /\ x[2].stash \in Stashes(g)
        BY <1>6, <1>8, <3>1 DEF IInv, Claims
      <4> QED
        BY <1>14, <2>2, <4>1
    <3> QED
      BY <1>12, <1>16, <2>2, <3>1 DEF Claims
  <2> QED
    BY <2>1, <2>2
<1>18. ASSUME ~r.anyFailure, NEW g \in Begun
       PROVE  HasClaimed(g)
  <2>1. ~run.anyFailure /\ ok
    BY <1>10, <1>18
  <2>2. CASE g # run.group
    <3>1. g \in Through
      BY <1>6, <1>18, <2>2, NothingIsNone DEF Through
    <3> QED
      BY <1>6, <2>1, <3>1 DEF IInv, Successes
  <2>3. CASE g = run.group
    <3>1. run.pc = "claiming" /\ run.pending = {} /\ ~run.rejected
      BY <1>1, <1>2, <2>1
    <3>2. Pending(c, run.at, Group) \subseteq run.submitted
      BY <1>5, <1>6, <3>1 DEF IInv, Claims
    <3>3. ASSUME NEW p \in DueAt(c), p.stash \in Stashes(g)
          PROVE  <<c, p>> \in audit.claims
      <4>1. p \in Pending(c, run.at, Group)
        BY <1>6, <2>3, <3>3, PendingIsDue DEF DueAt, Stashes, Group
      <4> QED
        BY <1>5, <1>6, <3>2, <4>1 DEF IInv, Claims
    <3> QED
      BY <1>6, <2>3, <3>3 DEF HasClaimed
  <2> QED
    BY <2>2, <2>3
<1>19. Successes'
  <2> SUFFICES ASSUME (IsAtWork' /\ ~run'.anyFailure) \/ run'.code = 0, NEW g \in Through'
               PROVE  HasClaimed(g)'
    BY DEF Successes
  <2>1. ~r.anyFailure /\ g \in Begun
    <3>1. CASE run'.pc = "idle"
      BY <1>1, <1>12, <3>1 DEF IsAtWork, Through, Begun
    <3>2. CASE run'.pc # "idle"
      BY <1>12, <1>14, <3>2, NothingIsNone DEF IsAtWork, Through
    <3> QED
      BY <3>1, <3>2
  <2>2. HasClaimed(g)
    BY <1>18, <2>1
  <2> QED
    BY <1>8, <1>16, <2>2 DEF HasClaimed, DueAt
<1>20. Causeless'
  <2>1. ASSUME ~audit.cause
        PROVE  ~r.anyFailure
    BY <1>2, <1>6, <1>10, <2>1 DEF IInv, Causeless
  <2>2. run'.code = 1 => r.anyFailure
    BY <1>12, NothingIsNone
  <2>3. \A d \in PayoutChains : IsOpen(d) => IsOpen(d)'
    BY <1>1, <1>8 DEF IsOpen, DueAt, chainVars
  <2>4. ASSUME IsAtWork', ~audit.cause
        PROVE  ~run'.anyFailure /\ ~run'.rejected /\ run'.pc # "threw"
    BY <1>12, <2>1, <2>4 DEF IsAtWork
  <2>5. ASSUME ~audit.cause, NEW d \in PayoutChains, audit.at[d] # None
        PROVE  IsOpen(d)
    BY <1>6, <2>5 DEF IInv, Causeless
  <2> QED
    BY <1>8, <2>1, <2>2, <2>3, <2>4, <2>5 DEF Causeless
<1>21. Payable' = Payable
  BY <1>1, ConfigStays
<1>22. ASSUME NEW m \in told'
       PROVE  IsTrueOf(m)'
  <2>1. CASE m \in told
    BY <1>8, <1>21, <2>1 DEF IInv, Reports, IsTrueOf
  <2>2. CASE m \notin told
    <3>1. PICK channel \in DOMAIN messages :
            m = [chain |-> Chain, channel |-> channel, content |-> messages[channel]]
      BY <1>4, <1>22, <2>2
    <3>2. PICK content : content = messages[channel]
      OBVIOUS
    <3>3. m.chain = c /\ m.channel = channel /\ m.content = content
      BY <1>5, <3>1, <3>2
    <3> SUFFICES ASSUME content.ok, NEW s \in content.accounts
                 PROVE  /\ \E a \in Payable : a.chain = c /\ a.ss58 = s /\ channel \in Routed(a)
                        /\ content.eras[s] # {}
                        /\ \A e \in content.eras[s] :
                             \E x \in audit.claims : x[1] = c /\ x[2].stash = s /\ x[2].era = e
      BY <1>8, <1>21, <3>3 DEF IsTrueOf
    <3>4. /\ \E a \in Group : a.ss58 = s /\ channel \in Routed(a)
          /\ content.eras[s] # {}
          /\ \A e \in content.eras[s] : \E q \in run.submitted : q.stash = s /\ q.era = e
      <4>1. channel \in DOMAIN ReportClaims(Group, ok, run.submitted)
        BY <1>3, <3>1
      <4>2. content = ReportClaims(Group, ok, run.submitted)[channel]
        BY <1>3, <3>2
      <4> QED
        BY <4>1, <4>2, ReportIsTrue
    <3>5. \A a \in Group : a \in Payable /\ a.chain = c
      BY <1>6, PayableIs DEF Group, Members, IInv, TypeOK
    <3>6. ASSUME NEW e \in content.eras[s]
          PROVE  \E x \in audit.claims : x[1] = c /\ x[2].stash = s /\ x[2].era = e
      <4>1. PICK q \in run.submitted : q.stash = s /\ q.era = e
        BY <3>4, <3>6
      <4>2. <<c, q>> \in audit.claims
        BY <1>5, <1>6, <4>1 DEF IInv, Claims
      <4> QED
        BY <4>1, <4>2
    <3> QED
      BY <3>4, <3>5, <3>6
  <2> QED
    BY <2>1, <2>2
<1>23. ASSUME NEW x \in audit'.claims, NEW a \in Payable,
              a.chain = x[1], a.ss58 = x[2].stash, <<x[1], a.ss58>> \notin audit'.failed
       PROVE  IsToldOf(a, x)'
  <2>1. <<x[1], a.ss58>> \notin audit.failed /\ x \in audit.claims
    BY <1>8, <1>23
  <2>2. IsToldOf(a, x) \/ a \in Group
    BY <1>6, <1>23, <2>1 DEF IInv, Reports
  <2>3. CASE IsToldOf(a, x)
    <3> SUFFICES ASSUME NEW channel \in Routed(a) \ audit'.lost
                 PROVE  \E m \in told' : /\ m.chain = x[1] /\ m.channel = channel /\ m.content.ok
                                         /\ a.ss58 \in m.content.accounts
                                         /\ x[2].era \in m.content.eras[a.ss58]
      BY DEF IsToldOf
    <3>1. channel \in Routed(a) \ audit.lost /\ told \subseteq told'
      BY <1>4, <1>8
    <3> QED
      BY <2>3, <3>1 DEF IsToldOf
  <2>4. CASE a \in Group
    <3>1. x[1] = c /\ a.ss58 \in Stashes(run.group)
      BY <1>6, <1>23, <2>4 DEF Group, Members, Stashes
    <3>2. ok
      BY <1>5, <1>8, <1>23, <2>4, <3>1
    <3>3. x[2] \in run.submitted
      <4>1. PICK g \in Begun : /\ g.chain = x[1] /\ x[2].stash \in Stashes(g)
                               /\ g = run.group => x[2] \in run.submitted
        BY <1>6, <2>1 DEF IInv, Claims
      <4>2. g = run.group
        BY <1>6, <1>23, <3>1, <4>1, OneGroup DEF Begun, IInv, TypeOK
      <4> QED
        BY <4>1, <4>2
    <3> SUFFICES ASSUME NEW channel \in Routed(a) \ audit'.lost
                 PROVE  \E m \in told' : /\ m.chain = x[1] /\ m.channel = channel /\ m.content.ok
                                         /\ a.ss58 \in m.content.accounts
                                         /\ x[2].era \in m.content.eras[a.ss58]
      BY DEF IsToldOf
    <3>4. /\ channel \in DOMAIN messages /\ messages[channel].ok
          /\ a.ss58 \in messages[channel].accounts
          /\ x[2].era \in messages[channel].eras[a.ss58]
      <4>1. messages = ReportClaims(Group, TRUE, run.submitted)
        BY <1>3, <3>2
      <4>2. x[2].stash = a.ss58 /\ channel \in Routed(a)
        BY <1>23
      <4> QED
        BY <2>4, <3>3, <4>1, <4>2, ReportIsWhole
    <3>5. channel \notin lost
      BY <1>8
    <3>6. PICK m : m = [chain |-> Chain, channel |-> channel, content |-> messages[channel]]
      OBVIOUS
    <3>7. m \in told'
      BY <1>4, <3>4, <3>5, <3>6
    <3>8. m.chain = x[1] /\ m.channel = channel /\ m.content = messages[channel]
      BY <1>5, <3>1, <3>6
    <3> QED
      BY <3>4, <3>7, <3>8
  <2> QED
    BY <2>2, <2>3, <2>4
<1>24. Reports'
  BY <1>21, <1>22, <1>23 DEF Reports
<1> QED
  BY <1>13, <1>15, <1>17, <1>19, <1>20, <1>24 DEF IInv

-----------------------------------------------------------------------------
(***************************************************************************)
(* The invariant.                                                          *)
(***************************************************************************)
LEMMA InitInv ==
  ASSUME Init
  PROVE  IInv
<1>1. PICK files \in Configurations : config = Resolved(files)
  BY DEF Init
<1>2. Planned
  BY <1>1, ResolvedIsPlanned
<1>3. /\ activeEra = FirstEra /\ best = [c \in PayoutChains |-> {}] /\ final = best
      /\ run = Ended(None) /\ told = {} /\ audit = Nothing
  BY DEF Init
<1>4. /\ audit \in Audit /\ \A c \in PayoutChains : audit.at[c] = None
  <2>1. PICK at : at = [c \in PayoutChains |-> None]
    OBVIOUS
  <2>2. Nothing = [at |-> at, claims |-> {}, failed |-> {}, lost |-> {}, cause |-> FALSE]
    BY <2>1 DEF Nothing
  <2> QED
    BY <1>3, <2>1, <2>2, NothingType
<1>5. run \in Run /\ run.pc = "idle" /\ run.code = None
  BY <1>3, EndedType
<1>6. TypeOK
  BY <1>2, <1>3, <1>4, <1>5, PayoutsAssumption DEF TypeOK
<1>7. Placed /\ Claims
  BY <1>5 DEF Placed, Claims, IsAtWork
<1>8. Successes /\ Causeless
  BY <1>5, NothingIsNone DEF Successes, Causeless, IsAtWork
<1>9. Reports
  BY <1>3, <1>5 DEF Reports, IsAtWork
<1> QED
  BY <1>6, <1>7, <1>8, <1>9 DEF IInv

LEMMA NextInv ==
  ASSUME IInv, [Next]_vars
  PROVE  IInv'
<1>1. CASE RunStep
  BY <1>1, StartKeeps, ConnectKeeps, ScanKeeps, ClaimKeeps, GroupThrowsKeeps, ReportKeeps, KillKeeps
  DEF RunStep
<1>2. CASE \E chain \in PayoutChains : ChainStep(chain)
  BY <1>2, FinalizeKeeps, ReorganiseKeeps, RivalClaimsKeeps, EraPassesKeeps DEF ChainStep
<1>3. CASE UNCHANGED vars
  <2>1. UNCHANGED <<config, activeEra, best, final, run, told, audit>>
    BY <1>3 DEF vars, chainVars
  <2>2. TypeOK'
    BY <2>1, ConfigStays DEF IInv, TypeOK
  <2>3. \A c \in PayoutChains : IsOpen(c) => IsOpen(c)'
    BY <2>1 DEF IsOpen, DueAt
  <2> QED
    BY <2>1, <2>2, <2>3, ChainStepKeeps, OpenStays DEF IInv
<1> QED
  BY <1>1, <1>2, <1>3 DEF Next

LEMMA Invariant == Spec => []IInv
  BY InitInv, NextInv, PTL DEF Spec

LEMMA SuccessFollows ==
  ASSUME IInv
  PROVE  SuccessMeansClaimed
<1> SUFFICES ASSUME run.code = 0, NEW a \in Payable
             PROVE  /\ audit.at[a.chain] # None
                    /\ \A p \in Pages(a.chain) :
                         /\ p.stash = a.ss58 /\ Due(audit.at[a.chain].era, p)
                         /\ p \notin audit.at[a.chain].claimed
                         => <<a.chain, p>> \in audit.claims
  BY DEF SuccessMeansClaimed
<1>1. PICK g \in config.plan : a \in Members(g) /\ g.chain = a.chain
  BY PayableIs DEF IInv, TypeOK
<1>2. HasClaimed(g)
  BY DEF IInv, Successes, Through
<1>3. a.ss58 \in Stashes(g)
  BY <1>1 DEF Stashes
<1> QED
  BY <1>1, <1>2, <1>3 DEF HasClaimed, DueAt

LEMMA ReportsFollow ==
  ASSUME IInv
  PROVE  ToldWhatWasClaimed
<1>1. \A m \in told : IsTrueOf(m)
  BY DEF IInv, Reports
<1>2. ASSUME run.code # None, NEW x \in audit.claims, NEW a \in Payable,
             a.chain = x[1], a.ss58 = x[2].stash, <<x[1], a.ss58>> \notin audit.failed
      PROVE  IsToldOf(a, x)
  BY <1>2 DEF IInv, Reports, Placed
<1> QED
  BY <1>1, <1>2 DEF ToldWhatWasClaimed, IsTrueOf, IsToldOf

\* For any configuration and any chain, rivals, reorganisations, failures and kills
\* included, a run of the job that exits with 0 got every page included that was due
\* and unclaimed in the blocks it started from (main.ts, claimGroup, getUnclaimedPages).
THEOREM SuccessIsComplete == Spec => []SuccessMeansClaimed
  BY Invariant, SuccessFollows, PTL

\* A run exits with 1 only for a cause outside of it: what it plans, scans and submits
\* never makes the chain reject its own claims (main.ts, planner.ts, reward-scanner.ts).
THEOREM FailuresHaveCauses == Spec => []FailureHasACause
<1>1. IInv => FailureHasACause
  BY DEF IInv, Causeless, FailureHasACause
<1> QED
  BY <1>1, Invariant, PTL

\* What a channel is told was claimed was, for an account of that channel; what was
\* claimed by a group that did not fail is told to every channel of its account, when
\* the run is over, but for the messages that were lost (claim-reporter.ts).
THEOREM ReportsAreTrueAndWhole == Spec => []ToldWhatWasClaimed
  BY Invariant, ReportsFollow, PTL
=============================================================================
