------------------------------ MODULE Payouts ------------------------------
(***************************************************************************)
(* The payouts job (packages/payouts/src): a run that is started by a      *)
(* schedule, plans the accounts of the configuration by chain and signer,  *)
(* claims the reward pages nobody has claimed yet, one transaction each,   *)
(* and reports to the channels of the accounts.  A run keeps nothing: the  *)
(* next one starts from what the chain says.                               *)
(*                                                                         *)
(* A run reads the finalized state and submits to the best block, which    *)
(* may be ahead of it, may be reorganised, and where others claim too.     *)
(* One run at a time; it may be killed at any point and be started again   *)
(* at once.                                                                *)
(***************************************************************************)
EXTENDS MonitoringConfig

CONSTANTS
  Configurations, \* directories of configuration files, a sequence of files each
  RpcUrls,       \* the chains with an rpcUrl
  Secrets,       \* the signers with a secret
  MatrixUrl,     \* notifications.matrix?.url
  Grace,         \* gracePeriodEras
  HistoryDepth,  \* eras the chain keeps rewards of
  Overview,      \* the chain: pages of each stash elected in an era
  FirstEra, LastEra,  \* bounds: the active era of each chain
  MaxFaults      \* bound: kills, failing calls, reorganisations, rivals

PayoutChains == {"AssetHubPolkadot", "AssetHubKusama"}

ASSUME PayoutsAssumption ==
  /\ Grace \in Nat /\ HistoryDepth \in Nat \ {0} /\ MaxFaults \in Nat
  /\ FirstEra \in [PayoutChains -> Nat]
  /\ \A c \in PayoutChains : \A era \in DOMAIN Overview[c] :
       era \in Nat /\ \A stash \in DOMAIN Overview[c][era] : Overview[c][era][stash] \in Nat

VARIABLES
  config,      \* one of Configurations, with its accounts and plan
  activeEra,   \* per chain
  best, final, \* per chain: the pages claimed in the best and the finalized block
  run,         \* the run
  told,        \* messages of the run that arrived
  faults,      \* so far
  audit        \* history of the run: what its snapshots showed, what became of it

chainVars == <<activeEra, best, final>>
vars == <<config, chainVars, run, told, faults, audit>>

-----------------------------------------------------------------------------
(***************************************************************************)
(* The plan.                                                               *)
(***************************************************************************)
\* A group for each chain with an rpcUrl and each signer with a secret.
BuildPlan(accounts) ==
  {[chain |-> a.chain, signer |-> a.signer] :
     a \in {b \in Range(accounts) : b.chain \in RpcUrls /\ b.signer \in Secrets}}

\* groupBy: chains, and the signers of a chain, are taken in the order in which
\* they come up among the accounts.
Precedes(accounts, g, h) ==
  LET OnChain(x) == {i \in DOMAIN accounts : accounts[i].chain = x.chain}
      Of(x) == {i \in OnChain(x) : accounts[i].signer = x.signer}
  IN IF g.chain = h.chain THEN Min(Of(g)) < Min(Of(h)) ELSE Min(OnChain(g)) < Min(OnChain(h))

-----------------------------------------------------------------------------
(***************************************************************************)
(* What a group has to claim at a snapshot of the chain.                   *)
(***************************************************************************)
ClaimableEraRange(era) ==
  (IF era > HistoryDepth THEN era - HistoryDepth ELSE 0) .. era - 1 - Grace

\* Mutant: pages are counted from 1.
PagesFromOne(pageCount, claimed) == {page \in 1 .. pageCount - 1 : page \notin claimed}

UnclaimedPages(pageCount, claimed) == {page \in 0 .. pageCount - 1 : page \notin claimed}

Stakers(chain, era) == Or(Lookup(Overview[chain], era), [s \in {} |-> 0])

Pages(chain) ==
  UNION {UNION {{[stash |-> s, era |-> e, page |-> n] : n \in 0 .. Stakers(chain, e)[s] - 1} :
                  s \in DOMAIN Stakers(chain, e)} :
           e \in DOMAIN Overview[chain]}

\* None is no number, no group and no reading of a chain.
ASSUME NothingIsNone ==
  /\ None \notin Nat /\ None \notin [chain : RpcUrls, signer : Secrets]
  /\ \A chain \in PayoutChains : None \notin [era : Nat, claimed : SUBSET Pages(chain)]

PagesOf(chain, at, era, stash) ==
  {[stash |-> stash, era |-> era, page |-> page] :
     page \in UnclaimedPages(Stakers(chain, era)[stash],
                {p.page : p \in {q \in at.claimed : q.stash = stash /\ q.era = era}})}

Pending(chain, at, accounts) ==
  UNION {UNION {PagesOf(chain, at, era, stash) :
                  stash \in {a.ss58 : a \in accounts} \intersect DOMAIN Stakers(chain, era)} :
           era \in ClaimableEraRange(at.era)}

-----------------------------------------------------------------------------
(***************************************************************************)
(* The reports.  A channel hears of its own accounts.                      *)
(***************************************************************************)
\* Mutant: the accounts that claimed nothing are listed too.
AllAccounts(accounts, claims) == accounts

ClaimedAccounts(accounts, claims) == {a \in accounts : \E p \in claims : p.stash = a.ss58}

\* Without a url for its messenger an account is not reported.
Routed(account) ==
  IF account.notifications = None \/ MatrixUrl = None THEN {}
  ELSE IF account.notifications.messengerType = "Matrix" THEN account.notifications.channels ELSE {}

BuildContent(accounts, ok, claims) ==
  IF ~ok THEN [ok |-> FALSE, accounts |-> {a.ss58 : a \in accounts}, eras |-> <<>>]
  ELSE LET claimed == {a.ss58 : a \in ClaimedAccounts(accounts, claims)}
       IN [ok |-> TRUE, accounts |-> claimed,
           eras |-> [s \in claimed |-> {p.era : p \in {q \in claims : q.stash = s}}]]

ReportClaims(accounts, ok, claims) ==
  LET Of(channel) == {a \in accounts : channel \in Routed(a)}
      all == UNION {Routed(a) : a \in accounts}
  IN [channel \in {c \in all : ok => ClaimedAccounts(Of(c), claims) # {}} |->
        BuildContent(Of(channel), ok, claims)]
-----------------------------------------------------------------------------
(***************************************************************************)
(* The run.                                                                *)
(***************************************************************************)
Ended(code) ==
  [pc |-> "idle", group |-> None, left |-> {}, at |-> None, pending |-> {}, submitted |-> {},
   rejected |-> FALSE, anyFailure |-> FALSE, code |-> code]
Nothing == [at |-> [c \in PayoutChains |-> None], claims |-> {}, failed |-> {}, lost |-> {},
            cause |-> FALSE]

\* getPayoutAccounts and buildPlan: what every run makes of the files.
Resolved(files) ==
  LET rejected == PayoutsAreRejected(files)
      accounts == IF rejected THEN <<>> ELSE PayoutAccounts(files)
  IN [files |-> files, rejected |-> rejected, accounts |-> accounts, plan |-> BuildPlan(accounts)]

Init ==
  /\ config \in {Resolved(files) : files \in Configurations}
  /\ activeEra = FirstEra
  /\ best = [c \in PayoutChains |-> {}] /\ final = best
  /\ run = Ended(None) /\ told = {} /\ faults = 0 /\ audit = Nothing

Chain == run.group.chain
Members(group) ==
  {a \in Range(config.accounts) : a.chain = group.chain /\ a.signer = group.signer}
Group == Members(run.group)

Fault == faults < MaxFaults /\ faults' = faults + 1

\* Mutant: a group with a rejected claim is tried again, from the same block.
Retried(r) ==
  [r EXCEPT !.pc = IF r.rejected THEN "scanning" ELSE "over", !.pending = {}, !.submitted = {},
            !.rejected = FALSE]

Left(r) == [r EXCEPT !.pc = "over", !.pending = {}, !.submitted = {}, !.rejected = FALSE]

\* The first of the groups, to which the run goes on.
First(groups) == {g \in groups : \A h \in groups \ {g} : Precedes(config.accounts, g, h)}
To(pc, groups, r) ==
  {[r EXCEPT !.pc = pc, !.group = g, !.left = @ \ {g}] : g \in First(groups)}

\* After a group the next one of its chain, after the last of a chain the next chain.
Onward(r) ==
  LET here == {g \in r.left : r.group # None /\ g.chain = r.group.chain}
  IN IF r.pc # "over" THEN {r}
     ELSE IF here # {} THEN To("scanning", here, r)
     ELSE IF r.left # {} THEN To("connecting", r.left, r)
     ELSE {Ended(IF r.anyFailure THEN 1 ELSE 0)}

Start ==
  /\ run.pc = "idle"
  /\ run' \in IF config.rejected THEN {Ended(1)}
             ELSE Onward([Ended(None) EXCEPT !.pc = "over", !.left = config.plan])
  /\ told' = {} /\ audit' = [Nothing EXCEPT !.cause = config.rejected]
  /\ UNCHANGED <<config, chainVars, faults>>

\* A chain without a payout descriptor, or without a connection, ends the run.
Connect ==
  /\ run.pc = "connecting"
  /\ \/ /\ Chain \notin PayoutChains
        /\ run' = Ended(1) /\ audit' = [audit EXCEPT !.cause = TRUE] /\ UNCHANGED faults
     \/ /\ Chain \in PayoutChains
        /\ LET at == [era |-> activeEra[Chain], claimed |-> final[Chain]]
           IN /\ run' = [run EXCEPT !.pc = "scanning", !.at = at]
              /\ audit' = [audit EXCEPT !.at[Chain] = at,
                                        !.cause = @ \/ best[Chain] # final[Chain]]
        /\ UNCHANGED faults
     \/ /\ Fault
        /\ run' = Ended(1) /\ audit' = [audit EXCEPT !.cause = TRUE]
  /\ UNCHANGED <<config, chainVars, told>>

Scan ==
  /\ run.pc = "scanning"
  /\ run' = [run EXCEPT !.pc = "claiming", !.pending = Pending(Chain, run.at, Group)]
  /\ UNCHANGED <<config, chainVars, told, faults, audit>>

Accepts(chain, p) ==
  /\ p.era < activeEra[chain] /\ activeEra[chain] <= p.era + HistoryDepth
  /\ p.stash \in DOMAIN Stakers(chain, p.era) /\ p.page < Stakers(chain, p.era)[p.stash]
  /\ p \notin best[chain]

\* Era after era, the pages of a stash in their order.
IsNext(p, pending) ==
  \A q \in pending : p.era <= q.era /\ (p.era = q.era /\ p.stash = q.stash => p.page <= q.page)

Claim ==
  /\ run.pc = "claiming"
  /\ \E p \in run.pending :
       /\ IsNext(p, run.pending)
       /\ IF Accepts(Chain, p)
          THEN /\ best' = [best EXCEPT ![Chain] = @ \union {p}]
               /\ run' = [run EXCEPT !.pending = @ \ {p}, !.submitted = @ \union {p}]
               /\ audit' = [audit EXCEPT !.claims = @ \union {<<Chain, p>>}]
          ELSE /\ run' = [run EXCEPT !.pending = @ \ {p}, !.rejected = TRUE]
               /\ UNCHANGED <<best, audit>>
  /\ UNCHANGED <<config, activeEra, final, told, faults>>

\* A read fails, or a transaction does: the rest of the group is given up.  The
\* transaction may be included all the same.
GroupThrows ==
  /\ run.pc \in {"scanning", "claiming"} /\ Fault
  /\ \/ UNCHANGED best
     \/ \E p \in run.pending :
          IsNext(p, run.pending) /\ Accepts(Chain, p) /\ best' = [best EXCEPT ![Chain] = @ \union {p}]
  /\ run' = [run EXCEPT !.pc = "threw"] /\ audit' = [audit EXCEPT !.cause = TRUE]
  /\ UNCHANGED <<config, activeEra, final, told>>

\* The end of a group: its report, of which some messages may not arrive.
Report ==
  /\ run.pc = "threw" \/ (run.pc = "claiming" /\ run.pending = {})
  /\ LET ok == run.pc # "threw" /\ ~run.rejected
         messages == ReportClaims(Group, ok, run.submitted)
     IN \E lost \in SUBSET DOMAIN messages :
          /\ IF lost = {} THEN UNCHANGED faults ELSE Fault
          /\ told' = told \union {[chain |-> Chain, channel |-> c, content |-> messages[c]] :
                                    c \in DOMAIN messages \ lost}
          /\ audit' = [audit EXCEPT !.lost = @ \union lost,
                                    !.failed = IF ok THEN @ ELSE @ \union {<<Chain, a.ss58>> : a \in Group}]
          /\ run' \in Onward(Left([run EXCEPT !.anyFailure = @ \/ ~ok]))
  /\ UNCHANGED <<config, chainVars>>

Kill ==
  /\ run.pc # "idle" /\ Fault
  /\ run' = Ended(None)
  /\ UNCHANGED <<config, chainVars, told, audit>>

-----------------------------------------------------------------------------
(***************************************************************************)
(* The chains.                                                             *)
(***************************************************************************)
Finalize(chain) ==
  /\ final[chain] # best[chain] /\ final' = [final EXCEPT ![chain] = best[chain]]
  /\ UNCHANGED <<config, activeEra, best, run, told, faults, audit>>

Reorganise(chain) ==
  /\ Fault
  /\ \E dropped \in SUBSET (best[chain] \ final[chain]) \ {{}} :
       best' = [best EXCEPT ![chain] = @ \ dropped]
  /\ UNCHANGED <<config, activeEra, final, run, told, audit>>

\* Anyone may claim a page.
RivalClaims(chain) ==
  /\ Fault
  /\ \E p \in Pages(chain) :
       Accepts(chain, p) /\ best' = [best EXCEPT ![chain] = @ \union {p}]
  /\ audit' = [audit EXCEPT !.cause = TRUE]
  /\ UNCHANGED <<config, activeEra, final, run, told>>

\* Pages that leave the history cannot be claimed any more.
EraPasses(chain) ==
  /\ activeEra[chain] < LastEra[chain]
  /\ activeEra' = [activeEra EXCEPT ![chain] = @ + 1]
  /\ audit' = [audit EXCEPT !.cause = @ \/ \E p \in Pages(chain) :
                               Accepts(chain, p) /\ p.era + HistoryDepth = activeEra[chain]]
  /\ UNCHANGED <<config, best, final, run, told, faults>>

RunStep == Start \/ Connect \/ Scan \/ Claim \/ GroupThrows \/ Report \/ Kill
ChainStep(chain) == Finalize(chain) \/ Reorganise(chain) \/ RivalClaims(chain) \/ EraPasses(chain)
Next == RunStep \/ \E chain \in PayoutChains : ChainStep(chain)

\* The schedule goes on, calls are answered, blocks become final.
Fairness ==
  /\ WF_vars(Start) /\ WF_vars(Connect) /\ WF_vars(Scan) /\ WF_vars(Claim) /\ WF_vars(Report)
  /\ \A chain \in PayoutChains : WF_vars(Finalize(chain))

Spec == Init /\ [][Next]_vars /\ Fairness
-----------------------------------------------------------------------------
(***************************************************************************)
(* Properties.                                                             *)
(***************************************************************************)
\* The accounts whose chain and signer are configured.
Payable == {a \in Range(config.accounts) : a.chain \in RpcUrls /\ a.signer \in Secrets}

Due(era, p) == p.era + Grace < era /\ era <= p.era + HistoryDepth

\* A run that exits with 0 got every page included that was due, and not claimed,
\* in the finalized block it started from, for every account that has a chain and a
\* signer, whatever happened on the chain in between (main.ts, claimGroup).
SuccessMeansClaimed ==
  run.code = 0 =>
    \A a \in Payable :
      /\ audit.at[a.chain] # None
      /\ \A p \in Pages(a.chain) :
           /\ p.stash = a.ss58 /\ Due(audit.at[a.chain].era, p)
           /\ p \notin audit.at[a.chain].claimed
           => <<a.chain, p>> \in audit.claims

\* A run exits with 1 only for a cause outside of it: a call that failed, a
\* configuration that cannot be paid out, someone else's claim, a page that left the
\* history, or a claim of an earlier run that was not final when this one read the
\* chain.  Two groups of one run never claim the same page (getPayoutAccounts).
FailureHasACause == run.code = 1 => audit.cause

\* A success that a channel is told of is a claim of this run, for an account of
\* that channel; and once a run is over, every claim of a group that did not fail
\* has been told to each channel of its account, unless a message to that channel was
\* lost (reportClaims).
ToldWhatWasClaimed ==
  /\ \A m \in told : m.content.ok =>
       \A s \in m.content.accounts :
         /\ \E a \in Payable : a.chain = m.chain /\ a.ss58 = s /\ m.channel \in Routed(a)
         /\ m.content.eras[s] # {}
         /\ \A e \in m.content.eras[s] :
              \E c \in audit.claims : c[1] = m.chain /\ c[2].stash = s /\ c[2].era = e
  /\ run.code # None =>
       \A c \in audit.claims, a \in Payable :
         a.chain = c[1] /\ a.ss58 = c[2].stash /\ <<c[1], a.ss58>> \notin audit.failed =>
           \A channel \in Routed(a) \ audit.lost :
             \E m \in told : /\ m.chain = c[1] /\ m.channel = channel /\ m.content.ok
                             /\ a.ss58 \in m.content.accounts
                             /\ c[2].era \in m.content.eras[a.ss58]

\* "A missed run self-heals on the next one": a page that is due is claimed for
\* good, or leaves the history, if runs go on and only so many things fail, and if
\* no chain without a payout descriptor ends each run before its own comes.
IsReachable(chain) ==
  \E g \in config.plan :
    /\ g.chain = chain /\ chain \in PayoutChains
    /\ \A h \in config.plan : Precedes(config.accounts, h, g) => h.chain \in PayoutChains

EveryPageIsClaimed ==
  \A chain \in PayoutChains : \A p \in Pages(chain) :
    (/\ \E a \in Payable : a.chain = chain /\ a.ss58 = p.stash
     /\ IsReachable(chain)
     /\ Due(activeEra[chain], p))
    ~> (p \in final[chain] \/ ~Due(activeEra[chain], p))
=============================================================================
