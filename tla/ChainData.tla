----------------------------- MODULE ChainData ------------------------------
(***************************************************************************)
(* What the monitors read of a chain: the queries of the data provider     *)
(* (packages/chain/src/lib/data-provider.ts) with the cache around them    *)
(* (decorators.ts), and the content of an XCM message (monitors/xcm.ts).   *)
(*                                                                         *)
(* The storage of a block is a record of functions on the keys that are    *)
(* there: prefs (commission of the validators), bonded, ledger, payee,     *)
(* elected (the stakers of each era), activeEra, free, assets (by token),  *)
(* superOf and identity.                                                   *)
(***************************************************************************)
EXTENDS MonitoringConfig

CONSTANT ExactDigits   \* a cached number with more digits comes back as an object

StakingCommission(s, a) == Lookup(s.prefs, a)

StakingBonded(s, a) == Lookup(s.bonded, a)
StakingLedgerActive(s, a) == Lookup(s.ledger, a)
StakingPayee(s, a) == Lookup(s.payee, a)
StakingActiveEra(s) == Or(s.activeEra, 0)
StakingEraValidators(s, era) == Or(Lookup(s.elected, era), {})

\* An account that is not there has nothing.
SystemAccountBalance(s, a) == Or(Lookup(s.free, a), 0)
TokenAccountBalance(s, token, a) == Or(Lookup(Or(Lookup(s.assets, token), <<>>), a), 0)

IdentitySuperOf(s, a) == Lookup(s.superOf, a)

\* A field counts when it holds a value or the hash of one.
ProcessIdentityInfo(info) ==
  LET set == {f \in DOMAIN info : info[f].type \in {"Raw", "Sha256"}}
  IN [f \in set |-> info[f].value]

IdentityOf(s, a) ==
  LET info == Lookup(s.identity, a)
  IN IF info = None THEN None ELSE ProcessIdentityInfo(info)

-----------------------------------------------------------------------------
(***************************************************************************)
(* The cache keeps JSON.  A number of more than ExactDigits digits is read *)
(* back as an object, and `<` between two such objects compares their      *)
(* decimal texts; any other pair is compared as numbers.                   *)
(***************************************************************************)
NumDigits(n) == CHOOSE d \in 1 .. 39 : n < 10 ^ d /\ (d = 1 \/ n >= 10 ^ (d - 1))

TextLess(x, y) ==
  LET dx == NumDigits(x)
      dy == NumDigits(y)
      widest == IF dx > dy THEN dx ELSE dy
      px == x * 10 ^ (widest - dx)
      py == y * 10 ^ (widest - dy)
  IN px < py \/ (px = py /\ dx < dy)

\* Mutant: whatever comes from the cache is a text.
IsLowerAsText(x, y, areCached) == IF areCached THEN TextLess(x, y) ELSE x < y

\* Two numbers that the cache gives back as objects.
AreObjects(x, y) == NumDigits(x) > ExactDigits /\ NumDigits(y) > ExactDigits

IsLower(x, y, areCached) ==
  IF areCached /\ AreObjects(x, y) THEN TextLess(x, y) ELSE x < y

-----------------------------------------------------------------------------
(***************************************************************************)
(* XCM.  A location is [interior, junction, value]: its account or         *)
(* parachain is read from a single junction (X1), a token's id from X3.    *)
(***************************************************************************)
ParseLocation(location) ==
  IF location = None THEN None
  ELSE IF location.interior = "X1" /\ location.junction \in {"AccountId32", "AccountKey20", "Parachain"}
       THEN location.value ELSE None

FindInstruction(message, type) ==
  LET found == SelectSeq(message, LAMBDA instr : instr.type = type)
  IN IF found = <<>> THEN None ELSE Head(found)

\* The beneficiary's deposit, or the one nested in a deposit of the reserve.
Beneficiary(message, destination) ==
  LET deposit == FindInstruction(message, "DepositAsset")
      reserve == FindInstruction(message, "DepositReserveAsset")
      nested == IF reserve = None THEN None ELSE FindInstruction(reserve.xcm, "DepositAsset")
  IN CASE deposit # None -> [to |-> deposit.beneficiary, chain |-> destination]
       [] deposit = None /\ reserve # None ->
            [to |-> IF nested = None THEN None ELSE nested.beneficiary, chain |-> reserve.dest]
       [] OTHER -> [to |-> None, chain |-> destination]

\* The fungible assets whose token is known by its place.
TokenAmounts(assets) ==
  {asset \in ToSet(assets) : asset.fungible /\ asset.interior \in {"Here", "X3"}}

XcmTransfers(message) ==
  LET reserve == FindInstruction(message, "ReserveAssetDeposited")
      teleport == FindInstruction(message, "ReceiveTeleportedAsset")
      inst == IF reserve # None THEN reserve ELSE teleport
      known == IF inst = None THEN {} ELSE TokenAmounts(inst.assets)
  IN IF known = {} THEN {None} ELSE {<<a.token, a.amount>> : a \in known}

=============================================================================
