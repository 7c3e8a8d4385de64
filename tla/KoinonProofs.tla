----------------------------- MODULE KoinonProofs ------------------------------
(***************************************************************************)
(* Theorems about Koinon for every set of merchants, customers and         *)
(* alliances, every rate, budget, fee and scale.                           *)
(***************************************************************************)
EXTENDS Koinon, Totals, FiniteSetTheorems, TLAPS

Members(x) == {m \in Merchant : member[x][m].open}

(* Counting members makes sense because there are finitely many at a time;  *)
(* a membership presupposes its alliance and a rate one can divide by.      *)
Memberships ==
  /\ \A x \in Alliance : /\ IsFiniteSet(Members(x))
                         /\ alliance[x].members = Cardinality(Members(x))
                         /\ alliance[x].open \/ Members(x) = {}
  /\ \A m \in Merchant : merchant[m].joined # NoAlliance => member[merchant[m].joined][m].open

RatesDivide == \A x \in Alliance, m \in Merchant : member[x][m].open => member[x][m].rate > 0

PointsHaveAMerchant == \A m \in Merchant : supply[m] > 0 => merchant[m].open

KoinonInv == TypeOK /\ Memberships /\ RatesDivide /\ InflowIsCounted /\ PointsHaveAMerchant

-----------------------------------------------------------------------------
(* Arithmetic *)

(* Rounding down loses, and a quotient grows with what is divided.          *)
LEMMA Quotient ==
  ASSUME NEW n \in Nat, NEW d \in Nat \ {0}
  PROVE  n \div d \in Nat /\ (n \div d) * d <= n
OBVIOUS

LEMMA QuotientGrows ==
  ASSUME NEW n \in Int, NEW k \in Int, NEW d \in Nat \ {0}, n <= k
  PROVE  n \div d <= k \div d
OBVIOUS

LEMMA ProductGrows ==
  ASSUME NEW n \in Int, NEW k \in Int, NEW d \in Nat, n <= k
  PROVE  n * d \in Int /\ k * d \in Int /\ n * d <= k * d
OBVIOUS

LEMMA ProductIsNat == ASSUME NEW n \in Nat, NEW k \in Nat PROVE n * k \in Nat
OBVIOUS

(* The part of n that is left after a fee f on every u.                     *)
LEMMA FeeTakes ==
  ASSUME NEW n \in Nat, NEW u \in Nat \ {0}, NEW f \in 0 .. u
  PROVE  (n * (u - f)) \div u \in Nat /\ (n * (u - f)) \div u <= n
<1> DEFINE w == u - f
<1>1. w \in Nat /\ w <= u
  OBVIOUS
<1> HIDE DEF w
<1>2. n * w \in Nat /\ n * w <= n * u
  BY <1>1, ProductIsNat
<1>3. (n * w) \div u <= (n * u) \div u
  BY <1>2, QuotientGrows
<1>4. (n * u) \div u = n
  OBVIOUS
<1>5. (n * w) \div u \in Nat
  BY <1>2, Quotient
<1> QED
  BY <1>3, <1>4, <1>5 DEF w
(* What uo displayed points paid for ui are worth at the two rates, raw     *)
(* amounts scaled to the day.                                               *)
LEMMA ConversionLoses ==
  ASSUME NEW ui \in Nat, NEW uo \in Nat, NEW ra \in Nat, NEW rb \in Nat \ {0},
         NEW sa \in Nat, NEW sb \in Nat, uo <= (ui * ra) \div rb
  PROVE  (uo * sb) * rb * sa <= (ui * sa) * ra * sb
<1> DEFINE q == (ui * ra) \div rb
<1>1. q \in Nat /\ q * rb <= ui * ra
  BY ProductIsNat, Quotient
<1>2. uo <= q
  OBVIOUS
<1> HIDE DEF q
<1>3. uo * rb <= q * rb
  BY <1>1, <1>2, ProductGrows
<1>4. uo * rb <= ui * ra /\ uo * rb \in Nat /\ ui * ra \in Nat /\ q * rb \in Nat
  BY <1>1, <1>3, ProductIsNat
<1>5. sb * sa \in Nat
  BY ProductIsNat
<1>6. (uo * rb) * (sb * sa) <= (ui * ra) * (sb * sa)
  BY <1>4, <1>5, ProductGrows
<1>7. (uo * rb) * (sb * sa) = (uo * sb) * rb * sa
  OBVIOUS
<1>8. (ui * ra) * (sb * sa) = (ui * sa) * ra * sb
  OBVIOUS
<1> QED
  BY <1>6, <1>7, <1>8

LEMMA ProductCancels ==
  ASSUME NEW n \in Int, NEW k \in Int, NEW d \in Nat \ {0}, n * d <= k * d
  PROVE  n <= k
<1> SUFFICES ASSUME k + 1 <= n PROVE FALSE
  OBVIOUS
<1>1. (k + 1) * d <= n * d
  BY ProductGrows
<1> QED
  BY <1>1

(* Rounding down or up stays within one of the exact quotient.              *)
LEMMA Rounding ==
  ASSUME NEW n \in Nat, NEW d \in Nat \ {0},
         NEW r \in {k \div d : k \in {n, n + d - 1}}
  PROVE  r \in Nat /\ (r - 1) * d <= n /\ n <= (r + 1) * d
<1>1. CASE r = n \div d
  BY <1>1
<1>2. CASE r = (n + d - 1) \div d
  BY <1>2
<1> QED
  BY <1>1, <1>2

(* The same in raw amounts: in for ui and out for uo, both rounded.         *)
LEMMA SwapLoses ==
  ASSUME NEW ui \in Nat, NEW uo \in Nat, NEW ra \in Nat, NEW rb \in Nat \ {0},
         NEW sa \in Nat, NEW sb \in Nat, NEW g \in Nat \ {0}, NEW in \in Nat, NEW out \in Nat,
         uo <= (ui * ra) \div rb, (out - 1) * g <= uo * sb, ui * sa <= (in + 1) * g
  PROVE  (out - 1) * rb * sa <= (in + 1) * ra * sb
<1>1. (uo * sb) * rb * sa <= (ui * sa) * ra * sb
  BY ConversionLoses
<1>2. /\ rb * sa \in Nat /\ ra * sb \in Nat /\ uo * sb \in Nat /\ ui * sa \in Nat
      /\ (out - 1) * g \in Int /\ (in + 1) * g \in Int
  BY ProductIsNat, ProductGrows
<1>3. ((out - 1) * g) * (rb * sa) <= (uo * sb) * (rb * sa)
  BY <1>2, ProductGrows
<1>4. (ui * sa) * (ra * sb) <= ((in + 1) * g) * (ra * sb)
  BY <1>2, ProductGrows
<1>5. (uo * sb) * (rb * sa) <= (ui * sa) * (ra * sb)
  BY <1>1
<1> DEFINE p == (out - 1) * rb * sa
           q == (in + 1) * ra * sb
<1>6. p \in Int /\ q \in Int
  OBVIOUS
<1>7. p * g = ((out - 1) * g) * (rb * sa) /\ q * g = ((in + 1) * g) * (ra * sb)
  OBVIOUS
<1>8. p * g <= q * g
  <2> DEFINE b1 == ((out - 1) * g) * (rb * sa)
             b2 == (uo * sb) * (rb * sa)
             b3 == (ui * sa) * (ra * sb)
             b4 == ((in + 1) * g) * (ra * sb)
  <2>1. b1 \in Int /\ b2 \in Int /\ b3 \in Int /\ b4 \in Int
    BY <1>2
  <2>2. b1 <= b2 /\ b2 <= b3 /\ b3 <= b4
    BY <1>3, <1>4, <1>5
  <2>3. p * g = b1 /\ q * g = b4
    BY <1>7
  <2> HIDE DEF b1, b2, b3, b4, p, q
  <2> QED
    BY <2>1, <2>2, <2>3
<1> HIDE DEF p, q
<1>9. p <= q
  BY <1>6, <1>8, ProductCancels
<1> QED
  BY <1>9 DEF p, q

-----------------------------------------------------------------------------
(* Accounts of merchants: steps that leave the alliances alone *)

MerchantType == [open : BOOLEAN, paused : BOOLEAN, joined : Alliance \cup {NoAlliance}]

LEMMA AccountsFrame ==
  ASSUME KoinonInv, AccountsTypeOK', UNCHANGED <<koinonVars, day>>,
         \A m \in Merchant : merchant'[m].joined \in {merchant[m].joined, NoAlliance},
         \A m \in Merchant : supply'[m] > 0 => merchant'[m].open
  PROVE  KoinonInv'
<1>1. alliance' = alliance /\ member' = member /\ day' = day /\ inflow' = inflow
  BY DEF koinonVars
<1>2. TypeOK'
  BY <1>1 DEF KoinonInv, TypeOK
<1>3. \A x \in Alliance : Members(x)' = Members(x)
  BY <1>1 DEF Members
<1>4. Memberships'
  BY <1>1, <1>3 DEF KoinonInv, Memberships
<1>5. RatesDivide' /\ InflowIsCounted'
  BY <1>1 DEF KoinonInv, RatesDivide, InflowIsCounted
<1> QED
  BY <1>2, <1>4, <1>5 DEF KoinonInv, PointsHaveAMerchant

LEMMA MerchantFields ==
  ASSUME KoinonInv
  PROVE  /\ merchant \in [Merchant -> MerchantType]
         /\ NoMerchant \in MerchantType /\ NewMerchant \in MerchantType
         /\ supply \in [Merchant -> Int] /\ balance \in [Merchant -> [Holder -> Nat]]
         /\ \A m \in Merchant : supply[m] > 0 => merchant[m].open
BY DEF KoinonInv, TypeOK, AccountsTypeOK, MerchantType, NoMerchant, NewMerchant, PointsHaveAMerchant

LEMMA RegistrationKeepsInv ==
  ASSUME KoinonInv, RegistrationStep, UNCHANGED <<koinonVars, day>>
  PROVE  KoinonInv'
<1> USE MerchantFields
<1>0. AccountsTypeOK
  BY DEF KoinonInv, TypeOK
<1>1. ASSUME NEW m \in Merchant, RegisterMerchant(m)
      PROVE  KoinonInv'
  <2>1. AccountsTypeOK'
    BY <1>0, <1>1 DEF AccountsTypeOK, RegisterMerchant, MerchantType
  <2>2. \A n \in Merchant : /\ merchant'[n].joined \in {merchant[n].joined, NoAlliance}
                            /\ supply'[n] > 0 => merchant'[n].open
    BY <1>1 DEF RegisterMerchant, NewMerchant
  <2> QED
    BY <2>1, <2>2, AccountsFrame
<1>2. ASSUME NEW m \in Merchant, NEW on \in Switches, SetMerchantPaused(m, on)
      PROVE  KoinonInv'
  <2>1. on \in BOOLEAN
    BY AccountsAssumption
  <2>2. merchant' = [merchant EXCEPT ![m].paused = on] /\ UNCHANGED <<halted, treasuries, supply, balance, reserve, escrow>>
    BY <1>2 DEF SetMerchantPaused
  <2>3. merchant' \in [Merchant -> MerchantType]
    BY <2>1, <2>2 DEF MerchantType
  <2>4. AccountsTypeOK'
    BY <1>0, <2>2, <2>3 DEF AccountsTypeOK, MerchantType
  <2>5. \A n \in Merchant : merchant'[n].joined = merchant[n].joined /\ merchant'[n].open = merchant[n].open
    BY <2>2 DEF MerchantType
  <2> QED
    BY <2>2, <2>4, <2>5, AccountsFrame
<1>3. ASSUME NEW m \in Closers, CloseMerchant(m)
      PROVE  KoinonInv'
  <2>0. m \in Merchant
    BY AccountsAssumption
  <2>1. AccountsTypeOK'
    BY <1>0, <1>3 DEF AccountsTypeOK, CloseMerchant, MerchantType
  <2>2. \A n \in Merchant : /\ merchant'[n].joined \in {merchant[n].joined, NoAlliance}
                            /\ supply'[n] > 0 => merchant'[n].open
    BY <1>3, <2>0 DEF CloseMerchant, NoMerchant
  <2> QED
    BY <2>1, <2>2, AccountsFrame
<1>4. ASSUME NEW m \in Closers, CloseTreasury(m)
      PROVE  KoinonInv'
  <2>1. AccountsTypeOK'
    BY <1>0, <1>4 DEF AccountsTypeOK, CloseTreasury
  <2>2. merchant' = merchant /\ supply' = supply
    BY <1>4 DEF CloseTreasury
  <2> QED
    BY <2>1, <2>2, AccountsFrame
<1>5. ASSUME NEW on \in Switches, SetPaused(on)
      PROVE  KoinonInv'
  <2>1. AccountsTypeOK'
    BY <1>0, <1>5, AccountsAssumption DEF AccountsTypeOK, SetPaused
  <2>2. merchant' = merchant /\ supply' = supply
    BY <1>5 DEF SetPaused
  <2> QED
    BY <2>1, <2>2, AccountsFrame
<1> QED
  BY <1>1, <1>2, <1>3, <1>4, <1>5 DEF RegistrationStep

LEMMA PointsKeepInv ==
  ASSUME KoinonInv, PointStep, UNCHANGED <<koinonVars, day>>
  PROVE  KoinonInv'
<1> USE MerchantFields
<1>0. AccountsTypeOK
  BY DEF KoinonInv, TypeOK
<1> PICK m \in Merchant, n \in 1 .. MaxSupply :
           \/ \E c \in Holder : Issue(m, c, n) \/ Retire(m, c, n)
           \/ \E h, g \in Holder : Transfer(m, h, g, n)
  BY DEF PointStep, Holder
<1>n. n \in Nat /\ n > 0
  BY AccountsAssumption
<1>1. ASSUME NEW c \in Holder, Issue(m, c, n)
      PROVE  KoinonInv'
  <2>1. /\ supply' = [supply EXCEPT ![m] = @ + n] /\ merchant' = merchant /\ merchant[m].open
        /\ balance' = [balance EXCEPT ![m][c] = @ + n]
        /\ UNCHANGED <<halted, treasuries, reserve, escrow>>
    BY <1>1 DEF Issue
  <2>2. balance[m][c] + n \in Nat
    BY <1>n
  <2>3. balance' \in [Merchant -> [Holder -> Nat]]
    BY <2>1, <2>2
  <2>4. AccountsTypeOK'
    BY <1>0, <1>n, <2>1, <2>3 DEF AccountsTypeOK
  <2> QED
    BY <2>1, <2>4, AccountsFrame
<1>2. ASSUME NEW c \in Holder, Retire(m, c, n)
      PROVE  KoinonInv'
  <2>1. /\ supply' = [supply EXCEPT ![m] = @ - n] /\ merchant' = merchant /\ n <= balance[m][c]
        /\ balance' = [balance EXCEPT ![m][c] = @ - n]
        /\ UNCHANGED <<halted, treasuries, reserve, escrow>>
    BY <1>2 DEF Retire
  <2>2. balance[m][c] - n \in Nat
    BY <1>n, <2>1
  <2>3. balance' \in [Merchant -> [Holder -> Nat]]
    BY <2>1, <2>2
  <2>4. AccountsTypeOK'
    BY <1>0, <1>n, <2>1, <2>3 DEF AccountsTypeOK
  <2>5. \A k \in Merchant : supply'[k] > 0 => merchant'[k].open
    BY <1>n, <2>1
  <2> QED
    BY <2>1, <2>4, <2>5, AccountsFrame
<1>3. ASSUME NEW h \in Holder, NEW g \in Holder, Transfer(m, h, g, n)
      PROVE  KoinonInv'
  <2>1. /\ h # g /\ n <= balance[m][h]
        /\ balance' = [balance EXCEPT ![m][h] = @ - n, ![m][g] = @ + n]
        /\ UNCHANGED <<halted, merchant, treasuries, supply, reserve, escrow>>
    BY <1>3 DEF Transfer
  <2>2. balance[m][h] - n \in Nat /\ balance[m][g] + n \in Nat
    BY <1>n, <2>1
  <2>3. balance' = [balance EXCEPT ![m] =
                      [balance[m] EXCEPT ![h] = balance[m][h] - n, ![g] = balance[m][g] + n]]
    BY <2>1
  <2>4. balance' \in [Merchant -> [Holder -> Nat]]
    BY <2>2, <2>3
  <2>5. AccountsTypeOK'
    BY <1>0, <2>1, <2>4 DEF AccountsTypeOK
  <2> QED
    BY <2>1, <2>5, AccountsFrame
<1> QED
  BY <1>1, <1>2, <1>3

LEMMA ReserveKeepsInv ==
  ASSUME KoinonInv, ReserveStep, UNCHANGED <<koinonVars, day>>
  PROVE  KoinonInv'
<1> USE MerchantFields
<1>0. AccountsTypeOK /\ MaxEscrow \in Nat
  BY AccountsAssumption DEF KoinonInv, TypeOK
<1> PICK m \in Backed : \/ \E t \in ReserveTerms : OpenReserve(m, t)
                        \/ \E n \in 1 .. MaxEscrow : FundReserve(m, n) \/ WithdrawReserve(m, n)
  BY DEF ReserveStep
<1>1. merchant' = merchant /\ supply' = supply
  BY DEF OpenReserve, FundReserve, WithdrawReserve
<1>2. ASSUME NEW t \in ReserveTerms, OpenReserve(m, t)
      PROVE  AccountsTypeOK'
  <2>1. t.value \in Nat /\ t.ratio \in Nat
    BY AccountsAssumption
  <2> QED
    BY <1>0, <1>2, <2>1 DEF AccountsTypeOK, OpenReserve
<1>3. ASSUME NEW n \in 1 .. MaxEscrow, FundReserve(m, n)
      PROVE  AccountsTypeOK'
  <2>1. escrow' = [escrow EXCEPT ![m] = @ + n] /\ UNCHANGED <<halted, merchant, treasuries, supply, balance, reserve>>
    BY <1>3 DEF FundReserve
  <2>2. escrow \in [Merchant -> Nat] /\ n \in Nat /\ m \in Merchant
    BY <1>0, AccountsAssumption DEF AccountsTypeOK
  <2>3. escrow' \in [Merchant -> Nat]
    BY <2>1, <2>2
  <2> QED
    BY <1>0, <2>1, <2>3 DEF AccountsTypeOK
<1>4. ASSUME NEW n \in 1 .. MaxEscrow, WithdrawReserve(m, n)
      PROVE  AccountsTypeOK'
  <2>1. /\ escrow' = [escrow EXCEPT ![m] = @ - n] /\ n <= escrow[m]
        /\ UNCHANGED <<halted, merchant, treasuries, supply, balance, reserve>>
    BY <1>4 DEF WithdrawReserve
  <2>2. escrow \in [Merchant -> Nat] /\ n \in Nat /\ m \in Merchant
    BY <1>0, AccountsAssumption DEF AccountsTypeOK
  <2>3. escrow' \in [Merchant -> Nat]
    BY <2>1, <2>2
  <2> QED
    BY <1>0, <2>1, <2>3 DEF AccountsTypeOK
<1> QED
  BY <1>1, <1>2, <1>3, <1>4, AccountsFrame

-----------------------------------------------------------------------------
(* Steps of the alliance's authority *)

LEMMA AllianceFrame ==
  ASSUME KoinonInv, AllianceOnly, alliance' \in [Alliance -> AllianceAccount],
         \A x \in Alliance : /\ alliance'[x].members = alliance[x].members
                             /\ alliance[x].open => alliance'[x].open
  PROVE  KoinonInv'
<1>1. UNCHANGED <<halted, merchant, treasuries, supply, balance, reserve, escrow, member, day, inflow>>
  BY DEF AllianceOnly, accounts
<1>2. TypeOK'
  BY <1>1 DEF KoinonInv, TypeOK, AccountsTypeOK
<1>3. \A x \in Alliance : Members(x)' = Members(x)
  BY <1>1 DEF Members
<1>4. Memberships'
  BY <1>1, <1>3 DEF KoinonInv, Memberships
<1> QED
  BY <1>1, <1>2, <1>4 DEF KoinonInv, RatesDivide, InflowIsCounted, PointsHaveAMerchant

LEMMA AllianceStepKeepsInv ==
  ASSUME KoinonInv, AllianceStep
  PROVE  KoinonInv'
<1>0. alliance \in [Alliance -> AllianceAccount] /\ Memberships
  BY DEF KoinonInv, TypeOK
<1>1. PICK x \in Alliance :
        \/ CreateAlliance(x) \/ AcceptAllianceAuthority(x)
        \/ \E k \in Key : TransferAllianceAuthority(x, k)
        \/ \E on \in Switches : SetAlliancePaused(x, on)
        \/ \E t \in Terms : SetAllianceParams(x, t)
  BY DEF AllianceStep
<1>2. AllianceOnly
  BY <1>1 DEF CreateAlliance, AcceptAllianceAuthority, TransferAllianceAuthority,
              SetAlliancePaused, SetAllianceParams
<1> DEFINE Goal == \E a \in AllianceAccount : /\ a.members = alliance[x].members /\ a.open
                                              /\ alliance' = [alliance EXCEPT ![x] = a]
<1>3. alliance[x] \in AllianceAccount
  BY <1>0
<1>4. ASSUME CreateAlliance(x) PROVE Goal
  <2>1. alliance[x].members = 0
    BY <1>0, <1>4, FS_EmptySet DEF CreateAlliance, Memberships
  <2>2. alliance' = [alliance EXCEPT ![x] = NewAlliance]
    BY <1>4 DEF CreateAlliance
  <2>3. NewAlliance \in AllianceAccount
    BY KoinonAssumption DEF NewAlliance, NoTerms, AllianceAccount
  <2> QED
    BY <2>1, <2>2, <2>3 DEF NewAlliance
<1>5. ASSUME AcceptAllianceAuthority(x) PROVE Goal
  <2>1. /\ alliance[x].open
        /\ alliance' = [alliance EXCEPT ![x].authority = alliance[x].pending, ![x].pending = NoKey]
    BY <1>5 DEF AcceptAllianceAuthority
  <2>2. PICK a : a = [alliance[x] EXCEPT !.authority = alliance[x].pending, !.pending = NoKey]
    OBVIOUS
  <2>3. a \in AllianceAccount
    BY <1>3, <2>2, <1>5 DEF AllianceAccount, AcceptAllianceAuthority
  <2>4. a.members = alliance[x].members /\ a.open
    BY <1>3, <2>1, <2>2 DEF AllianceAccount
  <2>5. alliance' = [alliance EXCEPT ![x] = a]
    BY <2>1, <2>2, <1>0
  <2> QED
    BY <2>3, <2>4, <2>5
<1>6. ASSUME NEW k \in Key, TransferAllianceAuthority(x, k) PROVE Goal
  <2>1. alliance[x].open /\ alliance' = [alliance EXCEPT ![x].pending = k]
    BY <1>6 DEF TransferAllianceAuthority
  <2>2. PICK a : a = [alliance[x] EXCEPT !.pending = k]
    OBVIOUS
  <2>3. a \in AllianceAccount /\ a.members = alliance[x].members /\ a.open
    BY <1>3, <2>1, <2>2 DEF AllianceAccount
  <2>4. alliance' = [alliance EXCEPT ![x] = a]
    BY <1>0, <2>1, <2>2
  <2> QED
    BY <2>3, <2>4
<1>7. ASSUME NEW on \in Switches, SetAlliancePaused(x, on) PROVE Goal
  <2>1. on \in BOOLEAN /\ alliance[x].open /\ alliance' = [alliance EXCEPT ![x].paused = on]
    BY <1>7, AccountsAssumption DEF SetAlliancePaused
  <2>2. PICK a : a = [alliance[x] EXCEPT !.paused = on]
    OBVIOUS
  <2>3. a \in AllianceAccount /\ a.members = alliance[x].members /\ a.open
    BY <1>3, <2>1, <2>2 DEF AllianceAccount
  <2>4. alliance' = [alliance EXCEPT ![x] = a]
    BY <1>0, <2>1, <2>2
  <2> QED
    BY <2>3, <2>4
<1>8. ASSUME NEW t \in Terms, SetAllianceParams(x, t) PROVE Goal
  <2>1. alliance[x].open /\ t.fee <= MaxFee /\ alliance' = [alliance EXCEPT ![x].terms = t]
    BY <1>8 DEF SetAllianceParams
  <2>2. t \in [fee : 0 .. MaxFee, low : Nat, high : Nat]
    BY <2>1, KoinonAssumption
  <2>3. PICK a : a = [alliance[x] EXCEPT !.terms = t]
    OBVIOUS
  <2>4. a \in AllianceAccount /\ a.members = alliance[x].members /\ a.open
    BY <1>3, <2>1, <2>2, <2>3 DEF AllianceAccount
  <2>5. alliance' = [alliance EXCEPT ![x] = a]
    BY <1>0, <2>1, <2>3
  <2> QED
    BY <2>4, <2>5
<1>9. PICK a \in AllianceAccount : /\ a.members = alliance[x].members /\ a.open
                                  /\ alliance' = [alliance EXCEPT ![x] = a]
  BY <1>1, <1>4, <1>5, <1>6, <1>7, <1>8
<1>10. alliance' \in [Alliance -> AllianceAccount]
  BY <1>0, <1>9
<1>11. \A y \in Alliance : alliance'[y].members = alliance[y].members /\ (alliance[y].open => alliance'[y].open)
  BY <1>0, <1>9
<1> QED
  BY <1>2, <1>10, <1>11, AllianceFrame

-----------------------------------------------------------------------------
(* Steps of a member *)

(* One membership replaced.                                                 *)
LEMMA MemberUpdate ==
  ASSUME KoinonInv, NEW x \in Alliance, NEW m \in Merchant, NEW e \in Member,
         member' = [member EXCEPT ![x][m] = e], e.open => e.rate > 0
  PROVE  /\ member' \in [Alliance -> [Merchant -> Member]]
         /\ RatesDivide'
         /\ \A y \in Alliance, n \in Merchant : y # x \/ n # m => member'[y][n] = member[y][n]
         /\ member'[x][m] = e
<1>1. member \in [Alliance -> [Merchant -> Member]]
  BY DEF KoinonInv, TypeOK
<1>2. \A y \in Alliance, n \in Merchant : member'[y][n] = IF y = x /\ n = m THEN e ELSE member[y][n]
  BY <1>1
<1>3. member' \in [Alliance -> [Merchant -> Member]]
  BY <1>1
<1> QED
  BY <1>2, <1>3 DEF KoinonInv, RatesDivide

(* A membership that stays: what is counted and who belongs stay as well.   *)
LEMMA MemberKept ==
  ASSUME KoinonInv, NEW x \in Alliance, NEW m \in Merchant, NEW e \in Member,
         member' = [member EXCEPT ![x][m] = e], MemberOnly,
         member[x][m].open, e.open, e.rate > 0,
         e.day = member[x][m].day, e.swapped = member[x][m].swapped
  PROVE  KoinonInv'
<1>0. /\ UNCHANGED <<halted, merchant, treasuries, supply, balance, reserve, escrow>>
      /\ UNCHANGED <<alliance, inflow, day>>
  BY DEF MemberOnly, accounts
<1>1. /\ member' \in [Alliance -> [Merchant -> Member]] /\ RatesDivide'
      /\ \A y \in Alliance, n \in Merchant : y # x \/ n # m => member'[y][n] = member[y][n]
      /\ member'[x][m] = e
  BY MemberUpdate
<1>2. TypeOK'
  BY <1>0, <1>1 DEF KoinonInv, TypeOK, AccountsTypeOK
<1>3. \A y \in Alliance, n \in Merchant : member'[y][n].open = member[y][n].open
  BY <1>1
<1>4. \A y \in Alliance : Members(y)' = Members(y)
  BY <1>3 DEF Members
<1>5. \A n \in Merchant : merchant[n].joined # NoAlliance => merchant[n].joined \in Alliance
  BY DEF KoinonInv, TypeOK, AccountsTypeOK
<1>6. Memberships'
  BY <1>0, <1>3, <1>4, <1>5 DEF KoinonInv, Memberships
<1>7. InflowIsCounted'
  BY <1>0, <1>1 DEF KoinonInv, InflowIsCounted
<1> QED
  BY <1>0, <1>1, <1>2, <1>6, <1>7 DEF KoinonInv, PointsHaveAMerchant

LEMMA JoinKeepsInv ==
  ASSUME KoinonInv, NEW x \in Alliance, NEW m \in Merchant, NEW rate \in Rates,
         NEW budget \in Budgets, JoinAlliance(x, m, rate, budget)
  PROVE  KoinonInv'
<1> DEFINE e == [open |-> TRUE, rate |-> rate, budget |-> budget, swapped |-> 0, day |-> 0,
                 active |-> TRUE]
<1>0. /\ UNCHANGED <<halted, treasuries, supply, balance, reserve, escrow, day>>
      /\ member' = [member EXCEPT ![x][m] = e]
      /\ alliance' = [alliance EXCEPT ![x].members = @ + 1]
      /\ merchant' = [merchant EXCEPT ![m].joined = x]
      /\ inflow' = [inflow EXCEPT ![x][m] = 0]
      /\ alliance[x].open /\ ~member[x][m].open /\ rate > 0
  BY DEF JoinAlliance
<1>1. e \in Member /\ e.open /\ e.rate > 0 /\ e.day = 0 /\ e.swapped = 0
  BY <1>0, KoinonAssumption DEF Member
<1> HIDE DEF e
<1>2. /\ member' \in [Alliance -> [Merchant -> Member]] /\ RatesDivide'
      /\ \A y \in Alliance, n \in Merchant : y # x \/ n # m => member'[y][n] = member[y][n]
      /\ member'[x][m] = e
  BY <1>0, <1>1, MemberUpdate
<1>3. /\ alliance \in [Alliance -> AllianceAccount] /\ merchant \in [Merchant -> MerchantType]
      /\ inflow \in [Alliance -> [Merchant -> Nat]] /\ day \in 1 .. MaxDay
  BY DEF KoinonInv, TypeOK, AccountsTypeOK, MerchantType
<1>4. /\ alliance' \in [Alliance -> AllianceAccount]
      /\ \A y \in Alliance : /\ alliance'[y].open = alliance[y].open
                             /\ y # x => alliance'[y].members = alliance[y].members
      /\ alliance'[x].members = alliance[x].members + 1
  <2>1. alliance[x] \in AllianceAccount /\ alliance[x].members + 1 \in Nat
    BY <1>3 DEF AllianceAccount
  <2>2. PICK a : a = [alliance[x] EXCEPT !.members = alliance[x].members + 1]
    OBVIOUS
  <2>3. a \in AllianceAccount /\ a.open = alliance[x].open /\ a.members = alliance[x].members + 1
    BY <2>1, <2>2 DEF AllianceAccount
  <2>4. alliance' = [alliance EXCEPT ![x] = a]
    BY <1>0, <1>3, <2>2
  <2> QED
    BY <1>3, <2>3, <2>4
<1>5. /\ merchant' \in [Merchant -> MerchantType]
      /\ \A n \in Merchant : /\ merchant'[n].open = merchant[n].open
                             /\ n # m => merchant'[n].joined = merchant[n].joined
      /\ merchant'[m].joined = x
  BY <1>0, <1>3 DEF MerchantType
<1>6. inflow' \in [Alliance -> [Merchant -> Nat]]
  BY <1>0, <1>3
<1>7. TypeOK'
  BY <1>0, <1>2, <1>4, <1>5, <1>6 DEF KoinonInv, TypeOK, AccountsTypeOK, MerchantType
<1>8. Members(x)' = Members(x) \cup {m} /\ m \notin Members(x)
  BY <1>0, <1>1, <1>2 DEF Members
<1>9. \A y \in Alliance : y # x => Members(y)' = Members(y)
  BY <1>2 DEF Members
<1>10. Memberships
  BY DEF KoinonInv
<1>11. IsFiniteSet(Members(x)') /\ Cardinality(Members(x)') = Cardinality(Members(x)) + 1
  BY <1>8, <1>10, FS_AddElement DEF Memberships
<1>12. \A y \in Alliance : /\ IsFiniteSet(Members(y)')
                           /\ alliance'[y].members = Cardinality(Members(y)')
                           /\ alliance'[y].open \/ Members(y)' = {}
  BY <1>0, <1>4, <1>9, <1>10, <1>11 DEF Memberships
<1>13. \A n \in Merchant : merchant'[n].joined # NoAlliance => member'[merchant'[n].joined][n].open
  <2> SUFFICES ASSUME NEW n \in Merchant, n # m, merchant[n].joined # NoAlliance
               PROVE  member'[merchant[n].joined][n].open
    BY <1>1, <1>2, <1>5
  <2>1. merchant[n].joined \in Alliance /\ member[merchant[n].joined][n].open
    BY <1>3, <1>10 DEF Memberships, MerchantType
  <2> QED
    BY <1>2, <2>1
<1>14. InflowIsCounted'
  <2>1. \A y \in Alliance, n \in Merchant : y # x \/ n # m => inflow'[y][n] = inflow[y][n]
    BY <1>0, <1>3
  <2>2. inflow'[x][m] = 0
    BY <1>0, <1>3
  <2> QED
    BY <1>0, <1>1, <1>2, <1>3, <2>1, <2>2 DEF KoinonInv, InflowIsCounted
<1> QED
  BY <1>0, <1>2, <1>5, <1>7, <1>12, <1>13, <1>14 DEF KoinonInv, Memberships, PointsHaveAMerchant

LEMMA LeaveKeepsInv ==
  ASSUME KoinonInv, NEW x \in Alliance, NEW m \in Merchant, LeaveAlliance(x, m)
  PROVE  KoinonInv'
<1>0. /\ UNCHANGED <<halted, treasuries, supply, balance, reserve, escrow, day>>
      /\ member' = [member EXCEPT ![x][m] = NoMember]
      /\ alliance' = [alliance EXCEPT ![x].members = IF @ = 0 THEN 0 ELSE @ - 1]
      /\ merchant' = [merchant EXCEPT ![m].joined = NoAlliance]
      /\ inflow' = [inflow EXCEPT ![x][m] = 0]
      /\ member[x][m].open
  BY DEF LeaveAlliance
<1>1. NoMember \in Member /\ ~NoMember.open /\ NoMember.day = 0 /\ NoMember.swapped = 0
  BY DEF NoMember, Member
<1>2. /\ member' \in [Alliance -> [Merchant -> Member]] /\ RatesDivide'
      /\ \A y \in Alliance, n \in Merchant : y # x \/ n # m => member'[y][n] = member[y][n]
      /\ member'[x][m] = NoMember
  BY <1>0, <1>1, MemberUpdate
<1>3. /\ alliance \in [Alliance -> AllianceAccount] /\ merchant \in [Merchant -> MerchantType]
      /\ inflow \in [Alliance -> [Merchant -> Nat]] /\ day \in 1 .. MaxDay
  BY DEF KoinonInv, TypeOK, AccountsTypeOK, MerchantType
<1>10. Memberships
  BY DEF KoinonInv
<1>8. Members(x)' = Members(x) \ {m} /\ m \in Members(x)
  BY <1>0, <1>1, <1>2 DEF Members
<1>9. \A y \in Alliance : y # x => Members(y)' = Members(y)
  BY <1>2 DEF Members
<1>11. /\ IsFiniteSet(Members(x)') /\ Cardinality(Members(x)') = Cardinality(Members(x)) - 1
       /\ Cardinality(Members(x)') \in Nat
  BY <1>8, <1>10, FS_RemoveElement, FS_CardinalityType DEF Memberships
<1>15. alliance[x].members \in Nat /\ alliance[x].members = Cardinality(Members(x)) /\ alliance[x].members > 0
  BY <1>3, <1>10, <1>11 DEF Memberships, AllianceAccount
<1>4. /\ alliance' \in [Alliance -> AllianceAccount]
      /\ \A y \in Alliance : /\ alliance'[y].open = alliance[y].open
                             /\ y # x => alliance'[y].members = alliance[y].members
      /\ alliance'[x].members = alliance[x].members - 1
  <2>1. alliance[x] \in AllianceAccount /\ alliance[x].members - 1 \in Nat
    BY <1>3, <1>15
  <2>2. PICK a : a = [alliance[x] EXCEPT !.members = IF @ = 0 THEN 0 ELSE @ - 1]
    OBVIOUS
  <2>3. a \in AllianceAccount /\ a.open = alliance[x].open /\ a.members = alliance[x].members - 1
    BY <1>15, <2>1, <2>2 DEF AllianceAccount
  <2>4. alliance' = [alliance EXCEPT ![x] = a]
    BY <1>0, <1>3, <2>2
  <2> QED
    BY <1>3, <2>3, <2>4
<1>5. /\ merchant' \in [Merchant -> MerchantType]
      /\ \A n \in Merchant : /\ merchant'[n].open = merchant[n].open
                             /\ n # m => merchant'[n].joined = merchant[n].joined
      /\ merchant'[m].joined = NoAlliance
  BY <1>0, <1>3 DEF MerchantType
<1>6. inflow' \in [Alliance -> [Merchant -> Nat]]
  BY <1>0, <1>3
<1>7. TypeOK'
  BY <1>0, <1>2, <1>4, <1>5, <1>6 DEF KoinonInv, TypeOK, AccountsTypeOK, MerchantType
<1>12. \A y \in Alliance : /\ IsFiniteSet(Members(y)')
                           /\ alliance'[y].members = Cardinality(Members(y)')
                           /\ alliance'[y].open \/ Members(y)' = {}
  BY <1>4, <1>8, <1>9, <1>10, <1>11, <1>15 DEF Memberships
<1>13. \A n \in Merchant : merchant'[n].joined # NoAlliance => member'[merchant'[n].joined][n].open
  <2> SUFFICES ASSUME NEW n \in Merchant, n # m, merchant[n].joined # NoAlliance
               PROVE  member'[merchant[n].joined][n].open
    BY <1>2, <1>5
  <2>1. merchant[n].joined \in Alliance /\ member[merchant[n].joined][n].open
    BY <1>3, <1>10 DEF Memberships, MerchantType
  <2> QED
    BY <1>2, <2>1
<1>14. InflowIsCounted'
  <2>1. \A y \in Alliance, n \in Merchant : y # x \/ n # m => inflow'[y][n] = inflow[y][n]
    BY <1>0, <1>3
  <2>2. inflow'[x][m] = 0
    BY <1>0, <1>3
  <2> QED
    BY <1>0, <1>1, <1>2, <1>3, <2>1, <2>2 DEF KoinonInv, InflowIsCounted
<1> QED
  BY <1>0, <1>2, <1>5, <1>7, <1>12, <1>13, <1>14 DEF KoinonInv, Memberships, PointsHaveAMerchant

LEMMA MemberStepKeepsInv ==
  ASSUME KoinonInv, MemberStep
  PROVE  KoinonInv'
<1> PICK x \in Alliance, m \in Merchant :
      \/ \E rate \in Rates, budget \in Budgets : JoinAlliance(x, m, rate, budget)
      \/ LeaveAlliance(x, m)
      \/ \E on \in BOOLEAN : SetMemberActive(x, m, on)
      \/ \E rate \in Rates : SetSwapRate(x, m, rate)
      \/ \E budget \in Budgets : SetSwapBudget(x, m, budget)
  BY DEF MemberStep
<1>0. /\ member \in [Alliance -> [Merchant -> Member]] /\ member[x][m] \in Member
      /\ member[x][m].open => member[x][m].rate > 0
  BY DEF KoinonInv, TypeOK, RatesDivide
<1>1. ASSUME NEW on \in BOOLEAN, SetMemberActive(x, m, on) PROVE KoinonInv'
  <2>1. /\ member[x][m].open /\ on \in BOOLEAN /\ MemberOnly
        /\ member' = [member EXCEPT ![x][m].active = on]
    BY <1>1 DEF SetMemberActive
  <2>2. PICK e : e = [member[x][m] EXCEPT !.active = on]
    OBVIOUS
  <2>3. /\ e \in Member /\ e.open /\ e.rate > 0
        /\ e.day = member[x][m].day /\ e.swapped = member[x][m].swapped
    BY <1>0, <2>1, <2>2 DEF Member
  <2>4. member' = [member EXCEPT ![x][m] = e]
    BY <1>0, <2>1, <2>2
  <2> QED
    BY <2>1, <2>3, <2>4, MemberKept
<1>2. ASSUME NEW rate \in Rates, SetSwapRate(x, m, rate) PROVE KoinonInv'
  <2>1. /\ member[x][m].open /\ rate \in Nat /\ rate > 0 /\ MemberOnly
        /\ member' = [member EXCEPT ![x][m].rate = rate]
    BY <1>2, KoinonAssumption DEF SetSwapRate
  <2>2. PICK e : e = [member[x][m] EXCEPT !.rate = rate]
    OBVIOUS
  <2>3. /\ e \in Member /\ e.open /\ e.rate > 0
        /\ e.day = member[x][m].day /\ e.swapped = member[x][m].swapped
    BY <1>0, <2>1, <2>2 DEF Member
  <2>4. member' = [member EXCEPT ![x][m] = e]
    BY <1>0, <2>1, <2>2
  <2> QED
    BY <2>1, <2>3, <2>4, MemberKept
<1>3. ASSUME NEW budget \in Budgets, SetSwapBudget(x, m, budget) PROVE KoinonInv'
  <2>1. /\ member[x][m].open /\ budget \in Nat /\ MemberOnly
        /\ member' = [member EXCEPT ![x][m].budget = budget]
    BY <1>3, KoinonAssumption DEF SetSwapBudget
  <2>2. PICK e : e = [member[x][m] EXCEPT !.budget = budget]
    OBVIOUS
  <2>3. /\ e \in Member /\ e.open /\ e.rate > 0
        /\ e.day = member[x][m].day /\ e.swapped = member[x][m].swapped
    BY <1>0, <2>1, <2>2 DEF Member
  <2>4. member' = [member EXCEPT ![x][m] = e]
    BY <1>0, <2>1, <2>2
  <2> QED
    BY <2>1, <2>3, <2>4, MemberKept
<1> QED
  BY <1>1, <1>2, <1>3, JoinKeepsInv, LeaveKeepsInv

-----------------------------------------------------------------------------
(* Swaps *)

(* What a swap does, field by field.                                        *)
SwapEffect(x, a, b, c, in, out) ==
  /\ in \in Nat /\ in > 0 /\ out \in Nat
  /\ a # b /\ MayTrade(x, a) /\ MayTrade(x, b) /\ in <= balance[a][c]
  /\ (out - 1) * member[x][b].rate * Scale[a][day] <= (in + 1) * member[x][a].rate * Scale[b][day]
  /\ InflowToday(member[x][b], out) <= member[x][b].budget
  /\ member' = [member EXCEPT ![x][b].swapped = InflowToday(member[x][b], out), ![x][b].day = day]
  /\ balance' = [balance EXCEPT ![a][c] = @ - in, ![b][c] = @ + out]
  /\ supply' = [supply EXCEPT ![a] = @ - in, ![b] = @ + out]
  /\ inflow' = [inflow EXCEPT ![x][b] = @ + out]
  /\ UNCHANGED <<halted, merchant, treasuries, reserve, escrow, alliance, day>>

LEMMA SwapHasEffect ==
  ASSUME KoinonInv, NEW x \in Alliance, NEW a \in Merchant, NEW b \in Merchant,
         NEW c \in Customer, NEW ui \in UiAmounts, SwapPoints(x, a, b, c, ui)
  PROVE  \E in, out \in Nat : SwapEffect(x, a, b, c, in, out)
<1> DEFINE uo == UiOut(x, a, b, ui)
           q == (ui * member[x][a].rate) \div member[x][b].rate
<1>0. PICK in \in Raws(a, ui), out \in Raws(b, uo) :
        /\ in > 0 /\ in <= balance[a][c]
        /\ InflowToday(member[x][b], out) <= member[x][b].budget
        /\ member' = [member EXCEPT ![x][b].swapped = InflowToday(member[x][b], out), ![x][b].day = day]
        /\ balance' = [balance EXCEPT ![a][c] = @ - in, ![b][c] = @ + out]
        /\ supply' = [supply EXCEPT ![a] = @ - in, ![b] = @ + out]
        /\ inflow' = [inflow EXCEPT ![x][b] = @ + out]
  BY DEF SwapPoints
<1>1. /\ ui \in Nat /\ Unit \in Nat \ {0} /\ MaxFee <= Unit /\ MaxFee \in Nat
      /\ Scale[a][day] \in Nat /\ Scale[b][day] \in Nat /\ Grain \in Nat \ {0}
  BY KoinonAssumption, AccountsAssumption DEF KoinonInv, TypeOK
<1>2. MayTrade(x, a) /\ MayTrade(x, b)
  BY DEF SwapPoints
<1>3. /\ member[x][a].rate \in Nat /\ member[x][b].rate \in Nat \ {0}
      /\ alliance[x].terms.fee \in 0 .. Unit
  <2>1. member[x][a] \in Member /\ member[x][b] \in Member /\ member[x][b].rate > 0
    BY <1>2 DEF KoinonInv, TypeOK, RatesDivide, MayTrade
  <2>2. alliance[x] \in AllianceAccount
    BY DEF KoinonInv, TypeOK
  <2>3. alliance[x].terms.fee \in 0 .. MaxFee
    BY <2>2 DEF AllianceAccount
  <2> QED
    BY <1>1, <2>1, <2>3 DEF Member
<1>4. q \in Nat
  BY <1>1, <1>3, ProductIsNat, Quotient
<1>5. uo = (q * (Unit - alliance[x].terms.fee)) \div Unit
  BY DEF UiOut
<1>6. uo \in Nat /\ uo <= q
  <2> HIDE DEF q, uo
  <2> QED
    BY <1>1, <1>3, <1>4, <1>5, FeeTakes
<1>7. ui * Scale[a][day] \in Nat /\ uo * Scale[b][day] \in Nat
  <2> HIDE DEF uo
  <2> QED
    BY <1>1, <1>6, ProductIsNat
<1>8. /\ in \in Nat /\ ui * Scale[a][day] <= (in + 1) * Grain
      /\ out \in Nat /\ (out - 1) * Grain <= uo * Scale[b][day]
  <2> HIDE DEF uo
  <2> QED
    BY <1>1, <1>7, Rounding DEF Raws
<1>9. (out - 1) * member[x][b].rate * Scale[a][day] <= (in + 1) * member[x][a].rate * Scale[b][day]
  <2>1. uo <= (ui * member[x][a].rate) \div member[x][b].rate
    BY <1>6
  <2> HIDE DEF uo, q
  <2> QED
    BY <1>1, <1>3, <1>6, <1>8, <2>1, SwapLoses
<1>10. a # b /\ UNCHANGED <<halted, merchant, treasuries, reserve, escrow, alliance, day>>
  BY DEF SwapPoints
<1> HIDE DEF uo, q
<1> QED
  BY <1>0, <1>2, <1>8, <1>9, <1>10 DEF SwapEffect

(* The day's swaps of a membership after one more.                          *)
LEMMA SwapPointwise ==
  ASSUME KoinonInv, NEW x \in Alliance, NEW a \in Merchant, NEW b \in Merchant, NEW c \in Holder,
         NEW in \in Nat, NEW out \in Nat, SwapEffect(x, a, b, c, in, out)
  PROVE  /\ \A m \in Merchant :
              supply'[m] = IF m = a THEN supply[m] - in ELSE IF m = b THEN supply[m] + out ELSE supply[m]
         /\ \A m \in Merchant, d \in Holder :
              balance'[m][d] = IF d # c THEN balance[m][d] ELSE
                IF m = a THEN balance[m][d] - in ELSE IF m = b THEN balance[m][d] + out ELSE balance[m][d]
         /\ \A y \in Alliance, m \in Merchant :
              inflow'[y][m] = IF y = x /\ m = b THEN inflow[y][m] + out ELSE inflow[y][m]
         /\ supply' \in [Merchant -> Int] /\ balance' \in [Merchant -> [Holder -> Nat]]
         /\ inflow' \in [Alliance -> [Merchant -> Nat]]
<1>1. /\ supply \in [Merchant -> Int] /\ balance \in [Merchant -> [Holder -> Nat]]
      /\ inflow \in [Alliance -> [Merchant -> Nat]]
  BY DEF KoinonInv, TypeOK, AccountsTypeOK
<1>2. /\ a # b /\ in <= balance[a][c]
      /\ balance' = [balance EXCEPT ![a][c] = @ - in, ![b][c] = @ + out]
      /\ supply' = [supply EXCEPT ![a] = @ - in, ![b] = @ + out]
      /\ inflow' = [inflow EXCEPT ![x][b] = @ + out]
  BY DEF SwapEffect
<1>3. supply[a] - in \in Int /\ supply[b] + out \in Int
  BY <1>1
<1>4. balance[a][c] - in \in Nat /\ balance[b][c] + out \in Nat
  BY <1>1, <1>2
<1>5. inflow[x][b] + out \in Nat
  BY <1>1
<1>6. \A m \in Merchant :
        supply'[m] = IF m = a THEN supply[m] - in ELSE IF m = b THEN supply[m] + out ELSE supply[m]
  BY <1>1, <1>2
<1>7. supply' \in [Merchant -> Int]
  BY <1>1, <1>2, <1>3
<1>8. \A y \in Alliance, m \in Merchant :
        inflow'[y][m] = IF y = x /\ m = b THEN inflow[y][m] + out ELSE inflow[y][m]
  BY <1>1, <1>2
<1>9. inflow' \in [Alliance -> [Merchant -> Nat]]
  BY <1>1, <1>2, <1>5
<1>10. balance' = [balance EXCEPT ![a][c] = balance[a][c] - in, ![b][c] = balance[b][c] + out]
  BY <1>1, <1>2
<1>11. \A m \in Merchant, d \in Holder :
         balance'[m][d] = IF d # c THEN balance[m][d] ELSE
           IF m = a THEN balance[m][d] - in ELSE IF m = b THEN balance[m][d] + out ELSE balance[m][d]
  BY <1>1, <1>2, <1>10
<1>12. balance' \in [Merchant -> [Holder -> Nat]]
  BY <1>1, <1>4, <1>10
<1> QED
  BY <1>6, <1>7, <1>8, <1>9, <1>11, <1>12

LEMMA SwapKeepsInv ==
  ASSUME KoinonInv, SwapStep
  PROVE  KoinonInv'
<1> PICK x \in Alliance, a \in Merchant, b \in Merchant, c \in Holder, in \in Nat, out \in Nat :
      SwapEffect(x, a, b, c, in, out)
  BY SwapHasEffect DEF SwapStep, Holder
<1>0. /\ UNCHANGED <<halted, merchant, treasuries, reserve, escrow, alliance, day>>
      /\ member[x][b].open /\ merchant[b].open /\ in > 0 /\ out \in Nat
  BY DEF SwapEffect, MayTrade
<1>1. /\ member \in [Alliance -> [Merchant -> Member]] /\ member[x][b] \in Member
      /\ day \in Nat /\ member[x][b].rate > 0
      /\ merchant \in [Merchant -> MerchantType] /\ supply \in [Merchant -> Int]
  BY <1>0 DEF KoinonInv, TypeOK, AccountsTypeOK, RatesDivide, MerchantType
<1>p. /\ \A m \in Merchant :
           supply'[m] = IF m = a THEN supply[m] - in ELSE IF m = b THEN supply[m] + out ELSE supply[m]
      /\ \A y \in Alliance, m \in Merchant :
           inflow'[y][m] = IF y = x /\ m = b THEN inflow[y][m] + out ELSE inflow[y][m]
  BY SwapPointwise
<1> DEFINE today == InflowToday(member[x][b], out)
<1>2. today \in Nat
  BY <1>0, <1>1 DEF InflowToday, Member
<1>3. today = inflow[x][b] + out
  BY DEF InflowToday, KoinonInv, InflowIsCounted
<1>4. member' = [member EXCEPT ![x][b].swapped = today, ![x][b].day = day]
  BY DEF SwapEffect
<1> HIDE DEF today
<1>5. PICK e : e = [member[x][b] EXCEPT !.swapped = today, !.day = day]
  OBVIOUS
<1>6. /\ e \in Member /\ e.open = member[x][b].open /\ e.open
      /\ e.rate > 0 /\ e.swapped = today /\ e.day = day
  BY <1>0, <1>1, <1>2, <1>5 DEF Member
<1>7. member' = [member EXCEPT ![x][b] = e]
  BY <1>1, <1>4, <1>5
<1>8. /\ member' \in [Alliance -> [Merchant -> Member]] /\ RatesDivide'
      /\ \A y \in Alliance, n \in Merchant : y # x \/ n # b => member'[y][n] = member[y][n]
      /\ member'[x][b] = e
  BY <1>6, <1>7, MemberUpdate
<1>9. TypeOK'
  BY <1>0, <1>8, SwapPointwise DEF KoinonInv, TypeOK, AccountsTypeOK
<1>10. \A y \in Alliance, n \in Merchant : member'[y][n].open = member[y][n].open
  BY <1>0, <1>6, <1>8
<1>11. \A y \in Alliance : Members(y)' = Members(y)
  BY <1>10 DEF Members
<1>12. \A n \in Merchant : merchant[n].joined # NoAlliance => merchant[n].joined \in Alliance
  BY <1>1 DEF MerchantType
<1>13. Memberships'
  BY <1>0, <1>10, <1>11, <1>12 DEF KoinonInv, Memberships
<1>14. InflowIsCounted'
  <2>1. \A y \in Alliance, n \in Merchant :
          inflow'[y][n] = IF y = x /\ n = b THEN today ELSE inflow[y][n]
    BY <1>3, <1>p
  <2> SUFFICES ASSUME NEW y \in Alliance, NEW n \in Merchant
               PROVE  /\ member'[y][n].day <= day
                      /\ inflow'[y][n] = IF member'[y][n].day = day THEN member'[y][n].swapped ELSE 0
    BY <1>0 DEF InflowIsCounted
  <2>2. CASE y = x /\ n = b
    BY <1>1, <1>6, <1>8, <2>1, <2>2
  <2>3. CASE y # x \/ n # b
    BY <1>8, <2>1, <2>3 DEF KoinonInv, InflowIsCounted
  <2> QED
    BY <2>2, <2>3
<1>15. \A m \in Merchant : supply'[m] > 0 => supply[m] > 0 \/ m = b
  BY <1>0, <1>1, <1>p
<1> QED
  BY <1>0, <1>8, <1>9, <1>13, <1>14, <1>15 DEF KoinonInv, PointsHaveAMerchant

LEMMA NextDayKeepsInv ==
  ASSUME KoinonInv, NextDay
  PROVE  KoinonInv'
<1>1. /\ UNCHANGED <<halted, merchant, treasuries, supply, balance, reserve, escrow, alliance, member>>
      /\ day' = day + 1 /\ day \in 1 .. MaxDay /\ day' \in 1 .. MaxDay
      /\ inflow' = [x \in Alliance |-> [m \in Merchant |-> 0]]
  BY KoinonAssumption DEF NextDay, accounts, KoinonInv, TypeOK
<1>2. TypeOK'
  BY <1>1 DEF KoinonInv, TypeOK, AccountsTypeOK
<1>3. \A x \in Alliance : Members(x)' = Members(x)
  BY <1>1 DEF Members
<1>4. Memberships' /\ RatesDivide' /\ PointsHaveAMerchant'
  BY <1>1, <1>3 DEF KoinonInv, Memberships, RatesDivide, PointsHaveAMerchant
<1>5. \A x \in Alliance, m \in Merchant : member[x][m].day \in Nat /\ member[x][m].day <= day
  BY DEF KoinonInv, TypeOK, Member, InflowIsCounted
<1>6. InflowIsCounted'
  BY <1>1, <1>5 DEF InflowIsCounted
<1> QED
  BY <1>2, <1>4, <1>6 DEF KoinonInv

LEMMA InitIsInv == Init => KoinonInv
<1> SUFFICES ASSUME Init PROVE KoinonInv
  OBVIOUS
<1> USE KoinonAssumption, AccountsAssumption
<1>1. AccountsTypeOK
  <2>1. /\ NoMerchant \in [open : BOOLEAN, paused : BOOLEAN, joined : Alliance \cup {NoAlliance}]
        /\ NoReserve \in [open : BOOLEAN, value : Nat, ratio : Nat]
    BY DEF NoMerchant, NoReserve
  <2>2. merchant = [m \in Merchant |-> NoMerchant] /\ reserve = [m \in Merchant |-> NoReserve]
    BY DEF Init, AccountsInit
  <2>3. /\ halted = FALSE /\ treasuries = {} /\ supply = [m \in Merchant |-> 0]
        /\ balance = [m \in Merchant |-> [c \in Holder |-> 0]] /\ escrow = [m \in Merchant |-> 0]
    BY DEF Init, AccountsInit
  <2>4. merchant \in [Merchant -> [open : BOOLEAN, paused : BOOLEAN, joined : Alliance \cup {NoAlliance}]]
    BY <2>1, <2>2
  <2>5. reserve \in [Merchant -> [open : BOOLEAN, value : Nat, ratio : Nat]]
    BY <2>1, <2>2
  <2>6. balance \in [Merchant -> [Holder -> Nat]]
    BY <2>3
  <2>7. supply \in [Merchant -> Int] /\ escrow \in [Merchant -> Nat]
    BY <2>3
  <2> QED
    BY <2>3, <2>4, <2>5, <2>6, <2>7 DEF AccountsTypeOK
<1>2. NoAllianceAccount \in AllianceAccount /\ NoMember \in Member
  BY DEF NoAllianceAccount, NoTerms, AllianceAccount, NoMember, Member
<1>3. TypeOK
  BY <1>1, <1>2 DEF Init, TypeOK
<1>4. \A x \in Alliance : Members(x) = {} /\ alliance[x].members = 0
  BY DEF Init, Members, NoMember, NoAllianceAccount
<1>5. Memberships
  BY <1>4, FS_EmptySet DEF Memberships, Init, AccountsInit, NoMerchant
<1>6. RatesDivide /\ InflowIsCounted /\ PointsHaveAMerchant
  BY DEF Init, AccountsInit, RatesDivide, InflowIsCounted, PointsHaveAMerchant, NoMember
<1> QED
  BY <1>3, <1>5, <1>6 DEF KoinonInv

(* The invariant behind the theorems below.                                 *)
THEOREM KoinonInvariant == Spec => []KoinonInv
<1>1. KoinonInv /\ [Next]_vars => KoinonInv'
  <2> SUFFICES ASSUME KoinonInv, [Next]_vars PROVE KoinonInv'
    OBVIOUS
  <2>1. CASE AccountsStep /\ UNCHANGED <<koinonVars, day>>
    BY <2>1, RegistrationKeepsInv, PointsKeepInv, ReserveKeepsInv DEF AccountsStep
  <2>2. CASE UNCHANGED vars
    <3>1. UNCHANGED <<halted, merchant, treasuries, supply, balance, reserve, escrow>>
          /\ UNCHANGED <<alliance, member, inflow, day>>
      BY <2>2 DEF vars, accounts, koinonVars
    <3>2. \A x \in Alliance : Members(x)' = Members(x)
      BY <3>1 DEF Members
    <3> QED
      BY <3>1, <3>2 DEF KoinonInv, TypeOK, AccountsTypeOK, Memberships, RatesDivide,
                        InflowIsCounted, PointsHaveAMerchant
  <2> QED
    BY <2>1, <2>2, AllianceStepKeepsInv, MemberStepKeepsInv, SwapKeepsInv, NextDayKeepsInv DEF Next
<1> QED
  BY InitIsInv, <1>1, PTL DEF Spec

(* The accounts keep their layout; the fee is never more than the whole.    *)
THEOREM KoinonTypeCorrect == Spec => []TypeOK
<1>1. KoinonInv => TypeOK
  BY DEF KoinonInv
<1> QED
  BY <1>1, KoinonInvariant, PTL

(* The member count and the alliance a merchant names agree with the        *)
(* membership accounts, whatever is left, closed and registered anew.       *)
THEOREM MembershipsAreCounted == Spec => []MembershipBooks
<1>1. KoinonInv => MembershipBooks
  BY DEF KoinonInv, Memberships, MembershipBooks, Members
<1> QED
  BY <1>1, KoinonInvariant, PTL

-----------------------------------------------------------------------------
(* The supply and the holders.  A mint that registration starts anew is     *)
(* empty only because no points are left without a merchant, which is what  *)
(* PointsHaveAMerchant adds to make the sum inductive.                      *)

SupplyIsHeld == \A m \in Merchant : supply[m] = Total(balance[m], Holder)

LEMMA HoldingsAreInt ==
  ASSUME KoinonInv
  PROVE  /\ IsFiniteSet(Holder)
         /\ \A m \in Merchant : supply[m] \in Int /\ \A c \in Holder : balance[m][c] \in Nat
         /\ \A m \in Merchant : Total(balance[m], Holder) \in Nat
<1>1. \A m \in Merchant : supply[m] \in Int /\ \A c \in Holder : balance[m][c] \in Nat
  BY DEF KoinonInv, TypeOK, AccountsTypeOK
<1>2. IsFiniteSet(Holder)
  BY AccountsAssumption, FS_AddElement DEF Holder
<1> QED
  BY <1>1, <1>2, TotalIsNat

(* When one customer of a mint gets n more (or -n fewer) with its supply.   *)
LEMMA OneHolderMoves ==
  ASSUME KoinonInv, SupplyIsHeld, NEW m \in Merchant, NEW c \in Holder, NEW n \in Int,
         supply'[m] = supply[m] + n, balance'[m][c] = balance[m][c] + n,
         \A d \in Holder \ {c} : balance'[m][d] = balance[m][d]
  PROVE  supply'[m] = Total(balance'[m], Holder)
<1> DEFINE f == balance[m]
           g == balance'[m]
<1>1. \A d \in Holder : f[d] \in Int
  BY HoldingsAreInt
<1>2. g[c] = f[c] + n /\ \A d \in Holder \ {c} : g[d] = f[d]
  OBVIOUS
<1>3. supply[m] = Total(f, Holder)
  BY DEF SupplyIsHeld
<1>4. IsFiniteSet(Holder)
  BY HoldingsAreInt
<1> HIDE DEF f, g
<1>5. Total(g, Holder) = Total(f, Holder) + n
  BY <1>1, <1>2, <1>4, TotalAfterOne
<1>6. supply'[m] = Total(g, Holder)
  BY <1>3, <1>5
<1> QED
  BY <1>6 DEF g

LEMMA PointsKeepHoldings ==
  ASSUME KoinonInv, SupplyIsHeld, PointStep
  PROVE  SupplyIsHeld'
<1>0. supply \in [Merchant -> Int] /\ balance \in [Merchant -> [Holder -> Nat]]
  BY DEF KoinonInv, TypeOK, AccountsTypeOK
<1>1. PICK m \in Merchant, k \in 1 .. MaxSupply :
             \/ \E c \in Holder : Issue(m, c, k) \/ Retire(m, c, k)
             \/ \E h, g \in Holder : Transfer(m, h, g, k)
  BY DEF PointStep, Holder
<1>2. ASSUME NEW h \in Holder, NEW g \in Holder, Transfer(m, h, g, k), NEW p \in Merchant
      PROVE  supply'[p] = Total(balance'[p], Holder)
  <2>1. k \in Int
    BY AccountsAssumption
  <2>2. /\ h # g /\ supply' = supply
        /\ balance' = [balance EXCEPT ![m] =
                         [balance[m] EXCEPT ![h] = balance[m][h] - k, ![g] = balance[m][g] + k]]
    BY <1>0, <1>2 DEF Transfer
  <2>3. CASE p # m
    BY <1>0, <2>2, <2>3 DEF SupplyIsHeld
  <2>4. CASE p = m
    <3> DEFINE e == balance[m]
               f == balance'[m]
    <3>1. IsFiniteSet(Holder) /\ \A d \in Holder : e[d] \in Int
      BY HoldingsAreInt
    <3>2. f[h] = e[h] - k /\ f[g] = e[g] + k /\ \A d \in Holder \ {h, g} : f[d] = e[d]
      BY <1>0, <2>2
    <3>3. supply'[m] = Total(e, Holder)
      BY <2>2 DEF SupplyIsHeld
    <3> HIDE DEF e, f
    <3>4. Total(f, Holder) = Total(e, Holder)
      BY <2>1, <2>2, <3>1, <3>2, TotalAfterMove
    <3> QED
      BY <2>4, <3>3, <3>4 DEF f
  <2> QED
    BY <2>3, <2>4
<1>3. CASE \E h, g \in Holder : Transfer(m, h, g, k)
  BY <1>2, <1>3 DEF SupplyIsHeld
<1>4. ASSUME NEW c \in Holder, Issue(m, c, k) \/ Retire(m, c, k)
      PROVE  SupplyIsHeld'
  <2>1. PICK n \in Int : /\ supply' = [supply EXCEPT ![m] = @ + n]
                         /\ balance' = [balance EXCEPT ![m][c] = @ + n]
    <3>1. k \in Int /\ -k \in Int
      BY AccountsAssumption
    <3>2. CASE Issue(m, c, k)
      BY <3>1, <3>2 DEF Issue
    <3>3. CASE Retire(m, c, k)
      <4>1. supply[m] - k = supply[m] + (-k) /\ balance[m][c] - k = balance[m][c] + (-k)
        BY <1>0, <3>1
      <4>2. /\ supply' = [supply EXCEPT ![m] = supply[m] - k]
            /\ balance' = [balance EXCEPT ![m] = [balance[m] EXCEPT ![c] = balance[m][c] - k]]
        BY <1>0, <3>3 DEF Retire
      <4>3. /\ supply' = [supply EXCEPT ![m] = supply[m] + (-k)]
            /\ balance' = [balance EXCEPT ![m] = [balance[m] EXCEPT ![c] = balance[m][c] + (-k)]]
        BY <4>1, <4>2
      <4> QED
        BY <3>1, <4>3
    <3> QED
      BY <1>4, <3>2, <3>3
  <2>2. ASSUME NEW p \in Merchant
        PROVE  supply'[p] = Total(balance'[p], Holder)
    <3>1. CASE p = m
      <4>1. /\ supply'[m] = supply[m] + n /\ balance'[m][c] = balance[m][c] + n
            /\ \A d \in Holder \ {c} : balance'[m][d] = balance[m][d]
        BY <1>0, <2>1
      <4> QED
        BY <3>1, <4>1, OneHolderMoves
    <3>2. CASE p # m
      BY <1>0, <2>1, <3>2 DEF SupplyIsHeld
    <3> QED
      BY <3>1, <3>2
  <2> QED
    BY <2>2 DEF SupplyIsHeld
<1> QED
  BY <1>1, <1>3, <1>4

LEMMA SwapKeepsHoldings ==
  ASSUME KoinonInv, SupplyIsHeld, SwapStep
  PROVE  SupplyIsHeld'
<1>0. supply \in [Merchant -> Int] /\ balance \in [Merchant -> [Holder -> Nat]]
  BY DEF KoinonInv, TypeOK, AccountsTypeOK
<1>1. PICK x \in Alliance, a \in Merchant, b \in Merchant, c \in Holder, in \in Nat, out \in Nat :
        SwapEffect(x, a, b, c, in, out)
  BY SwapHasEffect DEF SwapStep, Holder
<1>2. /\ \A m \in Merchant :
           supply'[m] = IF m = a THEN supply[m] - in ELSE IF m = b THEN supply[m] + out ELSE supply[m]
      /\ \A m \in Merchant, d \in Holder :
           balance'[m][d] = IF d # c THEN balance[m][d] ELSE
             IF m = a THEN balance[m][d] - in ELSE IF m = b THEN balance[m][d] + out ELSE balance[m][d]
  BY <1>1, SwapPointwise
<1>3. ASSUME NEW p \in Merchant
      PROVE  supply'[p] = Total(balance'[p], Holder)
  <2>1. PICK n \in Int : supply'[p] = supply[p] + n /\ balance'[p][c] = balance[p][c] + n
    <3>1. supply[p] \in Int /\ balance[p][c] \in Int
      BY <1>0
    <3>2. CASE p = a
      <4>1. -in \in Int /\ supply'[p] = supply[p] + (-in) /\ balance'[p][c] = balance[p][c] + (-in)
        BY <1>2, <3>1, <3>2
      <4> QED
        BY <4>1
    <3>3. CASE p # a /\ p = b
      BY <1>2, <3>3
    <3>4. CASE p # a /\ p # b
      <4>1. supply'[p] = supply[p] + 0 /\ balance'[p][c] = balance[p][c] + 0
        BY <1>2, <3>1, <3>4
      <4> QED
        BY <4>1
    <3> QED
      BY <3>2, <3>3, <3>4
  <2>2. \A d \in Holder \ {c} : balance'[p][d] = balance[p][d]
    BY <1>2
  <2> QED
    BY <2>1, <2>2, OneHolderMoves
<1> QED
  BY <1>3 DEF SupplyIsHeld

LEMMA RegistrationKeepsHoldings ==
  ASSUME KoinonInv, SupplyIsHeld, RegistrationStep
  PROVE  SupplyIsHeld'
<1>0. supply \in [Merchant -> Int]
  BY DEF KoinonInv, TypeOK, AccountsTypeOK
<1>1. CASE supply' = supply /\ balance' = balance
  BY <1>1 DEF SupplyIsHeld
<1>2. ASSUME NEW m \in Merchant, RegisterMerchant(m)
      PROVE  SupplyIsHeld'
  <2>1. supply' = [supply EXCEPT ![m] = 0] /\ balance' = balance /\ ~merchant[m].open
    BY <1>2 DEF RegisterMerchant
  <2>2. supply[m] = 0
    BY <2>1, HoldingsAreInt DEF KoinonInv, PointsHaveAMerchant, SupplyIsHeld
  <2> QED
    BY <1>0, <2>1, <2>2 DEF SupplyIsHeld
<1> QED
  BY <1>1, <1>2 DEF RegistrationStep, SetMerchantPaused, CloseMerchant, CloseTreasury, SetPaused

(* Points are outstanding only where the merchant's account exists, and no  *)
(* earn, burn, swap, closing or registration anew lets the supply of a mint *)
(* differ from what its holders hold.                                       *)
THEOREM NoPointsAreOrphaned == Spec => []NothingIsOrphaned
<1>1. Init => SupplyIsHeld
  <2> SUFFICES ASSUME Init, NEW m \in Merchant
               PROVE  supply[m] = Total(balance[m], Holder)
    BY DEF SupplyIsHeld
  <2>1. supply[m] = 0 /\ \A c \in Holder : balance[m][c] = 0
    BY DEF Init, AccountsInit
  <2>2. IsFiniteSet(Holder)
    BY AccountsAssumption, FS_AddElement DEF Holder
  <2> QED
    BY <2>1, <2>2, TotalOfZeros
<1>2. KoinonInv /\ SupplyIsHeld /\ [Next]_vars => SupplyIsHeld'
  <2> SUFFICES ASSUME KoinonInv, SupplyIsHeld, [Next]_vars
               PROVE  SupplyIsHeld'
    OBVIOUS
  <2>1. CASE supply' = supply /\ balance' = balance
    BY <2>1 DEF SupplyIsHeld
  <2>2. CASE AccountsStep
    <3>1. ReserveStep => supply' = supply /\ balance' = balance
      BY DEF ReserveStep, OpenReserve, FundReserve, WithdrawReserve
    <3> QED
      BY <2>1, <2>2, <3>1, PointsKeepHoldings, RegistrationKeepsHoldings DEF AccountsStep
  <2>3. AllianceStep => supply' = supply /\ balance' = balance
    BY DEF AllianceStep, AllianceOnly, accounts, CreateAlliance, AcceptAllianceAuthority,
           TransferAllianceAuthority, SetAlliancePaused, SetAllianceParams
  <2>4. MemberStep => supply' = supply /\ balance' = balance
    BY DEF MemberStep, MemberOnly, accounts, JoinAlliance, LeaveAlliance, SetMemberActive,
           SetSwapRate, SetSwapBudget
  <2>5. NextDay \/ UNCHANGED vars => supply' = supply /\ balance' = balance
    BY DEF NextDay, vars, accounts
  <2> QED
    BY <2>1, <2>2, <2>3, <2>4, <2>5, SwapKeepsHoldings DEF Next
<1>3. KoinonInv /\ SupplyIsHeld => NothingIsOrphaned
  <2> SUFFICES ASSUME KoinonInv, SupplyIsHeld, NEW m \in Merchant
               PROVE  /\ supply[m] > 0 => merchant[m].open
                      /\ supply[m] = MapThenSumSet(LAMBDA c : balance[m][c], Holder)
    BY DEF NothingIsOrphaned
  <2>1. Total(balance[m], Holder) = MapThenSumSet(LAMBDA c : balance[m][c], Holder)
    BY Zenon DEF Total
  <2> QED
    BY <2>1 DEF KoinonInv, PointsHaveAMerchant, SupplyIsHeld
<1> QED
  BY <1>1, <1>2, <1>3, KoinonInvariant, PTL DEF Spec

-----------------------------------------------------------------------------
(* What a step may do *)

LEMMA OnlySwapsFlowIn ==
  ASSUME KoinonInv, [Next]_vars, NEW x \in Alliance, NEW m \in Merchant, inflow'[x][m] > inflow[x][m]
  PROVE  SwapStep
<1>0. inflow \in [Alliance -> [Merchant -> Nat]]
  BY DEF KoinonInv, TypeOK
<1>1. ~(inflow' = inflow)
  BY <1>0
<1>2. ~UNCHANGED vars /\ ~(AccountsStep /\ UNCHANGED <<koinonVars, day>>)
  BY <1>1 DEF vars, koinonVars
<1>3. ~NextDay
  BY <1>0 DEF NextDay
<1>4. ~AllianceStep
  BY <1>1 DEF AllianceStep, AllianceOnly, CreateAlliance, AcceptAllianceAuthority,
              TransferAllianceAuthority, SetAlliancePaused, SetAllianceParams
<1>5. ASSUME MemberStep PROVE FALSE
  <2>1. PICK y \in Alliance, n \in Merchant :
          \/ inflow' = [inflow EXCEPT ![y][n] = 0]
          \/ inflow' = inflow
    BY <1>5 DEF MemberStep, MemberOnly, JoinAlliance, LeaveAlliance, SetMemberActive, SetSwapRate,
                SetSwapBudget
  <2>2. inflow' = [inflow EXCEPT ![y][n] = 0]
    BY <1>1, <2>1
  <2>3. inflow'[x][m] = 0 \/ inflow'[x][m] = inflow[x][m]
    BY <1>0, <2>2
  <2> QED
    BY <1>0, <2>3
<1> QED
  BY <1>2, <1>3, <1>4, <1>5 DEF Next

(* Swaps mint through a membership what its budget has left, however often  *)
(* the counter was rolled over, the budget moved or the member suspended.   *)
THEOREM InflowStaysInBudget == Spec => BudgetBoundsInflow
<1>1. KoinonInv /\ [Next]_vars =>
        [\A x \in Alliance, m \in Merchant :
           inflow'[x][m] > inflow[x][m] => inflow'[x][m] <= member[x][m].budget]_vars
  <2> SUFFICES ASSUME KoinonInv, [Next]_vars, NEW x \in Alliance, NEW m \in Merchant,
                      inflow'[x][m] > inflow[x][m]
               PROVE  inflow'[x][m] <= member[x][m].budget
    OBVIOUS
  <2>1. SwapStep
    BY OnlySwapsFlowIn
  <2>2. PICK y \in Alliance, a \in Merchant, b \in Merchant, c \in Holder, in \in Nat, out \in Nat :
          SwapEffect(y, a, b, c, in, out)
    BY <2>1, SwapHasEffect DEF SwapStep, Holder
  <2>3. inflow'[x][m] = IF x = y /\ m = b THEN inflow[x][m] + out ELSE inflow[x][m]
    BY <2>2, SwapPointwise
  <2>4. x = y /\ m = b /\ inflow[x][m] \in Nat
    BY <2>3 DEF KoinonInv, TypeOK
  <2>5. inflow[x][m] + out = InflowToday(member[x][m], out)
    BY <2>2 DEF InflowToday, KoinonInv, InflowIsCounted
  <2> QED
    BY <2>2, <2>3, <2>4, <2>5 DEF SwapEffect
<1> QED
  BY <1>1, KoinonInvariant, PTL DEF Spec, BudgetBoundsInflow

LEMMA OnlySwapsMoveValue ==
  ASSUME KoinonInv, [Next]_vars, NEW c \in Holder, NEW a \in Merchant, NEW b \in Merchant,
         balance'[a][c] < balance[a][c], balance'[b][c] > balance[b][c]
  PROVE  SwapStep
<1>0. balance \in [Merchant -> [Holder -> Nat]]
  BY DEF KoinonInv, TypeOK, AccountsTypeOK
<1>1. ~(balance' = balance)
  BY <1>0
<1>2. ~UNCHANGED vars /\ ~NextDay
  BY <1>1 DEF vars, accounts, NextDay
<1>3. ~AllianceStep
  BY <1>1 DEF AllianceStep, AllianceOnly, accounts, CreateAlliance, AcceptAllianceAuthority,
              TransferAllianceAuthority, SetAlliancePaused, SetAllianceParams
<1>4. ~MemberStep
  BY <1>1 DEF MemberStep, MemberOnly, accounts, JoinAlliance, LeaveAlliance, SetMemberActive,
              SetSwapRate, SetSwapBudget
<1>5. ~RegistrationStep
  BY <1>1 DEF RegistrationStep, RegisterMerchant, SetMerchantPaused, CloseMerchant, CloseTreasury,
              SetPaused
<1>6. ~ReserveStep
  BY <1>1 DEF ReserveStep, OpenReserve, FundReserve, WithdrawReserve
<1>7. ASSUME PointStep PROVE FALSE
  <2>1. PICK m \in Merchant, n \in 1 .. MaxSupply :
               \/ \E d \in Holder : Issue(m, d, n) \/ Retire(m, d, n)
               \/ \E h, g \in Holder : Transfer(m, h, g, n)
    BY <1>7 DEF PointStep, Holder
  <2>2. n \in Nat
    BY AccountsAssumption
  <2>3. ASSUME NEW d \in Holder, balance' = [balance EXCEPT ![m][d] = @ + n]
        PROVE  FALSE
    <3>1. balance'[a][c] = balance[a][c] \/ balance'[a][c] = balance[a][c] + n
      BY <1>0, <2>3
    <3> QED
      BY <1>0, <2>2, <3>1
  <2>4. ASSUME NEW d \in Holder, balance' = [balance EXCEPT ![m][d] = @ - n]
        PROVE  FALSE
    <3>1. balance'[b][c] = balance[b][c] \/ balance'[b][c] = balance[b][c] - n
      BY <1>0, <2>4
    <3> QED
      BY <1>0, <2>2, <3>1
  <2>5. ASSUME NEW h \in Holder, NEW g \in Holder, Transfer(m, h, g, n)
        PROVE  FALSE
    <3>1. balance' = [balance EXCEPT ![m] =
                       [balance[m] EXCEPT ![h] = balance[m][h] - n, ![g] = balance[m][g] + n]]
      BY <1>0, <2>5 DEF Transfer
    <3>2. \A p \in Merchant : p # m => balance'[p][c] = balance[p][c]
      BY <1>0, <3>1
    <3>3. a = m /\ b = m
      BY <1>0, <3>2
    <3>4. balance'[m][c] \in Int
      BY <1>0, <2>2, <3>1
    <3> QED
      BY <1>0, <3>3, <3>4
  <2> QED
    BY <2>1, <2>3, <2>4, <2>5 DEF Issue, Retire
<1> QED
  BY <1>2, <1>3, <1>4, <1>5, <1>6, <1>7 DEF Next, AccountsStep

(* Converting, rounding and the fee never favour the customer.              *)
THEOREM ConversionCreatesNothing == Spec => SwapsCreateNoValue
<1>1. KoinonInv /\ [Next]_vars =>
        [\A c \in Customer, a, b \in Merchant :
           balance'[a][c] < balance[a][c] /\ balance'[b][c] > balance[b][c] =>
             \E x \in Alliance :
               /\ member[x][a].open /\ member[x][b].open
               /\ (balance'[b][c] - balance[b][c] - 1) * member[x][b].rate * Scale[a][day]
                    <= (balance[a][c] - balance'[a][c] + 1) * member[x][a].rate * Scale[b][day]]_vars
  <2> SUFFICES ASSUME KoinonInv, [Next]_vars, NEW c \in Customer, NEW a \in Merchant, NEW b \in Merchant,
                      balance'[a][c] < balance[a][c], balance'[b][c] > balance[b][c]
               PROVE  \E x \in Alliance :
                        /\ member[x][a].open /\ member[x][b].open
                        /\ (balance'[b][c] - balance[b][c] - 1) * member[x][b].rate * Scale[a][day]
                             <= (balance[a][c] - balance'[a][c] + 1) * member[x][a].rate * Scale[b][day]
    OBVIOUS
  <2>0. c \in Holder
    BY DEF Holder
  <2>1. SwapStep
    BY <2>0, OnlySwapsMoveValue
  <2>2. PICK x \in Alliance, p \in Merchant, q \in Merchant, d \in Holder, in \in Nat, out \in Nat :
          SwapEffect(x, p, q, d, in, out)
    BY <2>1, SwapHasEffect DEF SwapStep, Holder
  <2>3. \A m \in Merchant, k \in Holder :
          balance'[m][k] = IF k # d THEN balance[m][k] ELSE
            IF m = p THEN balance[m][k] - in ELSE IF m = q THEN balance[m][k] + out ELSE balance[m][k]
    BY <2>2, SwapPointwise
  <2>4. balance[a][c] \in Nat /\ balance[b][c] \in Nat
    BY <2>0 DEF KoinonInv, TypeOK, AccountsTypeOK
  <2>5. c = d /\ a = p
    BY <2>0, <2>3, <2>4
  <2>6. b = q
    BY <2>0, <2>3, <2>4
  <2>7. p # q
    BY <2>2 DEF SwapEffect
  <2>8. balance[a][c] - balance'[a][c] + 1 = in + 1 /\ balance'[b][c] - balance[b][c] - 1 = out - 1
    BY <2>0, <2>3, <2>4, <2>5, <2>6, <2>7
  <2> QED
    BY <2>2, <2>5, <2>6, <2>8 DEF SwapEffect, MayTrade
<1> QED
  BY <1>1, KoinonInvariant, PTL DEF Spec, SwapsCreateNoValue

(* A reserve stays covered while its terms stand, its escrow is no smaller  *)
(* and the supply no larger.                                                *)
LEMMA CoverStays ==
  ASSUME KoinonInv, NEW m \in Merchant, Covered(m), supply'[m] \in Int, supply'[m] <= supply[m],
         reserve'[m] = reserve[m], escrow'[m] \in Int, escrow'[m] >= escrow[m]
  PROVE  Covered(m)'
<1> DEFINE v == reserve[m].value
           r == reserve[m].ratio
<1>1. v \in Nat /\ r \in Nat /\ supply[m] \in Int /\ escrow[m] \in Int /\ Unit \in Nat \ {0}
  BY AccountsAssumption DEF KoinonInv, TypeOK, AccountsTypeOK
<1> HIDE DEF v, r
<1>2. supply'[m] * v <= supply[m] * v /\ supply'[m] * v \in Int /\ supply[m] * v \in Int
  BY <1>1, ProductGrows
<1>3. /\ supply'[m] * v * r <= supply[m] * v * r
      /\ supply'[m] * v * r \in Int /\ supply[m] * v * r \in Int
  BY <1>1, <1>2, ProductGrows
<1> DEFINE n == supply'[m] * v * r
           k == supply[m] * v * r
<1> HIDE DEF n, k
<1>4. n \div Unit <= k \div Unit
  BY <1>1, <1>3, QuotientGrows DEF n, k
<1>5. n \div Unit \in Int /\ k \div Unit \in Int
  BY <1>1, <1>3 DEF n, k
<1>6. reserve[m].open /\ escrow[m] >= k \div Unit
  BY DEF Covered, RequiredReserve, n, k, v, r
<1>7. escrow'[m] >= n \div Unit
  BY <1>1, <1>4, <1>5, <1>6
<1>8. n = supply'[m] * reserve'[m].value * reserve'[m].ratio
  BY DEF n, v, r
<1> QED
  BY <1>6, <1>7, <1>8 DEF Covered, RequiredReserve

(* What steps other than withdrawals do to a reserve whose supply they do   *)
(* not raise.                                                               *)
LEMMA CoverLeftAlone ==
  ASSUME KoinonInv, KoinonInv', [Next]_vars, NEW m \in Merchant, Covered(m), supply'[m] <= supply[m]
  PROVE  Covered(m)'
<1>0. /\ escrow \in [Merchant -> Nat] /\ escrow'[m] \in Int /\ supply'[m] \in Int
      /\ reserve \in [Merchant -> [open : BOOLEAN, value : Nat, ratio : Nat]]
      /\ reserve[m].open
  BY DEF KoinonInv, TypeOK, AccountsTypeOK, Covered
<1>1. ASSUME ReserveStep PROVE Covered(m)'
  <2>1. PICK k \in Backed : \/ \E t \in ReserveTerms : OpenReserve(k, t)
                            \/ \E n \in 1 .. MaxEscrow : FundReserve(k, n) \/ WithdrawReserve(k, n)
    BY <1>1 DEF ReserveStep
  <2>2. ASSUME NEW t \in ReserveTerms, OpenReserve(k, t) PROVE Covered(m)'
    <3>1. k # m
      BY <1>0, <2>2 DEF OpenReserve
    <3>2. reserve'[m] = reserve[m] /\ escrow' = escrow
      BY <1>0, <2>2, <3>1 DEF OpenReserve
    <3> QED
      BY <1>0, <3>2, CoverStays
  <2>3. ASSUME NEW n \in 1 .. MaxEscrow, FundReserve(k, n) PROVE Covered(m)'
    <3>1. n \in Nat /\ reserve' = reserve /\ escrow' = [escrow EXCEPT ![k] = @ + n]
      BY <2>3, AccountsAssumption DEF FundReserve
    <3>2. escrow'[m] >= escrow[m]
      BY <1>0, <3>1
    <3> QED
      BY <1>0, <3>1, <3>2, CoverStays
  <2>4. ASSUME NEW n \in 1 .. MaxEscrow, WithdrawReserve(k, n) PROVE Covered(m)'
    <3>1. /\ escrow' = [escrow EXCEPT ![k] = @ - n] /\ reserve' = reserve /\ supply' = supply
          /\ escrow'[k] >= RequiredReserve(k, supply[k])
      BY <2>4 DEF WithdrawReserve
    <3>2. CASE k = m
      BY <1>0, <3>1, <3>2 DEF Covered, RequiredReserve
    <3>3. CASE k # m
      <4>1. escrow'[m] = escrow[m]
        BY <1>0, <3>1, <3>3
      <4> QED
        BY <1>0, <3>1, <4>1, CoverStays
    <3> QED
      BY <3>2, <3>3
  <2> QED
    BY <2>1, <2>2, <2>3, <2>4
<1>2. ASSUME reserve' = reserve, escrow' = escrow PROVE Covered(m)'
  BY <1>0, <1>2, CoverStays
<1>3. ASSUME RegistrationStep PROVE reserve' = reserve /\ escrow' = escrow
  BY <1>3 DEF RegistrationStep, RegisterMerchant, SetMerchantPaused, CloseMerchant, CloseTreasury,
              SetPaused
<1>4. ASSUME PointStep PROVE reserve' = reserve /\ escrow' = escrow
  BY <1>4 DEF PointStep, Issue, Retire, Transfer
<1>5. ASSUME AllianceStep PROVE reserve' = reserve /\ escrow' = escrow
  BY <1>5 DEF AllianceStep, AllianceOnly, accounts, CreateAlliance, AcceptAllianceAuthority,
              TransferAllianceAuthority, SetAlliancePaused, SetAllianceParams
<1>6. ASSUME MemberStep PROVE reserve' = reserve /\ escrow' = escrow
  BY <1>6 DEF MemberStep, MemberOnly, accounts, JoinAlliance, LeaveAlliance, SetMemberActive,
              SetSwapRate, SetSwapBudget
<1>7. ASSUME SwapStep PROVE reserve' = reserve /\ escrow' = escrow
  BY <1>7, SwapHasEffect DEF SwapStep, SwapEffect
<1>8. ASSUME NextDay \/ UNCHANGED vars PROVE reserve' = reserve /\ escrow' = escrow
  BY <1>8 DEF NextDay, vars, accounts
<1> QED
  BY <1>1, <1>2, <1>3, <1>4, <1>5, <1>6, <1>7, <1>8 DEF Next, AccountsStep

(* The escrow a withdrawal must leave behind is never lost in another way:  *)
(* only minting can outgrow it.                                             *)
THEOREM OnlyMintingUncovers == Spec => CoverageLostOnlyByMinting
<1>1. KoinonInv /\ KoinonInv' /\ [Next]_vars =>
        [\A m \in Merchant : Covered(m) /\ ~Covered(m)' => supply'[m] > supply[m]]_vars
  <2> SUFFICES ASSUME KoinonInv, KoinonInv', [Next]_vars, NEW m \in Merchant,
                      Covered(m), ~(supply'[m] > supply[m])
               PROVE  Covered(m)'
    OBVIOUS
  <2>1. supply[m] \in Int /\ supply'[m] \in Int
    BY DEF KoinonInv, TypeOK, AccountsTypeOK
  <2> QED
    BY <2>1, CoverLeftAlone
<1> QED
  BY <1>1, KoinonInvariant, PTL DEF Spec, CoverageLostOnlyByMinting
=============================================================================
