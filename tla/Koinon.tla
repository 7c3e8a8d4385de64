------------------------------- MODULE Koinon --------------------------------
(***************************************************************************)
(* Koinon: alliances of merchants, and the swaps by which a customer turns *)
(* points of one member into points of another.  A swap burns on one mint  *)
(* and mints on the other, converted through displayed (UI) value: each    *)
(* member has a rate to a virtual alliance unit and a daily budget of      *)
(* points it lets others mint on it.                                       *)
(*                                                                         *)
(* Joining, leaving, closing and registering again are whole instructions  *)
(* over three accounts -- merchant, membership, alliance -- that must keep *)
(* agreeing.  Signers are left out, but for the alliance's authority:      *)
(* joining and every change of terms needs the member and that authority.  *)
(***************************************************************************)
EXTENDS MerchantAccounts

CONSTANTS
  Key,        \* keys an alliance's authority may be
  Creator,    \* the key that creates the alliances
  NoKey,      \* None
  Rates,      \* rate_bps_to_alliance in play, the refused 0 included
  Budgets,    \* swap_in_budget_raw in play
  Terms,      \* set_alliance_params arguments in play
  MaxFee,     \* MAX_ALLIANCE_FEE_BPS
  UiAmounts,  \* amounts customers swap
  Scale,      \* raw points per Grain displayed ones, by merchant and day
  Grain,
  MaxDay      \* bound

ASSUME KoinonAssumption ==
  /\ NoKey \notin Key /\ Creator \in Key
  /\ Rates \subseteq Nat /\ Budgets \subseteq Nat /\ UiAmounts \subseteq Nat
  /\ Terms \subseteq [fee : Nat, low : Nat, high : Nat]
  /\ MaxFee \in Nat /\ MaxFee <= Unit
  /\ MaxDay \in Nat \ {0} /\ Grain \in Nat \ {0}
  /\ Scale \in [Merchant -> [1 .. MaxDay -> Nat \ {0}]]

VARIABLES
  alliance,   \* Alliance by address (open: the account exists)
  member,     \* AllianceMember by alliance and merchant (open: it exists)
  day,        \* unix day
  inflow      \* history: raw points really minted today through a membership

koinonVars == <<alliance, member, inflow>>
vars == <<accounts, koinonVars, day>>

NoTerms == [fee |-> 0, low |-> 0, high |-> 0]
NoAllianceAccount == [open |-> FALSE, authority |-> NoKey, pending |-> NoKey, paused |-> FALSE,
                      terms |-> NoTerms, members |-> 0]
NewAlliance == [open |-> TRUE, authority |-> Creator, pending |-> NoKey, paused |-> FALSE,
                terms |-> NoTerms, members |-> 0]
NoMember == [open |-> FALSE, rate |-> 0, budget |-> 0, swapped |-> 0, day |-> 0, active |-> FALSE]

AllianceAccount == [open : BOOLEAN, authority : Key \cup {NoKey}, pending : Key \cup {NoKey},
                    paused : BOOLEAN, terms : [fee : 0 .. MaxFee, low : Nat, high : Nat],
                    members : Nat]
Member == [open : BOOLEAN, rate : Nat, budget : Nat, swapped : Nat, day : Nat, active : BOOLEAN]

(* TypeOK: the declared layout of the accounts; fees stay below the whole.  *)
(* That no supply is less than its holders hold is left to NothingIsOrphaned*)
TypeOK ==
  /\ AccountsTypeOK
  /\ alliance \in [Alliance -> AllianceAccount]
  /\ member \in [Alliance -> [Merchant -> Member]]
  /\ day \in 1 .. MaxDay
  /\ inflow \in [Alliance -> [Merchant -> Nat]]

-----------------------------------------------------------------------------
(* Helpers *)

(* ui_points_to_raw: a mint that has decayed shows fewer points than it     *)
(* holds.  The conversion is Token-2022's own, in floating point: all that  *)
(* is relied on is that it rounds down or up to a whole raw amount.         *)
Raws(m, ui) == {n \div Grain : n \in {ui * Scale[m][day], ui * Scale[m][day] + Grain - 1}}

(* A faulty variant: what a slip in the next definition would look like.    *)
UiOutInverted(x, a, b, ui) ==
  (((ui * member[x][b].rate) \div member[x][a].rate) * (Unit - alliance[x].terms.fee)) \div Unit

(* What ui points of a are worth in points of b, rounded down, less the fee.*)
UiOut(x, a, b, ui) ==
  (((ui * member[x][a].rate) \div member[x][b].rate) * (Unit - alliance[x].terms.fee)) \div Unit

(* A faulty variant: what a slip in the next definition would look like.    *)
InflowTodayAnew(e, n) == n

(* A membership's counter with n more, rolled to the current day.           *)
InflowToday(e, n) == (IF e.day = day THEN e.swapped ELSE 0) + n

(* check_rate_bounds; a zero bound is none.                                 *)
WithinBounds(x, rate) ==
  LET t == alliance[x].terms IN
    /\ t.low > 0 => rate >= t.low
    /\ t.high > 0 => rate <= t.high

MayTrade(x, m) == member[x][m].open /\ member[x][m].active /\ merchant[m].open /\ ~merchant[m].paused

-----------------------------------------------------------------------------
(* Faulty variants: what a slip in one handler would look like.             *)

SetAllianceParamsAnyFee(x, t) ==
  /\ alliance[x].open
  /\ t.high = 0 \/ t.low <= t.high
  /\ alliance' = [alliance EXCEPT ![x].terms = t]
  /\ UNCHANGED <<accounts, member, inflow, day>>

LeaveAllianceUncounted(x, m) ==
  /\ merchant[m].open /\ member[x][m].open
  /\ member' = [member EXCEPT ![x][m] = NoMember]
  /\ merchant' = [merchant EXCEPT ![m].joined = NoAlliance]
  /\ inflow' = [inflow EXCEPT ![x][m] = 0]
  /\ UNCHANGED <<halted, treasuries, supply, balance, reserve, escrow, alliance, day>>

-----------------------------------------------------------------------------
(* The alliance and its authority *)

AllianceOnly == UNCHANGED <<accounts, member, inflow, day>>

CreateAlliance(x) ==
  /\ ~halted
  /\ ~alliance[x].open
  /\ alliance' = [alliance EXCEPT ![x] = NewAlliance]
  /\ AllianceOnly

TransferAllianceAuthority(x, k) ==
  /\ alliance[x].open
  /\ alliance' = [alliance EXCEPT ![x].pending = k]
  /\ AllianceOnly

AcceptAllianceAuthority(x) ==
  /\ alliance[x].open /\ alliance[x].pending # NoKey
  /\ alliance' = [alliance EXCEPT ![x].authority = alliance[x].pending, ![x].pending = NoKey]
  /\ AllianceOnly

SetAlliancePaused(x, on) ==
  /\ alliance[x].open
  /\ alliance' = [alliance EXCEPT ![x].paused = on]
  /\ AllianceOnly

(* Rates agreed earlier are not looked at again.                            *)
SetAllianceParams(x, t) ==
  /\ alliance[x].open
  /\ t.fee <= MaxFee
  /\ t.high = 0 \/ t.low <= t.high
  /\ alliance' = [alliance EXCEPT ![x].terms = t]
  /\ AllianceOnly

-----------------------------------------------------------------------------
(* Membership *)

JoinAlliance(x, m, rate, budget) ==
  /\ ~halted
  /\ alliance[x].open /\ merchant[m].open
  /\ ~member[x][m].open
  /\ rate > 0 /\ WithinBounds(x, rate)
  /\ merchant[m].joined = NoAlliance
  /\ member' = [member EXCEPT ![x][m] =
       [open |-> TRUE, rate |-> rate, budget |-> budget, swapped |-> 0, day |-> 0, active |-> TRUE]]
  /\ alliance' = [alliance EXCEPT ![x].members = @ + 1]
  /\ merchant' = [merchant EXCEPT ![m].joined = x]
  /\ inflow' = [inflow EXCEPT ![x][m] = 0]
  /\ UNCHANGED <<halted, treasuries, supply, balance, reserve, escrow, day>>

(* Any alliance the merchant has a membership of, whichever it joined last; *)
(* the count saturates at zero.                                             *)
LeaveAlliance(x, m) ==
  /\ merchant[m].open /\ member[x][m].open
  /\ member' = [member EXCEPT ![x][m] = NoMember]
  /\ alliance' = [alliance EXCEPT ![x].members = IF @ = 0 THEN 0 ELSE @ - 1]
  /\ merchant' = [merchant EXCEPT ![m].joined = NoAlliance]
  /\ inflow' = [inflow EXCEPT ![x][m] = 0]
  /\ UNCHANGED <<halted, treasuries, supply, balance, reserve, escrow, day>>

MemberOnly == UNCHANGED <<accounts, alliance, inflow, day>>

SetMemberActive(x, m, on) ==
  /\ member[x][m].open
  /\ member' = [member EXCEPT ![x][m].active = on]
  /\ MemberOnly

SetSwapRate(x, m, rate) ==
  /\ merchant[m].open /\ member[x][m].open
  /\ rate > 0 /\ WithinBounds(x, rate)
  /\ member' = [member EXCEPT ![x][m].rate = rate]
  /\ MemberOnly

SetSwapBudget(x, m, budget) ==
  /\ merchant[m].open /\ member[x][m].open
  /\ member' = [member EXCEPT ![x][m].budget = budget]
  /\ MemberOnly

-----------------------------------------------------------------------------
(* swap_points.  The customer's slippage bounds only refuse more.  An       *)
(* account named twice is refused, so a member does not swap with itself.   *)
SwapPoints(x, a, b, c, ui) ==
  /\ ~halted /\ ~alliance[x].paused
  /\ a # b /\ MayTrade(x, a) /\ MayTrade(x, b)
  /\ ui > 0 /\ UiOut(x, a, b, ui) > 0
  /\ \E rawIn \in Raws(a, ui), rawOut \in Raws(b, UiOut(x, a, b, ui)) :
       LET today == InflowToday(member[x][b], rawOut)
       IN /\ rawIn > 0 /\ rawIn <= balance[a][c]
          /\ today <= member[x][b].budget
          /\ supply[b] + rawOut <= MaxSupply
          /\ member' = [member EXCEPT ![x][b].swapped = today, ![x][b].day = day]
          /\ balance' = [balance EXCEPT ![a][c] = @ - rawIn, ![b][c] = @ + rawOut]
          /\ supply' = [supply EXCEPT ![a] = @ - rawIn, ![b] = @ + rawOut]
          /\ inflow' = [inflow EXCEPT ![x][b] = @ + rawOut]
  /\ UNCHANGED <<halted, merchant, treasuries, reserve, escrow, alliance, day>>

NextDay ==
  /\ day < MaxDay
  /\ day' = day + 1
  /\ inflow' = [x \in Alliance |-> [m \in Merchant |-> 0]]
  /\ UNCHANGED <<accounts, alliance, member>>

-----------------------------------------------------------------------------
Init ==
  /\ AccountsInit
  /\ alliance = [x \in Alliance |-> NoAllianceAccount]
  /\ member = [x \in Alliance |-> [m \in Merchant |-> NoMember]]
  /\ day = 1
  /\ inflow = [x \in Alliance |-> [m \in Merchant |-> 0]]

AllianceStep ==
  \E x \in Alliance :
    \/ CreateAlliance(x) \/ AcceptAllianceAuthority(x)
    \/ \E k \in Key : TransferAllianceAuthority(x, k)
    \/ \E on \in Switches : SetAlliancePaused(x, on)
    \/ \E t \in Terms : SetAllianceParams(x, t)

MemberStep ==
  \E x \in Alliance, m \in Merchant :
    \/ \E rate \in Rates, budget \in Budgets : JoinAlliance(x, m, rate, budget)
    \/ LeaveAlliance(x, m)
    \/ \E on \in BOOLEAN : SetMemberActive(x, m, on)
    \/ \E rate \in Rates : SetSwapRate(x, m, rate)
    \/ \E budget \in Budgets : SetSwapBudget(x, m, budget)

SwapStep ==
  \E x \in Alliance, a, b \in Merchant, c \in Customer, ui \in UiAmounts : SwapPoints(x, a, b, c, ui)

Next ==
  \/ AccountsStep /\ UNCHANGED <<koinonVars, day>>
  \/ AllianceStep \/ MemberStep \/ SwapStep \/ NextDay

Spec == Init /\ [][Next]_vars

-----------------------------------------------------------------------------
(* Properties *)

(* MembershipBooks: an alliance counts as many members as there are         *)
(* membership accounts, and the alliance a merchant says it joined has one  *)
(* of its own -- through leaving, closing, registering anew and joining     *)
(* elsewhere while an old membership is still there.                        *)
MembershipBooks ==
  /\ \A x \in Alliance : alliance[x].members = Cardinality({m \in Merchant : member[x][m].open})
  /\ \A m \in Merchant : merchant[m].joined # NoAlliance => member[merchant[m].joined][m].open

(* InflowIsCounted: a membership's lazily reset counter is what was really  *)
(* minted through it today, or a past day's, and then nothing was.          *)
InflowIsCounted ==
  \A x \in Alliance, m \in Merchant :
    LET e == member[x][m] IN
      /\ e.day <= day
      /\ inflow[x][m] = IF e.day = day THEN e.swapped ELSE 0

(* BudgetBoundsInflow: what swaps have really minted on a member today is,  *)
(* when the last of it is minted, within the budget in force, whatever      *)
(* rates, budgets, suspensions and midnights lie between (the "koinon risk  *)
(* boundary" of swap_points).                                               *)
BudgetBoundsInflow ==
  [][\A x \in Alliance, m \in Merchant :
       inflow'[x][m] > inflow[x][m] => inflow'[x][m] <= member[x][m].budget]_vars

(* SwapsCreateNoValue: what a customer gains on one mint is worth, at the   *)
(* rates of an alliance both merchants trade in and at the decay of the     *)
(* day, no more than what they lose on the other, but for the raw point by  *)
(* which each conversion may round: SECURITY_AUDIT.md calls the swap        *)
(* value-conserving, and the rounding (its I-3) a sub-cent wobble.          *)
SwapsCreateNoValue ==
  [][\A c \in Customer, a, b \in Merchant :
       balance'[a][c] < balance[a][c] /\ balance'[b][c] > balance[b][c] =>
         \E x \in Alliance :
           /\ member[x][a].open /\ member[x][b].open
           /\ (balance'[b][c] - balance[b][c] - 1) * member[x][b].rate * Scale[a][day]
                <= (balance[a][c] - balance'[a][c] + 1) * member[x][a].rate * Scale[b][day]]_vars

(* CoverageLostOnlyByMinting: no withdrawal, closing, registration or swap  *)
(* away leaves a reserve short that was not: only minting on its mint does, *)
(* which is what withdraw_reserve promises.                                 *)
CoverageLostOnlyByMinting ==
  [][\A m \in Merchant : Covered(m) /\ ~Covered(m)' => supply'[m] > supply[m]]_vars

(* NothingIsOrphaned: points are outstanding only at merchants that exist,  *)
(* and the supply is what the holders hold.                                 *)
NothingIsOrphaned ==
  \A m \in Merchant :
    /\ supply[m] > 0 => merchant[m].open
    /\ supply[m] = MapThenSumSet(LAMBDA h : balance[m][h], Holder)

(* OneAllianceAtATime: join_alliance refuses a merchant that "already       *)
(* belongs to an alliance" (error.rs).  A membership outlives close_merchant*)
(* and the merchant registered anew may join another.                       *)
OneAllianceAtATime ==
  \A m \in Merchant : Cardinality({x \in Alliance : member[x][m].open}) <= 1
=============================================================================
