-------------------------- MODULE MerchantAccounts ---------------------------
(***************************************************************************)
(* The accounts a vesta_core merchant opens and closes: the Merchant with  *)
(* its mint and treasury token account, and the reserve that escrows a     *)
(* stablecoin against the points outstanding.  A merchant's address is     *)
(* derived from its owner and an id, so a closed merchant may be registered*)
(* again and meets whatever accounts were left behind.                     *)
(*                                                                         *)
(* How points are earned and redeemed is the subject of MerchantPoints;    *)
(* here they are only minted and burned.  Signers are left out: every      *)
(* instruction below but a holder's burn is signed by the merchant's owner.*)
(***************************************************************************)
EXTENDS Integers, FiniteSetsExt

CONSTANTS
  Merchant,      \* addresses: an owner and an id each
  Customer,
  Treasury,      \* the merchant's own token account, as a holder of points
  Alliance,      \* addresses of alliances (module Koinon)
  NoAlliance,    \* None
  Closers,       \* merchants that may be closed
  Backed,        \* merchants that may open a reserve
  Moving,        \* merchants whose points may be transferred
  ReserveTerms,  \* open_reserve arguments in play, invalid ones included
  Unit,          \* 10_000 bps
  Switches,      \* positions the pause switches are moved to
  MaxSupply,     \* bound: raw points of one mint
  MaxEscrow      \* bound: stablecoin in one escrow

ASSUME AccountsAssumption ==
  /\ NoAlliance \notin Alliance
  /\ IsFiniteSet(Customer) /\ Treasury \notin Customer
  /\ {Closers, Backed, Moving} \subseteq SUBSET Merchant
  /\ ReserveTerms \subseteq [value : Nat, ratio : Nat]
  /\ Unit \in Nat \ {0} /\ Switches \subseteq BOOLEAN
  /\ MaxSupply \in Nat /\ MaxEscrow \in Nat

VARIABLES
  halted,    \* Config.paused
  merchant,  \* Merchant by address (open: the account exists)
  treasuries,\* merchants whose treasury token account exists
  supply,    \* raw supply of a merchant's mint
  balance,   \* raw points by merchant and holder
  reserve,   \* MerchantReserve by merchant (open: the account exists)
  escrow     \* stablecoin in the reserve's token account

accounts == <<halted, merchant, treasuries, supply, balance, reserve, escrow>>

Holder == Customer \cup {Treasury}

NoMerchant == [open |-> FALSE, paused |-> FALSE, joined |-> NoAlliance]
NewMerchant == [open |-> TRUE, paused |-> FALSE, joined |-> NoAlliance]
NoReserve == [open |-> FALSE, value |-> 0, ratio |-> 0]

AccountsTypeOK ==
  /\ halted \in BOOLEAN
  /\ merchant \in [Merchant -> [open : BOOLEAN, paused : BOOLEAN,
                                joined : Alliance \cup {NoAlliance}]]
  /\ treasuries \subseteq Merchant
  /\ supply \in [Merchant -> Int]
  /\ balance \in [Merchant -> [Holder -> Nat]]
  /\ reserve \in [Merchant -> [open : BOOLEAN, value : Nat, ratio : Nat]]
  /\ escrow \in [Merchant -> Nat]

-----------------------------------------------------------------------------
(* required_reserve: the stablecoin that backs the supply s, rounded down.  *)
RequiredReserve(m, s) == (s * reserve[m].value * reserve[m].ratio) \div Unit

(* A faulty variant: what a slip in the next definition would look like.    *)
WithdrawReserveStale(m, n) ==
  /\ merchant[m].open /\ reserve[m].open
  /\ n > 0 /\ n <= escrow[m]
  /\ escrow[m] >= RequiredReserve(m, supply[m])
  /\ escrow' = [escrow EXCEPT ![m] = @ - n]
  /\ UNCHANGED <<halted, merchant, treasuries, supply, balance, reserve>>

(* A faulty variant: what a slip in the next definition would look like.    *)
CloseMerchantUnpaid(m) ==
  /\ merchant[m].open
  /\ supply[m] <= 1
  /\ merchant' = [merchant EXCEPT ![m] = NoMerchant]
  /\ UNCHANGED <<halted, treasuries, supply, balance, reserve, escrow>>

-----------------------------------------------------------------------------
(* Registration *)

(* The treasury token account is made with `create`, which an account that  *)
(* is already there refuses; the mint at the same address starts anew.      *)
RegisterMerchant(m) ==
  /\ ~halted
  /\ ~merchant[m].open
  /\ m \notin treasuries
  /\ merchant' = [merchant EXCEPT ![m] = NewMerchant]
  /\ treasuries' = treasuries \cup {m}
  /\ supply' = [supply EXCEPT ![m] = 0]
  /\ UNCHANGED <<halted, balance, reserve, escrow>>

(* Closes the mint and the merchant.  The reserve, alliance memberships and *)
(* the treasury's token account stay.                                       *)
CloseMerchant(m) ==
  /\ merchant[m].open
  /\ supply[m] = 0
  /\ merchant' = [merchant EXCEPT ![m] = NoMerchant]
  /\ UNCHANGED <<halted, treasuries, supply, balance, reserve, escrow>>

(* Token-2022: the owner closes the empty treasury token account.           *)
CloseTreasury(m) ==
  /\ m \in treasuries /\ balance[m][Treasury] = 0
  /\ treasuries' = treasuries \ {m}
  /\ UNCHANGED <<halted, merchant, supply, balance, reserve, escrow>>

SetMerchantPaused(m, on) ==
  /\ merchant[m].open
  /\ merchant' = [merchant EXCEPT ![m].paused = on]
  /\ UNCHANGED <<halted, treasuries, supply, balance, reserve, escrow>>

SetPaused(on) ==
  /\ halted' = on
  /\ UNCHANGED <<merchant, treasuries, supply, balance, reserve, escrow>>

-----------------------------------------------------------------------------
(* Points, as the accounts above see them *)

(* An earn: mint_to at the end of earn_points and earn_points_campaign.     *)
Issue(m, c, n) ==
  /\ ~halted /\ merchant[m].open /\ ~merchant[m].paused
  /\ n > 0 /\ supply[m] + n <= MaxSupply
  /\ supply' = [supply EXCEPT ![m] = @ + n]
  /\ balance' = [balance EXCEPT ![m][c] = @ + n]
  /\ UNCHANGED <<halted, merchant, treasuries, reserve, escrow>>

(* A redemption, or a holder's own burn, which asks nobody.                 *)
Retire(m, h, n) ==
  /\ n > 0 /\ n <= balance[m][h]
  /\ supply' = [supply EXCEPT ![m] = @ - n]
  /\ balance' = [balance EXCEPT ![m][h] = @ - n]
  /\ UNCHANGED <<halted, merchant, treasuries, reserve, escrow>>

(* A gift, a payment to the treasury or a clawback: whatever the transfer   *)
(* guard lets through (module TransferGuard).                               *)
Transfer(m, h, g, n) ==
  /\ h # g /\ n > 0 /\ n <= balance[m][h]
  /\ g = Treasury => m \in treasuries
  /\ balance' = [balance EXCEPT ![m][h] = @ - n, ![m][g] = @ + n]
  /\ UNCHANGED <<halted, merchant, treasuries, supply, reserve, escrow>>

-----------------------------------------------------------------------------
(* The reserve: opened once, never closed, its terms never changed *)

OpenReserve(m, t) ==
  /\ merchant[m].open
  /\ ~reserve[m].open
  /\ t.value > 0 /\ t.ratio > 0
  /\ reserve' = [reserve EXCEPT ![m] = [open |-> TRUE, value |-> t.value, ratio |-> t.ratio]]
  /\ UNCHANGED <<halted, merchant, treasuries, supply, balance, escrow>>

FundReserve(m, n) ==
  /\ merchant[m].open /\ reserve[m].open
  /\ n > 0 /\ escrow[m] + n <= MaxEscrow
  /\ escrow' = [escrow EXCEPT ![m] = @ + n]
  /\ UNCHANGED <<halted, merchant, treasuries, supply, balance, reserve>>

(* The transfer first, then the check on what it leaves.                    *)
WithdrawReserve(m, n) ==
  /\ merchant[m].open /\ reserve[m].open
  /\ n > 0 /\ n <= escrow[m]
  /\ escrow' = [escrow EXCEPT ![m] = @ - n]
  /\ escrow'[m] >= RequiredReserve(m, supply[m])
  /\ UNCHANGED <<halted, merchant, treasuries, supply, balance, reserve>>

-----------------------------------------------------------------------------
AccountsInit ==
  /\ halted = FALSE
  /\ merchant = [m \in Merchant |-> NoMerchant]
  /\ treasuries = {}
  /\ supply = [m \in Merchant |-> 0]
  /\ balance = [m \in Merchant |-> [h \in Holder |-> 0]]
  /\ reserve = [m \in Merchant |-> NoReserve]
  /\ escrow = [m \in Merchant |-> 0]

(* Where registration leaves merchants: no points, an empty treasury.       *)
JustRegistered ==
  /\ halted = FALSE
  /\ merchant = [m \in Merchant |-> NewMerchant]
  /\ treasuries = Merchant
  /\ supply = [m \in Merchant |-> 0]
  /\ balance = [m \in Merchant |-> [h \in Holder |-> 0]]
  /\ reserve = [m \in Merchant |-> NoReserve]
  /\ escrow = [m \in Merchant |-> 0]

RegistrationStep ==
  \/ \E m \in Merchant :
       RegisterMerchant(m) \/ \E on \in Switches : SetMerchantPaused(m, on)
  \/ \E m \in Closers : CloseMerchant(m) \/ CloseTreasury(m)
  \/ \E on \in Switches : SetPaused(on)

PointStep ==
  \E m \in Merchant, n \in 1 .. MaxSupply :
    \/ \E c \in Customer : Issue(m, c, n)
    \/ \E h \in Holder : Retire(m, h, n)
    \/ m \in Moving /\ \E h, g \in Holder : Transfer(m, h, g, n)

ReserveStep ==
  \E m \in Backed :
    \/ \E t \in ReserveTerms : OpenReserve(m, t)
    \/ \E n \in 1 .. MaxEscrow : FundReserve(m, n) \/ WithdrawReserve(m, n)

AccountsStep == RegistrationStep \/ PointStep \/ ReserveStep

-----------------------------------------------------------------------------
(* Covered: the escrow backs every point outstanding.                       *)
Covered(m) == reserve[m].open /\ escrow[m] >= RequiredReserve(m, supply[m])
=============================================================================
