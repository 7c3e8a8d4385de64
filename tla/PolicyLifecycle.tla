-------------------------- MODULE PolicyLifecycle ---------------------------
(***************************************************************************)
(* What a governed transfer guard promises about its rules, without the    *)
(* accounts, roles and clocks that implement it.  Until governance is      *)
(* adopted the rules may be retuned at will.  From then on they only ever  *)
(* switch among approved policies, approvals are never withdrawn, and once *)
(* frozen nothing changes again.  The epoch grows with every switch.       *)
(***************************************************************************)
EXTENDS Integers

CONSTANTS Docs, EpochMax

VARIABLES live, epoch, adopted, approved, frozen

lifecycleVars == <<live, epoch, adopted, approved, frozen>>

NextEpoch(e) == IF e < EpochMax THEN e + 1 ELSE e

Init ==
  /\ live \in Docs
  /\ epoch = 0
  /\ adopted = FALSE
  /\ approved = {}
  /\ frozen = FALSE

Install(d) == live' = d /\ epoch' = NextEpoch(epoch)

Retune ==
  /\ ~adopted
  /\ \E d \in Docs : Install(d)
  /\ UNCHANGED <<adopted, approved, frozen>>

Adopt ==
  /\ ~adopted
  /\ adopted' = TRUE
  /\ approved' = {live}
  /\ UNCHANGED <<live, epoch, frozen>>

Approve ==
  /\ adopted /\ ~frozen
  /\ \E d \in Docs : approved' = approved \cup {d}
  /\ UNCHANGED <<live, epoch, adopted, frozen>>

Switch ==
  /\ adopted /\ ~frozen
  /\ \E d \in approved : Install(d)
  /\ UNCHANGED <<adopted, approved, frozen>>

Freeze ==
  /\ adopted
  /\ frozen' = TRUE
  /\ UNCHANGED <<live, epoch, adopted, approved>>

Next == Retune \/ Adopt \/ Approve \/ Switch \/ Freeze

Spec == Init /\ [][Next]_lifecycleVars
=============================================================================
