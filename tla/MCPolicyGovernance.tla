------------------------- MODULE MCPolicyGovernance -------------------------
(***************************************************************************)
(* Small instances of PolicyGovernance for TLC: three keys (a merchant     *)
(* owner and two officers), and policy documents that are coherent or not. *)
(***************************************************************************)
EXTENDS PolicyGovernance

CONSTANTS owner, officer1, officer2, aegis

Open == [flags |-> {}, dailyGiftCap |-> 5, perTxCap |-> 0, maxWalletBalance |-> 0,
         transfersPerDay |-> 0, cooldownSecs |-> 0, attestationSchema |-> 0,
         capabilityTtl |-> 0, policy |-> NoKey]

Capped == [Open EXCEPT !.perTxCap = 2]

(* per_tx_cap above daily_gift_cap: proposable, never installable.          *)
Incoherent == [Open EXCEPT !.perTxCap = 9]

ThreeDocs == {Open, Capped, Incoherent}

Separated == [r \in Role |-> CASE r \in {"RoleAdmin", "Activator"} -> owner
                               [] r \in {"Author", "PauseOperator"} -> officer1
                               [] r \in {"Approver", "Reporter"} -> officer2]

(* One officer both writes and approves; nobody may activate.               *)
Merged == [Separated EXCEPT !["Approver"] = officer1, !["Activator"] = NoKey]

NoAdmin == [Separated EXCEPT !["RoleAdmin"] = NoKey]

Tables == {Separated, Merged, NoAdmin}

Changes == {<<"RoleAdmin", officer1>>, <<"RoleAdmin", NoKey>>, <<"Approver", officer1>>,
            <<"Author", NoKey>>}
=============================================================================
