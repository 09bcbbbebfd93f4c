----------------------------- MODULE MCAccounts -----------------------------
(***************************************************************************)
(* Two requests at a time, two accounts, and three identities of which two *)
(* are of one kind.                                                        *)
(***************************************************************************)
EXTENDS AccountsProperties

CONSTANTS x1, x2, x3

MCIdents == {x1, x2, x3}

MCKind == [x \in MCIdents |-> IF x = x3 THEN "wechat" ELSE "guest"]

=============================================================================
