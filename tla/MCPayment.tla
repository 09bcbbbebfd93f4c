----------------------------- MODULE MCPayment ------------------------------
(* Instances of the payment service for TLC. *)
EXTENDS PaymentProperties, TLC

\* Client goroutines are interchangeable; used where only invariants are checked.
ClientSymmetry == Permutations(Clients)

\* The instance for the liveness properties: one of the products is on sale,
\* the others Google still sells; the configuration changes and a failure
\* happens, but not both in one behaviour.
OnSale == CHOOSE p \in Products : TRUE

LiveInit == Init /\ \A p \in Products : (config[p] # NoReward) = (p = OnSale)

LiveSpec == LiveInit /\ [][Next]_vars /\ Fairness

FailureOrReload == faults' = 0 \/ reloads' = 0

=============================================================================
