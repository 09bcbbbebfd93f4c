------------------------------ MODULE MCItems -------------------------------
(***************************************************************************)
(* Two orders whose rewards overlap: a coin stacked by count, with and     *)
(* without an expiry, and a pass stacked by time.                          *)
(***************************************************************************)
EXTENDS ItemsProperties, TLC

CONSTANTS w1, w2, coin, pass

Of(i, n, seconds, until) ==
    [item |-> i, count |-> n, seconds |-> seconds, until |-> until]

MCGiven ==
    [o1 |-> <<Of(coin, 2, 0, 0), Of(pass, 1, 2, 0)>>,
     o2 |-> <<Of(pass, 2, 1, 0), Of(coin, 1, 0, 2)>>,
     a1 |-> <<Of(coin, 1, 0, 2)>>]

MCTaken ==
    [o1 |-> <<Of(coin, 2, 0, 0), Of(pass, 1, 2, 0)>>,
     o2 |-> <<Of(coin, 0, 0, 0), Of(coin, 2, 0, 2)>>]

\* The pass may be taken out of the configuration.
MCCatalogues == {{coin}, {coin, pass}}

WorkerSymmetry == Permutations(Workers)

=============================================================================
