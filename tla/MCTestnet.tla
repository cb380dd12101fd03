----------------------------- MODULE MCTestnet -----------------------------
(***************************************************************************)
(* Testnets of up to three nodes, set up to twice in one directory, whose  *)
(* addresses pass the end of a byte, and accounts added with and without   *)
(* vesting.                                                                *)
(***************************************************************************)
EXTENDS Testnet

Of(test, staking) == [d \in CoinDenoms |-> IF d = Stake THEN staking ELSE test]

MCNodeCoins == Of(2, 2)
MCNewcomers == {<<0, 0>>}
MCPurses    == {Of(0, 0), Of(0, 1), Of(1, 0)}
=============================================================================
