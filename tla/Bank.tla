-------------------------------- MODULE Bank --------------------------------
(***************************************************************************)
(* The bank keeper the module is given (types.BankKeeper), as far as the   *)
(* module relies on it.  A purse is the holdings of ONE denom: a function  *)
(* from accounts to amounts.  Amounts are sdk.Int values, which panic      *)
(* above MaxInt; a panic and an error both fail the message, so each       *)
(* operation has one condition under which it succeeds.                    *)
(***************************************************************************)
EXTENDS Integers

CONSTANT MaxInt   \* the largest sdk.Int, 2^256 - 1 in the SDK

ASSUME MaxIntAssumption == MaxInt \in Nat

Amount == 0 .. MaxInt

\* SendCoins: subtract from the sender, then add to the recipient.
Debit(purse, a, n)  == [purse EXCEPT ![a] = @ - n]
Credit(purse, a, n) == [purse EXCEPT ![a] = @ + n]

Send(purse, from, to, n) == Credit(Debit(purse, from, n), to, n)

CanSend(purse, from, to, n) ==
  /\ purse[from] >= n
  /\ Debit(purse, from, n)[to] + n <= MaxInt

\* MintCoins: coins appear in the minting module's account and the supply.
CanMintCoins(purse, total, module, n) ==
  /\ purse[module] + n <= MaxInt
  /\ total + n <= MaxInt

\* BurnCoins: coins leave the burning module's account and the supply.
CanBurnCoins(purse, total, module, n) ==
  /\ purse[module] >= n
  /\ total >= n

=============================================================================
