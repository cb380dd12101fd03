----------------------------- MODULE TokenLedger -----------------------------
(***************************************************************************)
(* What x/tokenfactory promises, with accounts only: no address strings,   *)
(* no stores, no messages and no module account in the middle.  A denom is *)
(* unissued, or has one owner, or has been given up for good.  Every step  *)
(* is taken by one actor.  An actor moves its own coins; the owner of a    *)
(* denom issues, retires and moves its coins and hands it over.            *)
(***************************************************************************)
EXTENDS Integers

CONSTANTS
  Accounts,
  Factory,   \* denoms that can be owned
  Native,    \* denoms that cannot
  Pool,      \* the account creation fees go to
  Prices,    \* what creating a denom may cost, in native coins
  Unissued, Nobody

VARIABLES owner, held, total, actor

assets == <<owner, held, total>>
lvars  == <<owner, held, total, actor>>

Denoms == Factory \cup Native

LInit ==
  /\ \A d \in Native : owner[d] = Nobody
  /\ \A d \in Factory : owner[d] = Unissued => total[d] = 0
  /\ \A d \in Denoms, a \in Accounts : held[d][a] \in 0 .. total[d]

\* n coins of one purse change hands.
Moved(purse, from, to, n) ==
  [a \in Accounts |-> purse[a] - (IF a = from THEN n ELSE 0) + (IF a = to THEN n ELSE 0)]

Create(u, d) ==
  /\ owner[d] = Unissued /\ total[d] = 0
  /\ owner' = [owner EXCEPT ![d] = u]
  /\ \E price \in Prices :
       held' = [e \in Denoms |->
                  IF e \in Native THEN Moved(held[e], u, Pool, price[e]) ELSE held[e]]
  /\ UNCHANGED total

Issue(d, to) ==
  \E n \in 1 .. total'[d] :
    /\ held' = [held EXCEPT ![d][to] = @ + n]
    /\ total' = [total EXCEPT ![d] = @ + n]
    /\ UNCHANGED owner

Retire(d, from) ==
  \E n \in 1 .. held[d][from] :
    /\ held' = [held EXCEPT ![d][from] = @ - n]
    /\ total' = [total EXCEPT ![d] = @ - n]
    /\ UNCHANGED owner

Move(d, from, to) ==
  \E n \in 0 .. held[d][from] :
    /\ held' = [held EXCEPT ![d] = Moved(@, from, to, n)]
    /\ UNCHANGED <<owner, total>>

HandOver(d, new) ==
  /\ owner' = [owner EXCEPT ![d] = new]
  /\ UNCHANGED <<held, total>>

\* What an actor may do with coins it holds, and with a denom it owns.
OwnCoins(u, d)  == \E to \in Accounts : Move(d, u, to)
OwnDenom(u, d)  ==
  /\ owner[d] = u
  /\ \E a \in Accounts : \/ Issue(d, a)
                         \/ Retire(d, a)
                         \/ HandOver(d, a)
                         \/ \E to \in Accounts : Move(d, a, to)

LNext ==
  \/ UNCHANGED assets
  \/ \E u \in Accounts :
       /\ actor' = u
       /\ \/ \E d \in Factory : Create(u, d) \/ OwnDenom(u, d)
          \/ \E d \in Denoms : OwnCoins(u, d)

LSpec == LInit /\ [][LNext]_lvars
==============================================================================
