---------------------------- MODULE TestnetProofs ----------------------------
(***************************************************************************)
(* The testnet command, for any numbers of nodes and runs, and any         *)
(* accounts added in between: every genesis can start a bank, the nodes of *)
(* a testnet share one, and know one another.  What an earlier run left is *)
(* told from what this one wrote by its address, which names the run:      *)
(* genutil asks that the addresses of all gentxs be funded, and a genesis  *)
(* funds those of the run that wrote it.                                   *)
(***************************************************************************)
EXTENDS Testnet, RecursionProofs

-----------------------------------------------------------------------------
(* Arithmetic.                                                              *)

\* The loops go through the nodes and start over.
LEMMA NextIndex ==
  ASSUME NEW m \in Nat \ {0}, NEW j \in 0 .. m - 1
  PROVE  (j + 1) % m = IF j + 1 < m THEN j + 1 ELSE 0
OBVIOUS

\* The last byte of an address, which wraps once.
LEMMA WrapsOnce ==
  ASSUME NEW m \in Nat \ {0}, NEW a \in 0 .. m + m - 1
  PROVE  a % m = IF a < m THEN a ELSE a - m
OBVIOUS

\* Nodes have addresses of their own while there are no more than bytes.
LEMMA AddressesDiffer ==
  ASSUME NEW ip \in StartingIPs
  PROVE  \A k, j \in 0 .. Octets - 1 : calculateIP(ip, k) = calculateIP(ip, j) => k = j
<1>1. Octets \in Nat \ {0} /\ ip \in 0 .. Octets - 1
  BY TestnetAssumption
<1>2. ASSUME NEW k \in 0 .. Octets - 1
      PROVE  calculateIP(ip, k) = IF ip + k < Octets THEN ip + k ELSE ip + k - Octets
  <2> DEFINE a == ip + k
  <2>1. a \in 0 .. Octets + Octets - 1
    BY <1>1
  <2> HIDE DEF a
  <2>2. a % Octets = IF a < Octets THEN a ELSE a - Octets
    BY <1>1, <2>1, WrapsOnce
  <2> QED
    BY <1>1, <2>2 DEF a, calculateIP
<1>3. ASSUME NEW k \in 0 .. Octets - 1, NEW j \in 0 .. Octets - 1,
             calculateIP(ip, k) = calculateIP(ip, j)
      PROVE  k = j
  BY <1>1, <1>2, <1>3
<1> QED
  BY <1>3

\* What the flag may be.
Flags == StartingIPs \cup {None}

\* Every node gets an address.
LEMMA AddressType ==
  ASSUME NEW from \in Flags, NEW k \in Nat
  PROVE  getIP(k, from) \in Nat
<1>1. CASE from = None
  BY <1>1, TestnetAssumption DEF getIP
<1>2. CASE from # None
  <2>1. from \in Nat /\ Octets \in Nat \ {0}
    BY <1>2, TestnetAssumption DEF Flags
  <2>2. calculateIP(from, k) \in Nat
    BY <2>1 DEF calculateIP
  <2> QED
    BY <1>2, <2>2 DEF getIP
<1> QED
  BY <1>1, <1>2

-----------------------------------------------------------------------------
(* Genesis states.                                                          *)

Balances == [addr : Addrs, coins : Coins]
Made     == [id : Keys, addr : Keys]

\* The coins of a finite set of balances.
LEMMA TotalIs ==
  ASSUME NEW B \in SUBSET Balances, IsFiniteSet(B), NEW d \in CoinDenoms
  PROVE  /\ [b \in B |-> b.coins[d]] \in [B -> Nat]
         /\ Total(B)[d] = SumFunctionOnSet([b \in B |-> b.coins[d]], B)
         /\ Total(B)[d] \in Nat
<1> DEFINE f == [b \in B |-> b.coins[d]]
<1>1. f \in [B -> Nat]
  BY DEF Balances, Coins
<1>2. Total(B)[d] = SumFunctionOnSet(f, B)
  <2>1. DOMAIN f = B
    OBVIOUS
  <2>2. Total(B)[d] = SumFunction(f)
    BY DEF Total
  <2> HIDE DEF f
  <2> QED
    BY <2>1, <2>2 DEF SumFunction
<1> HIDE DEF f
<1>3. SumFunctionOnSet(f, B) \in Nat
  BY <1>1, SumBounds
<1> QED
  BY <1>1, <1>2, <1>3 DEF f

\* So they are coins again.
LEMMA TotalType ==
  ASSUME NEW B \in SUBSET Balances, IsFiniteSet(B)
  PROVE  Total(B) \in Coins
<1>1. Total(B) = [d \in CoinDenoms |-> Total(B)[d]]
  BY DEF Total
<1>2. \A d \in CoinDenoms : Total(B)[d] \in Nat
  BY TotalIs
<1> QED
  BY <1>1, <1>2 DEF Coins

\* One more balance.
LEMMA TotalAdds ==
  ASSUME NEW B \in SUBSET Balances, IsFiniteSet(B), NEW b \in Balances \ B
  PROVE  Total(B \cup {b}) = Plus(Total(B), b.coins)
<1> DEFINE C == B \cup {b}
<1>1. C \in SUBSET Balances /\ IsFiniteSet(C) /\ b \in C /\ C \ {b} = B
  BY FS_AddElement
<1> HIDE DEF C
<1>2. ASSUME NEW d \in CoinDenoms
      PROVE  Total(C)[d] = Total(B)[d] + b.coins[d]
  <2> DEFINE f == [x \in B |-> x.coins[d]]
             g == [x \in C |-> x.coins[d]]
  <2>1. Total(B)[d] = SumFunctionOnSet(f, B) /\ Total(B)[d] \in Nat
    BY TotalIs
  <2>2. Total(C)[d] = SumFunctionOnSet(g, C) /\ g \in [C -> Nat]
    BY <1>1, TotalIs
  <2>3. g[b] = b.coins[d] /\ \A x \in B : g[x] = f[x]
    BY <1>1
  <2>4. \A x \in C : g[x] \in Int
    BY <2>2
  <2>5. g[b] \in Int
    BY <1>1, <2>4
  <2> HIDE DEF f, g
  <2>6. SumFunctionOnSet(g, C) = g[b] + SumFunctionOnSet(g, C \ {b})
    BY <1>1, <2>4, SumRemove
  <2>7. SumFunctionOnSet(g, B) = SumFunctionOnSet(f, B)
    BY <2>3, SumSame
  <2> QED
    BY <1>1, <2>1, <2>2, <2>3, <2>5, <2>6, <2>7
<1>3. Total(C) = [d \in CoinDenoms |-> Total(C)[d]]
  BY DEF Total
<1>4. Total(C) = Plus(Total(B), b.coins)
  BY <1>2, <1>3 DEF Plus
<1> QED
  BY <1>4 DEF C

\* The accounts and balances of the nodes, one by one.
LEMMA InitialFields ==
  ASSUME NEW nodes \in Seq(Made)
  PROVE  LET g == InitialGenesis(nodes) IN
         /\ g.accounts = {BaseAccount(nodes[k].addr) : k \in 1 .. Len(nodes)}
         /\ g.balances = {[addr |-> nodes[k].addr, coins |-> NodeCoins] : k \in 1 .. Len(nodes)}
         /\ g.supply = Total(g.balances)
         /\ g.gentxs = {}
         /\ IsFiniteSet(g.balances)
         /\ g \in GenesisStates
<1> DEFINE g == InitialGenesis(nodes)
           B == {[addr |-> nodes[k].addr, coins |-> NodeCoins] : k \in 1 .. Len(nodes)}
           A == {BaseAccount(nodes[k].addr) : k \in 1 .. Len(nodes)}
<1>1. Range(nodes) = {nodes[k] : k \in 1 .. Len(nodes)}
  BY DEF Range
<1>2. /\ {BaseAccount(node.addr) : node \in Range(nodes)} = A
      /\ {[addr |-> node.addr, coins |-> NodeCoins] : node \in Range(nodes)} = B
  BY <1>1
<1>3. g = [accounts |-> A, balances |-> B, supply |-> Total(B), gentxs |-> {}]
  <2> HIDE DEF A, B
  <2> QED
    BY <1>2 DEF InitialGenesis
<1>4. IsFiniteSet(B)
  <2> DEFINE I == 1 .. Len(nodes)
             f == [k \in I |-> [addr |-> nodes[k].addr, coins |-> NodeCoins]]
  <2>1. IsFiniteSet(I)
    BY FS_Interval
  <2>2. f \in Surjection(I, B)
    BY DEF Surjection
  <2> HIDE DEF I, f, B
  <2> QED
    BY <2>1, <2>2, FS_Surjection
<1>5. ASSUME NEW k \in 1 .. Len(nodes) PROVE nodes[k].addr \in Addrs
  <2>1. nodes[k] \in Made
    OBVIOUS
  <2> QED
    BY <2>1 DEF Made, Addrs
<1>6. B \in SUBSET Balances
  BY <1>5, TestnetAssumption DEF Balances
<1>7. A \in SUBSET [addr : Addrs, vesting : Coins, start : Nat, end : Nat]
  BY <1>5 DEF BaseAccount, NoCoins, Coins
<1> HIDE DEF A, B
<1>8. Total(B) \in Coins
  BY <1>4, <1>6, TotalType
<1>9. g \in GenesisStates
  BY <1>3, <1>6, <1>7, <1>8 DEF GenesisStates, Balances
<1> HIDE DEF g
<1>10. g.accounts = A /\ g.balances = B /\ g.supply = Total(B) /\ g.gentxs = {}
  BY <1>3
<1> QED
  BY <1>4, <1>9, <1>10 DEF A, B, g

\* The genesis that initGenFiles writes is sound, and funds its own nodes only.
LEMMA InitialSound ==
  ASSUME NEW nodes \in Seq(Made)
  PROVE  /\ Sound(InitialGenesis(nodes))
         /\ \A tx : Funded(tx, InitialGenesis(nodes))
                      <=> \E k \in 1 .. Len(nodes) : tx.addr = nodes[k].addr
<1> DEFINE g == InitialGenesis(nodes)
<1>1. /\ g.accounts = {BaseAccount(nodes[k].addr) : k \in 1 .. Len(nodes)}
      /\ g.balances = {[addr |-> nodes[k].addr, coins |-> NodeCoins] : k \in 1 .. Len(nodes)}
      /\ g.supply = Total(g.balances)
      /\ g.gentxs = {}
  BY InitialFields
<1> HIDE DEF g
<1>2. NodeCoins \in Coins /\ NodeCoins[Stake] >= Delegation
  BY TestnetAssumption DEF Coins
<1>3. ASSUME NEW a \in g.accounts
      PROVE  \E k \in 1 .. Len(nodes) : a = BaseAccount(nodes[k].addr) /\ a.addr = nodes[k].addr
  BY <1>1 DEF BaseAccount
<1>4. ASSUME NEW a \in g.accounts, NEW b \in g.accounts, a.addr = b.addr PROVE a = b
  BY <1>3, <1>4
<1>5. {a.addr : a \in g.accounts} = {b.addr : b \in g.balances}
  <2>1. ASSUME NEW k \in 1 .. Len(nodes)
        PROVE  /\ nodes[k].addr \in {a.addr : a \in g.accounts}
               /\ nodes[k].addr \in {b.addr : b \in g.balances}
    <3>1. /\ BaseAccount(nodes[k].addr) \in g.accounts
          /\ BaseAccount(nodes[k].addr).addr = nodes[k].addr
      BY <1>1 DEF BaseAccount
    <3>2. /\ [addr |-> nodes[k].addr, coins |-> NodeCoins] \in g.balances
          /\ [addr |-> nodes[k].addr, coins |-> NodeCoins].addr = nodes[k].addr
      BY <1>1
    <3>3. nodes[k].addr \in {a.addr : a \in g.accounts}
      BY <3>1
    <3>4. nodes[k].addr \in {b.addr : b \in g.balances}
      BY <3>2
    <3> QED
      BY <3>3, <3>4
  <2>2. ASSUME NEW a \in g.accounts PROVE a.addr \in {b.addr : b \in g.balances}
    BY <1>3, <2>1
  <2>3. ASSUME NEW b \in g.balances PROVE b.addr \in {a.addr : a \in g.accounts}
    <3>1. PICK k \in 1 .. Len(nodes) : b = [addr |-> nodes[k].addr, coins |-> NodeCoins]
      BY <1>1
    <3>2. b.addr = nodes[k].addr
      BY <3>1
    <3> QED
      BY <2>1, <3>2
  <2> QED
    BY <2>2, <2>3
<1>6. ASSUME NEW a \in g.accounts, NEW b \in g.balances, NEW d \in CoinDenoms, b.coins[d] > 0
      PROVE  a.vesting[d] <= b.coins[d]
  <2>1. a.vesting[d] = 0
    BY <1>1 DEF BaseAccount, NoCoins
  <2>2. b.coins[d] \in Nat
    BY <1>1, <1>2 DEF Coins
  <2> QED
    BY <2>1, <2>2
<1>7. Sound(g)
  BY <1>1, <1>4, <1>5, <1>6 DEF Sound
<1>8. ASSUME NEW tx
      PROVE  Funded(tx, g) <=> \E k \in 1 .. Len(nodes) : tx.addr = nodes[k].addr
  <2>1. ASSUME NEW k \in 1 .. Len(nodes), tx.addr = nodes[k].addr PROVE Funded(tx, g)
    <3> DEFINE b == [addr |-> nodes[k].addr, coins |-> NodeCoins]
    <3>1. b \in g.balances /\ b.addr = tx.addr /\ b.coins[Stake] >= Delegation
      BY <1>1, <1>2, <2>1
    <3> HIDE DEF b
    <3> QED
      BY <3>1 DEF Funded
  <2>2. ASSUME Funded(tx, g) PROVE \E k \in 1 .. Len(nodes) : tx.addr = nodes[k].addr
    BY <1>1, <2>2 DEF Funded
  <2> QED
    BY <2>1, <2>2
<1> QED
  BY <1>7, <1>8 DEF g

-----------------------------------------------------------------------------
(* What one run of the command makes.                                       *)

\* The gentx of a node.
MadeBy(from, nodes, k) == [addr    |-> nodes[k + 1].addr,
                     moniker |-> k,
                     memo    |-> [id |-> nodes[k + 1].id, ip |-> getIP(k, from)]]

\* Those of a testnet of m nodes, and the genesis that holds them.
AllMade(from, nodes, m) == {MadeBy(from, nodes, k) : k \in 0 .. m - 1}
CanonicalState(from, nodes, m) == [InitialGenesis(nodes) EXCEPT !.gentxs = AllMade(from, nodes, m)]

\* The nodes that node k is told of.
PeersOf(from, nodes, m, k) == {MadeBy(from, nodes, j).memo : j \in (0 .. m - 1) \ {k}}

Memos == [id : Keys, ip : Nat]

\* It is a gentx, with the address and ID of the node.
LEMMA MadeByType ==
  ASSUME NEW from \in Flags, NEW nodes \in Seq(Made), NEW k \in Nodes, k + 1 \in 1 .. Len(nodes)
  PROVE  /\ MadeBy(from, nodes, k) \in GenTxRecords
         /\ MadeBy(from, nodes, k) # None
         /\ MadeBy(from, nodes, k).addr = nodes[k + 1].addr
         /\ MadeBy(from, nodes, k).moniker = k
         /\ MadeBy(from, nodes, k).memo = [id |-> nodes[k + 1].id, ip |-> getIP(k, from)]
         /\ MadeBy(from, nodes, k).memo \in Memos
<1>1. nodes[k + 1] \in Made
  OBVIOUS
<1>2. getIP(k, from) \in Nat
  <2>1. k \in Nat
    BY DEF Nodes
  <2> QED
    BY <2>1, AddressType
<1>3. [id |-> nodes[k + 1].id, ip |-> getIP(k, from)] \in [id : Keys, ip : Nat]
  BY <1>1, <1>2 DEF Made
<1>4. MadeBy(from, nodes, k) \in GenTxRecords
  BY <1>1, <1>3 DEF MadeBy, GenTxRecords, Made
<1>5. MadeBy(from, nodes, k) # None
  BY <1>4, TestnetAssumption
<1> QED
  BY <1>3, <1>4, <1>5 DEF MadeBy, Memos

\* The common genesis is sound.
LEMMA CanonicalSound ==
  ASSUME NEW from \in Flags, NEW m \in 1 .. MaxNodes, NEW nodes \in Seq(Made),
         Len(nodes) = m
  PROVE  LET g == CanonicalState(from, nodes, m) IN
         /\ g \in GenesisStates /\ g # None
         /\ g.balances = InitialGenesis(nodes).balances
         /\ g.gentxs = AllMade(from, nodes, m)
         /\ Sound(g) /\ IsFiniteSet(g.balances)
<1> DEFINE h == InitialGenesis(nodes)
           T == AllMade(from, nodes, m)
           g == [h EXCEPT !.gentxs = T]
<1>1. h \in GenesisStates /\ IsFiniteSet(h.balances)
  BY InitialFields
<1>2. Sound(h) /\ \A tx : Funded(tx, h) <=> \E k \in 1 .. Len(nodes) : tx.addr = nodes[k].addr
  BY InitialSound
<1>3. ASSUME NEW tx \in T PROVE tx \in GenTxRecords /\ Funded(tx, h)
  <2>1. PICK k \in 0 .. m - 1 : tx = MadeBy(from, nodes, k)
    BY DEF AllMade
  <2>2. k \in Nodes /\ k + 1 \in 1 .. Len(nodes)
    BY TestnetAssumption DEF Nodes
  <2>3. tx \in GenTxRecords /\ tx.addr = nodes[k + 1].addr
    BY <2>1, <2>2, MadeByType
  <2> QED
    BY <1>2, <2>2, <2>3
<1> HIDE DEF h, T
<1>4. /\ g.accounts = h.accounts /\ g.balances = h.balances /\ g.supply = h.supply
      /\ g.gentxs = T /\ g \in GenesisStates
  BY <1>1, <1>3 DEF GenesisStates
<1>5. g # None
  BY <1>4, TestnetAssumption
<1> HIDE DEF g
<1>6. \A tx \in g.gentxs : Funded(tx, g)
  BY <1>3, <1>4 DEF Funded
<1>7. Sound(g)
  BY <1>2, <1>4, <1>6 DEF Sound
<1>8. CanonicalState(from, nodes, m) = g
  BY DEF CanonicalState, g, h, T
<1> QED
  BY <1>1, <1>4, <1>5, <1>7, <1>8 DEF h, T

\* An account that AddGenesisAccountCmd lets through keeps a genesis sound.
LEMMA AccountAdded ==
  ASSUME NEW g \in GenesisStates, Sound(g), IsFiniteSet(g.balances),
         NEW addr \in Newcomers, NEW coins \in Purses, NEW vesting \in Purses,
         NEW start \in StartTimes, NEW end \in EndTimes,
         ValidVesting(coins, vesting, start, end),
         \A a \in g.accounts : a.addr # addr,
         NEW account,
         account = IF vesting = NoCoins THEN BaseAccount(addr)
                   ELSE [addr |-> addr, vesting |-> vesting, start |-> start, end |-> end]
  PROVE  LET h == WithAccount(g, account, coins) IN
         h \in GenesisStates /\ Sound(h) /\ IsFiniteSet(h.balances)
<1> DEFINE h == WithAccount(g, account, coins)
           b == [addr |-> account.addr, coins |-> coins]
<1>1. /\ account \in [addr : Addrs, vesting : Coins, start : Nat, end : Nat]
      /\ account.addr = addr /\ account.vesting = vesting
      /\ coins \in Coins /\ vesting \in Coins
  <2>1. coins \in Coins /\ vesting \in Coins /\ start \in Nat /\ end \in Nat /\ addr \in Addrs
    BY TestnetAssumption DEF Addrs
  <2>2. CASE vesting = NoCoins
    <3>1. account = [addr |-> addr, vesting |-> NoCoins, start |-> 0, end |-> 0]
      BY <2>2 DEF BaseAccount
    <3> QED
      BY <2>1, <2>2, <3>1
  <2>3. CASE vesting # NoCoins
    <3>1. account = [addr |-> addr, vesting |-> vesting, start |-> start, end |-> end]
      BY <2>3
    <3> QED
      BY <2>1, <3>1
  <2> QED
    BY <2>2, <2>3
<1>2. b.addr = addr /\ b.coins = coins /\ b \in Balances
  BY <1>1 DEF Balances
<1> HIDE DEF b
<1>3. /\ h.accounts = g.accounts \cup {account} /\ h.balances = g.balances \cup {b}
      /\ h.supply = Plus(g.supply, coins) /\ h.gentxs = g.gentxs
  BY DEF WithAccount, b, GenesisStates
<1>4. g.balances \in SUBSET Balances /\ g.supply \in Coins
  BY DEF GenesisStates, Balances
<1>5. /\ g.supply = Total(g.balances)
      /\ {a.addr : a \in g.accounts} = {x.addr : x \in g.balances}
  BY DEF Sound
<1>6. \A x \in g.balances : x.addr # addr
  <2> SUFFICES ASSUME NEW x \in g.balances, x.addr = addr PROVE FALSE
    OBVIOUS
  <2>1. addr \in {a.addr : a \in g.accounts}
    BY <1>5
  <2> QED
    BY <2>1
<1>7. IsFiniteSet(h.balances)
  <2> HIDE DEF h
  <2> QED
    BY <1>3, FS_AddElement
<1>8. h.supply = Total(h.balances)
  <2>1. b \in Balances \ g.balances
    BY <1>2, <1>6
  <2> DEFINE B == g.balances
  <2>2. B \in SUBSET Balances /\ IsFiniteSet(B) /\ b \in Balances \ B
    BY <1>4, <2>1
  <2> HIDE DEF B
  <2>3. Total(B \cup {b}) = Plus(Total(B), b.coins)
    BY <2>2, TotalAdds
  <2> QED
    BY <1>2, <1>3, <1>5, <2>3 DEF B
<1>9. h.supply \in Coins
  BY <1>1, <1>3, <1>4 DEF Plus, Coins
<1>10. h \in GenesisStates
  <2>1. h = [accounts |-> g.accounts \cup {account}, balances |-> g.balances \cup {b},
             supply |-> Plus(g.supply, coins), gentxs |-> g.gentxs]
    <3>1. h = [g EXCEPT !.accounts = @ \cup {account}, !.balances = @ \cup {b},
                        !.supply = Plus(@, coins)]
      BY DEF WithAccount, b
    <3> HIDE DEF h
    <3> QED
      BY <3>1 DEF GenesisStates
  <2> HIDE DEF h
  <2> QED
    BY <1>1, <1>2, <1>3, <1>9, <2>1 DEF GenesisStates, Balances
<1> HIDE DEF h
<1>11. ASSUME NEW x \in h.accounts, NEW y \in h.accounts, x.addr = y.addr PROVE x = y
  BY <1>1, <1>3, <1>11 DEF Sound
<1>12. {a.addr : a \in h.accounts} = {x.addr : x \in h.balances}
  <2>1. {a.addr : a \in h.accounts} = {a.addr : a \in g.accounts} \cup {addr}
    BY <1>1, <1>3
  <2>2. {x.addr : x \in h.balances} = {x.addr : x \in g.balances} \cup {addr}
    BY <1>2, <1>3
  <2> QED
    BY <1>5, <2>1, <2>2
<1>13. ASSUME NEW tx \in h.gentxs PROVE Funded(tx, h)
  BY <1>3 DEF Sound, Funded
<1>14. ASSUME NEW x \in h.accounts, NEW y \in h.balances, x.addr = y.addr,
              NEW d \in CoinDenoms, y.coins[d] > 0
       PROVE  x.vesting[d] <= y.coins[d]
  <2>1. CASE x \in g.accounts /\ y \in g.balances
    BY <1>14, <2>1 DEF Sound
  <2>2. CASE x = account /\ y = b
    <3>1. vesting[d] \in Nat /\ coins[d] \in Nat /\ coins[d] > 0
      BY <1>1, <1>2, <1>14, <2>2 DEF Coins
    <3>2. CASE vesting = NoCoins
      BY <1>1, <1>2, <2>2, <3>1, <3>2 DEF NoCoins
    <3>3. CASE vesting # NoCoins
      <4>1. ~(vesting[d] > coins[d])
        BY <3>1, <3>3 DEF ValidVesting, IsAnyGT
      <4> QED
        BY <1>1, <1>2, <2>2, <3>1, <4>1
    <3> QED
      BY <3>2, <3>3
  <2>3. CASE x = account /\ y \in g.balances
    BY <1>1, <1>6, <1>14, <2>3
  <2>4. CASE x \in g.accounts /\ y = b
    BY <1>2, <1>14, <2>4
  <2> QED
    BY <1>3, <2>1, <2>2, <2>3, <2>4
<1>15. Sound(h)
  BY <1>8, <1>11, <1>12, <1>13, <1>14 DEF Sound
<1> QED
  BY <1>7, <1>10, <1>15 DEF h

-----------------------------------------------------------------------------
(* The invariant.                                                           *)

Disks == [nodeKey : [Nodes -> Keys \cup {None}],
          gentx   : [Nodes -> GenTxRecords \cup {None}],
          genesis : [Nodes -> GenesisStates \cup {None}],
          peers   : [Nodes -> SUBSET Memos]]

Running == {"node_files", "account_key", "gentx", "init_genesis", "collect"}

TestnetType ==
  /\ run \in Nat /\ n \in 1 .. MaxNodes /\ i \in 0 .. n - 1
  /\ pc \in Running \cup {"idle", "done", "failed", "refused"}
  /\ disk \in Disks
  /\ startingIP \in Flags
  /\ made \in Seq(Made)
  /\ appState \in GenesisStates \cup {None}

\* How far the loops over the nodes have come.
Loops ==
  /\ pc \in Running => run # 0
  /\ pc \in {"node_files", "account_key"} => Len(made) = i
  /\ pc = "account_key" => disk.nodeKey[i] # None
  /\ pc = "gentx" => Len(made) = i + 1
  /\ pc \in {"init_genesis", "collect", "done"} => Len(made) = n
  /\ \A k \in 1 .. Len(made) : made[k].addr = <<run, k - 1>>
  /\ pc \notin {"collect", "done"} => appState = None
  /\ pc = "collect" => (appState = None <=> i = 0)

\* The nodes whose gentx this run has written.
Written == {k \in 0 .. n - 1 : \/ pc \in {"init_genesis", "collect"}
                               \/ pc \in {"node_files", "account_key", "gentx"} /\ k < i}

\* A gentx is its node's, and names the run that wrote it.
GenTxFiles ==
  /\ \A k \in Nodes : disk.gentx[k] # None =>
       /\ disk.gentx[k].moniker = k
       /\ \E r \in 1 .. run : disk.gentx[k].addr = <<r, k>>
  /\ \A k \in Written : disk.gentx[k] = MadeBy(startingIP, made, k)

GenesisFiles ==
  /\ pc = "init_genesis" => \A k \in 0 .. i - 1 : disk.genesis[k] = InitialGenesis(made)
  /\ pc = "collect" => \A k \in i .. n - 1 : disk.genesis[k] = InitialGenesis(made)
  /\ appState # None => appState = CanonicalState(startingIP, made, n)
  /\ \A k \in Completed :
       /\ disk.genesis[k] = CanonicalState(startingIP, made, n)
       /\ disk.peers[k] = PeersOf(startingIP, made, n, k)

SoundFiles ==
  \A k \in Nodes : disk.genesis[k] # None =>
    Sound(disk.genesis[k]) /\ IsFiniteSet(disk.genesis[k].balances)

TestnetInv == TestnetType /\ Loops /\ GenTxFiles /\ GenesisFiles /\ SoundFiles

-----------------------------------------------------------------------------
(* The steps.                                                               *)

\* Nodes of a testnet are nodes.
LEMMA NodesOfTestnet ==
  ASSUME TestnetType
  PROVE  0 .. n - 1 \subseteq Nodes /\ i \in Nodes /\ n \in Nat \ {0} /\ i \in Nat
BY TestnetAssumption DEF TestnetType, Nodes

\* A round of a loop.
LEMMA NextRound ==
  ASSUME TestnetType, NEW body, NEW after, NextNode(body, after)
  PROVE  \/ i + 1 < n /\ i' = i + 1 /\ pc' = body
         \/ i + 1 = n /\ i' = 0 /\ pc' = after
<1>1. n \in Nat \ {0} /\ i \in 0 .. n - 1
  BY NodesOfTestnet DEF TestnetType
<1>2. (i + 1) % n = IF i + 1 < n THEN i + 1 ELSE 0
  BY <1>1, NextIndex
<1>3. i' = IF i + 1 < n THEN i + 1 ELSE 0
  BY <1>2 DEF NextNode
<1> QED
  BY <1>1, <1>3 DEF NextNode

\* A process begins with nothing made.
LEMMA NothingMade == <<>> \in Seq(Made) /\ Len(<<>>) = 0
OBVIOUS

\* A run of the command begins.
LEMMA StartStep ==
  ASSUME TestnetInv, NEW nodes \in 1 .. MaxNodes, NEW ip \in Flags, Start(nodes, ip)
  PROVE  TestnetInv'
<1>1. /\ run' = run + 1 /\ n' = nodes /\ startingIP' = ip /\ i' = 0 /\ appState' = None
      /\ pc' = "node_files" /\ disk' = disk
  BY DEF Start
<1>2. made' \in Seq(Made) /\ Len(made') = 0
  BY NothingMade DEF Start
<1>3. run \in Nat /\ run' \in Nat /\ run' # 0 /\ nodes \in Nat \ {0}
  BY <1>1, TestnetAssumption DEF TestnetInv, TestnetType
<1>4. TestnetType'
  <2>1. n' \in 1 .. MaxNodes /\ i' \in 0 .. n' - 1
    BY <1>1, <1>3
  <2> QED
    BY <1>1, <1>2, <1>3, <2>1 DEF TestnetInv, TestnetType, Running
<1>5. Loops'
  BY <1>1, <1>2, <1>3 DEF Loops, Running
<1>6. Written' = {}
  BY <1>1, <1>3 DEF Written
<1>7. Completed' = {}
  BY <1>1 DEF Completed
<1>8. GenTxFiles'
  <2>1. 1 .. run \subseteq 1 .. run'
    BY <1>1, <1>3
  <2> QED
    BY <1>1, <1>6, <2>1 DEF TestnetInv, GenTxFiles
<1>9. GenesisFiles' /\ SoundFiles'
  BY <1>1, <1>7 DEF TestnetInv, GenesisFiles, SoundFiles
<1> QED
  BY <1>4, <1>5, <1>8, <1>9 DEF TestnetInv

\* The command ends, and what is on the disk has been there or is sound.
LEMMA EndStep ==
  ASSUME TestnetInv, pc' \in {"idle", "failed", "refused"}, Forgets, UNCHANGED <<run, n>>,
         disk' \in Disks, SoundFiles',
         \A k \in Nodes : disk'.gentx[k] # None => disk'.gentx[k] = disk.gentx[k]
  PROVE  TestnetInv'
<1>1. /\ i' = 0 /\ appState' = None /\ run' = run /\ n' = n
      /\ startingIP' = None /\ startingIP' \in Flags
  BY DEF Forgets, Flags
<1>2. made' \in Seq(Made) /\ Len(made') = 0
  BY NothingMade DEF Forgets
<1>3. TestnetType'
  <2>1. 0 \in 0 .. n - 1
    BY NodesOfTestnet DEF TestnetInv
  <2> QED
    BY <1>1, <1>2, <2>1 DEF TestnetInv, TestnetType, Running
<1>4. Loops'
  BY <1>1, <1>2 DEF Loops, Running
<1>5. Written' = {} /\ Completed' = {}
  BY DEF Written, Completed
<1>6. GenTxFiles'
  BY <1>1, <1>5 DEF TestnetInv, GenTxFiles
<1>7. GenesisFiles'
  BY <1>1, <1>5 DEF GenesisFiles
<1> QED
  BY <1>3, <1>4, <1>6, <1>7 DEF TestnetInv

\* A run fails, for a gentx it cannot use or for any other reason.
LEMMA FailSteps ==
  ASSUME TestnetInv, Refuse \/ FailAndRemove \/ FailAndLeave
  PROVE  TestnetInv'
<1>1. CASE Refuse \/ FailAndLeave
  <2>1. /\ pc' \in {"failed", "refused"} /\ Forgets /\ UNCHANGED <<run, n>> /\ disk' = disk
    BY <1>1 DEF Refuse, FailAndLeave
  <2>2. disk' \in Disks /\ SoundFiles'
    BY <2>1 DEF TestnetInv, TestnetType, SoundFiles
  <2> QED
    BY <2>1, <2>2, EndStep
<1>2. CASE FailAndRemove
  <2>1. pc' = "failed" /\ Forgets /\ UNCHANGED <<run, n>> /\ disk' = EmptyDir
    BY <1>2 DEF FailAndRemove
  <2>2. EmptyDir \in Disks /\ \A k \in Nodes : EmptyDir.gentx[k] = None /\ EmptyDir.genesis[k] = None
    BY DEF EmptyDir, Disks
  <2>3. SoundFiles'
    BY <2>1, <2>2 DEF SoundFiles
  <2> QED
    BY <2>1, <2>2, <2>3, EndStep
<1> QED
  BY <1>1, <1>2

\* One account more in the genesis of one node.
LEMMA AddStep ==
  ASSUME TestnetInv, NEW node \in Nodes, NEW addr \in Newcomers,
         NEW coins \in Purses, NEW vesting \in Purses, NEW start \in StartTimes, NEW end \in EndTimes,
         AddGenesisAccount(node, addr, coins, vesting, start, end)
  PROVE  TestnetInv'
<1> DEFINE g == disk.genesis[node]
           account == IF vesting = NoCoins THEN BaseAccount(addr)
                      ELSE [addr |-> addr, vesting |-> vesting, start |-> start, end |-> end]
           h == WithAccount(g, account, coins)
<1>1. /\ g # None /\ ValidVesting(coins, vesting, start, end)
      /\ \A a \in g.accounts : a.addr # addr
      /\ disk' = [disk EXCEPT !.genesis[node] = h]
      /\ pc' = "idle" /\ UNCHANGED <<run, n>> /\ Forgets
  BY DEF AddGenesisAccount
<1>2. disk \in Disks /\ g \in GenesisStates
  BY <1>1 DEF TestnetInv, TestnetType, Disks
<1>3. Sound(g) /\ IsFiniteSet(g.balances)
  BY <1>1 DEF TestnetInv, SoundFiles
<1>4. h \in GenesisStates /\ Sound(h) /\ IsFiniteSet(h.balances)
  <2>1. account = IF vesting = NoCoins THEN BaseAccount(addr)
                  ELSE [addr |-> addr, vesting |-> vesting, start |-> start, end |-> end]
    OBVIOUS
  <2> HIDE DEF g, account
  <2> QED
    BY <1>1, <1>2, <1>3, <2>1, AccountAdded
<1> HIDE DEF h
<1>5. /\ disk' \in Disks /\ disk'.gentx = disk.gentx
      /\ disk'.genesis = [disk.genesis EXCEPT ![node] = h]
  BY <1>1, <1>2, <1>4 DEF Disks
<1>6. SoundFiles'
  <2> SUFFICES ASSUME NEW k \in Nodes, disk'.genesis[k] # None
               PROVE  Sound(disk'.genesis[k]) /\ IsFiniteSet(disk'.genesis[k].balances)
    BY DEF SoundFiles
  <2>1. CASE k = node
    <3>1. disk'.genesis[k] = h
      BY <1>2, <1>5, <2>1 DEF Disks
    <3> QED
      BY <1>4, <3>1
  <2>2. CASE k # node
    <3>1. disk'.genesis[k] = disk.genesis[k]
      BY <1>2, <1>5, <2>2 DEF Disks
    <3> QED
      BY <3>1 DEF TestnetInv, SoundFiles
  <2> QED
    BY <2>1, <2>2
<1> QED
  BY <1>1, <1>5, <1>6, EndStep

\* A node's own key.
LEMMA NodeFilesStep ==
  ASSUME TestnetInv, NodeFiles
  PROVE  TestnetInv'
<1> DEFINE key == IF disk.nodeKey[i] = None THEN <<run, i>> ELSE disk.nodeKey[i]
<1>1. /\ pc = "node_files" /\ pc' = "account_key"
      /\ disk' = [disk EXCEPT !.nodeKey[i] = key]
      /\ run' = run /\ n' = n /\ startingIP' = startingIP /\ i' = i /\ made' = made /\ appState' = appState
  BY DEF NodeFiles
<1>2. disk \in Disks /\ i \in Nodes /\ run \in Nat /\ i \in Nat
  BY NodesOfTestnet DEF TestnetInv, TestnetType
<1>3. key \in Keys /\ key # None
  <2>1. disk.nodeKey[i] \in Keys \cup {None} /\ <<run, i>> \in Keys
    BY <1>2 DEF Disks, Keys
  <2> QED
    BY <2>1, TestnetAssumption
<1> HIDE DEF key
<1>4. /\ disk' \in Disks /\ disk'.nodeKey[i] = key /\ disk'.gentx = disk.gentx
      /\ disk'.genesis = disk.genesis /\ disk'.peers = disk.peers
  BY <1>1, <1>2, <1>3 DEF Disks
<1>5. TestnetType'
  BY <1>1, <1>4 DEF TestnetInv, TestnetType, Running
<1>6. Loops'
  BY <1>1, <1>3, <1>4 DEF TestnetInv, Loops, Running
<1>7. Written' = Written /\ Completed' = {}
  BY <1>1 DEF Written, Completed
<1>8. GenTxFiles'
  BY <1>1, <1>4, <1>7 DEF TestnetInv, GenTxFiles
<1>9. GenesisFiles' /\ SoundFiles'
  BY <1>1, <1>4, <1>7 DEF TestnetInv, GenesisFiles, SoundFiles
<1> QED
  BY <1>5, <1>6, <1>8, <1>9 DEF TestnetInv

\* The loop's lists grow at their end.
LEMMA AppendFacts ==
  ASSUME NEW S, NEW s \in Seq(S), NEW e \in S
  PROVE  /\ Append(s, e) \in Seq(S)
         /\ Len(Append(s, e)) = Len(s) + 1
         /\ Append(s, e)[Len(s) + 1] = e
         /\ \A k \in 1 .. Len(s) : Append(s, e)[k] = s[k]
         /\ Len(s) \in Nat
OBVIOUS

\* A new account for the node.
LEMMA AccountKeyStep ==
  ASSUME TestnetInv, AccountKey
  PROVE  TestnetInv'
<1> DEFINE node == [id |-> disk.nodeKey[i], addr |-> <<run, i>>]
<1>0. made' = Append(made, node)
  BY DEF AccountKey
<1>1. /\ pc = "account_key" /\ pc' = "gentx"
      /\ disk' = disk /\ run' = run /\ n' = n /\ startingIP' = startingIP /\ i' = i /\ appState' = appState
  BY DEF AccountKey
<1>2. disk \in Disks /\ i \in Nodes /\ run \in Nat /\ i \in Nat /\ made \in Seq(Made)
  BY NodesOfTestnet DEF TestnetInv, TestnetType
<1>3. node \in Made /\ node.addr = <<run, i>>
  <2>1. disk.nodeKey[i] \in Keys /\ <<run, i>> \in Keys
    BY <1>1, <1>2 DEF Disks, Keys, TestnetInv, Loops
  <2> QED
    BY <2>1 DEF Made
<1>4. Len(made) = i
  BY <1>1 DEF TestnetInv, Loops
<1> HIDE DEF node
<1>5. /\ made' \in Seq(Made) /\ Len(made') = i + 1 /\ made'[i + 1] = node
      /\ \A k \in 1 .. i : made'[k] = made[k]
  <2>1. made \in Seq(Made) /\ node \in Made
    BY <1>2, <1>3
  <2>2. /\ Append(made, node) \in Seq(Made)
        /\ Len(Append(made, node)) = Len(made) + 1
        /\ Append(made, node)[Len(made) + 1] = node
        /\ \A k \in 1 .. Len(made) : Append(made, node)[k] = made[k]
    BY <2>1, AppendFacts
  <2> QED
    BY <1>0, <1>4, <2>2
<1>6. TestnetType'
  BY <1>1, <1>5 DEF TestnetInv, TestnetType, Running
<1>7. Loops'
  <2>1. ASSUME NEW k \in 1 .. Len(made') PROVE made'[k].addr = <<run, k - 1>>
    <3>1. CASE k = i + 1
      BY <1>2, <1>3, <1>5, <3>1
    <3>2. CASE k # i + 1
      <4>1. k \in 1 .. i
        BY <1>2, <1>5, <3>2
      <4> QED
        BY <1>4, <1>5, <4>1 DEF TestnetInv, Loops
    <3> QED
      BY <3>1, <3>2
  <2> QED
    BY <1>1, <1>5, <2>1 DEF TestnetInv, Loops, Running
<1>8. Written' = Written /\ Completed' = {}
  BY <1>1 DEF Written, Completed
<1>9. GenTxFiles'
  <2>1. ASSUME NEW k \in Written' PROVE disk'.gentx[k] = MadeBy(startingIP', made', k)
    <3>1. k \in Written /\ k + 1 \in 1 .. i
      BY <1>1, <1>2, <1>8 DEF Written
    <3>2. made'[k + 1] = made[k + 1]
      BY <1>5, <3>1
    <3>3. MadeBy(startingIP', made', k) = MadeBy(startingIP, made, k)
      BY <1>1, <3>2 DEF MadeBy
    <3> QED
      BY <1>1, <3>1, <3>3 DEF TestnetInv, GenTxFiles
  <2>2. ASSUME NEW k \in Nodes, disk'.gentx[k] # None
        PROVE  /\ disk'.gentx[k].moniker = k
               /\ \E r \in 1 .. run' : disk'.gentx[k].addr = <<r, k>>
    BY <1>1, <2>2 DEF TestnetInv, GenTxFiles
  <2> QED
    BY <2>1, <2>2 DEF GenTxFiles
<1>10. GenesisFiles' /\ SoundFiles'
  <2>1. appState' = None
    BY <1>1 DEF TestnetInv, Loops
  <2> QED
    BY <1>1, <1>8, <2>1 DEF TestnetInv, GenesisFiles, SoundFiles
<1> QED
  BY <1>6, <1>7, <1>9, <1>10 DEF TestnetInv

\* The gentx of a node replaces what an earlier run left in its file.
LEMMA GenTxStep ==
  ASSUME TestnetInv, GenTx
  PROVE  TestnetInv'
<1> DEFINE tx == MadeBy(startingIP, made, i)
<1>1. /\ pc = "gentx" /\ disk' = [disk EXCEPT !.gentx[i] = tx]
      /\ run' = run /\ n' = n /\ startingIP' = startingIP /\ made' = made /\ appState' = appState
  BY DEF GenTx, GenTxFile, MadeBy
<1>2. \/ i + 1 < n /\ i' = i + 1 /\ pc' = "node_files"
      \/ i + 1 = n /\ i' = 0 /\ pc' = "init_genesis"
  BY NextRound DEF GenTx, TestnetInv
<1>3. /\ disk \in Disks /\ i \in Nodes /\ i \in Nat /\ n \in Nat \ {0} /\ 0 .. n - 1 \subseteq Nodes
      /\ made \in Seq(Made) /\ run \in Nat /\ startingIP \in Flags
  BY NodesOfTestnet DEF TestnetInv, TestnetType
<1>4. Len(made) = i + 1 /\ run # 0 /\ made[i + 1].addr = <<run, i>>
  <2>1. Len(made) = i + 1 /\ run # 0 /\ \A k \in 1 .. Len(made) : made[k].addr = <<run, k - 1>>
    BY <1>1 DEF TestnetInv, Loops, Running
  <2>2. i + 1 \in 1 .. Len(made) /\ (i + 1) - 1 = i
    BY <1>3, <2>1
  <2>3. made[i + 1].addr = <<run, (i + 1) - 1>>
    BY <2>1, <2>2
  <2> QED
    BY <2>1, <2>2, <2>3
<1>5. tx \in GenTxRecords /\ tx.moniker = i /\ tx.addr = <<run, i>>
  <2>1. i + 1 \in 1 .. Len(made)
    BY <1>3, <1>4
  <2> QED
    BY <1>3, <1>4, <2>1, MadeByType
<1> HIDE DEF tx
<1>6. /\ disk' \in Disks /\ disk'.gentx = [disk.gentx EXCEPT ![i] = tx]
      /\ disk'.nodeKey = disk.nodeKey /\ disk'.genesis = disk.genesis /\ disk'.peers = disk.peers
  BY <1>1, <1>3, <1>5 DEF Disks
<1>7. disk'.gentx[i] = tx /\ \A k \in Nodes \ {i} : disk'.gentx[k] = disk.gentx[k]
  BY <1>3, <1>6 DEF Disks
<1>8. TestnetType'
  <2>1. i' \in 0 .. n' - 1
    BY <1>1, <1>2, <1>3
  <2> QED
    BY <1>1, <1>2, <1>6, <2>1 DEF TestnetInv, TestnetType, Running
<1>9. Loops'
  <2>1. appState' = None
    BY <1>1 DEF TestnetInv, Loops
  <2>2. \A k \in 1 .. Len(made') : made'[k].addr = <<run', k - 1>>
    BY <1>1 DEF TestnetInv, Loops
  <2> QED
    BY <1>1, <1>2, <1>4, <2>1, <2>2 DEF Loops
<1>10. GenTxFiles'
  <2>1. ASSUME NEW k \in Nodes, disk'.gentx[k] # None
        PROVE  /\ disk'.gentx[k].moniker = k
               /\ \E r \in 1 .. run' : disk'.gentx[k].addr = <<r, k>>
    <3>1. CASE k = i
      <4>1. run' \in 1 .. run' /\ disk'.gentx[k].moniker = k /\ disk'.gentx[k].addr = <<run', k>>
        BY <1>1, <1>3, <1>4, <1>5, <1>7, <3>1
      <4> QED
        BY <4>1
    <3>2. CASE k # i
      BY <1>1, <1>7, <2>1, <3>2 DEF TestnetInv, GenTxFiles
    <3> QED
      BY <3>1, <3>2
  <2>2. ASSUME NEW k \in Written' PROVE disk'.gentx[k] = MadeBy(startingIP', made', k)
    <3>1. k \in 0 .. n - 1 /\ k < i + 1 /\ k \in Nodes
      BY <1>1, <1>2, <1>3 DEF Written
    <3>2. CASE k = i
      BY <1>1, <1>7, <3>2 DEF tx
    <3>3. CASE k # i
      <4>1. k \in Written
        BY <1>1, <1>3, <3>1, <3>3 DEF Written
      <4> QED
        BY <1>1, <1>7, <3>1, <3>3, <4>1 DEF TestnetInv, GenTxFiles
    <3> QED
      BY <3>2, <3>3
  <2> QED
    BY <2>1, <2>2 DEF GenTxFiles
<1>11. GenesisFiles' /\ SoundFiles'
  <2>1. appState' = None
    BY <1>1 DEF TestnetInv, Loops
  <2>2. Completed' = {} /\ pc' # "collect"
    BY <1>2 DEF Completed
  <2>3. pc' = "init_genesis" => 0 .. i' - 1 = {}
    BY <1>2
  <2> QED
    BY <1>6, <2>1, <2>2, <2>3 DEF TestnetInv, GenesisFiles, SoundFiles
<1> QED
  BY <1>8, <1>9, <1>10, <1>11 DEF TestnetInv

\* The genesis of a node before the gentxs are collected.
LEMMA InitGenFilesStep ==
  ASSUME TestnetInv, initGenFiles
  PROVE  TestnetInv'
<1> DEFINE g == InitialGenesis(made)
<1>1. /\ pc = "init_genesis" /\ disk' = [disk EXCEPT !.genesis[i] = g]
      /\ run' = run /\ n' = n /\ startingIP' = startingIP /\ made' = made /\ appState' = appState
  BY DEF initGenFiles
<1>2. \/ i + 1 < n /\ i' = i + 1 /\ pc' = "init_genesis"
      \/ i + 1 = n /\ i' = 0 /\ pc' = "collect"
  BY NextRound DEF initGenFiles, TestnetInv
<1>3. /\ disk \in Disks /\ i \in Nodes /\ i \in Nat /\ n \in Nat \ {0} /\ 0 .. n - 1 \subseteq Nodes
      /\ made \in Seq(Made) /\ run \in Nat /\ startingIP \in Flags
  BY NodesOfTestnet DEF TestnetInv, TestnetType
<1>4. g \in GenesisStates /\ Sound(g) /\ IsFiniteSet(g.balances)
  BY <1>3, InitialFields, InitialSound
<1> HIDE DEF g
<1>5. /\ disk' \in Disks /\ disk'.genesis = [disk.genesis EXCEPT ![i] = g]
      /\ disk'.nodeKey = disk.nodeKey /\ disk'.gentx = disk.gentx /\ disk'.peers = disk.peers
  BY <1>1, <1>3, <1>4 DEF Disks
<1>6. disk'.genesis[i] = g /\ \A k \in Nodes \ {i} : disk'.genesis[k] = disk.genesis[k]
  BY <1>3, <1>5 DEF Disks
<1>7. TestnetType'
  <2>1. i' \in 0 .. n' - 1
    BY <1>1, <1>2, <1>3
  <2> QED
    BY <1>1, <1>2, <1>5, <2>1 DEF TestnetInv, TestnetType, Running
<1>8. appState' = None /\ Len(made') = n' /\ run # 0
  BY <1>1 DEF TestnetInv, Loops, Running
<1>9. Loops'
  <2>1. \A k \in 1 .. Len(made') : made'[k].addr = <<run', k - 1>>
    BY <1>1 DEF TestnetInv, Loops
  <2> QED
    BY <1>1, <1>2, <1>8, <2>1 DEF Loops
<1>10. GenTxFiles'
  <2>1. Written' = Written
    BY <1>1, <1>2 DEF Written
  <2> QED
    BY <1>1, <1>5, <2>1 DEF TestnetInv, GenTxFiles
<1>11. GenesisFiles'
  <2>1. ASSUME NEW k \in 0 .. i PROVE disk'.genesis[k] = InitialGenesis(made')
    <3>1. CASE k = i
      BY <1>1, <1>6, <3>1 DEF g
    <3>2. CASE k # i
      <4>1. k \in 0 .. i - 1 /\ k \in Nodes
        BY <1>2, <1>3, <3>2
      <4> QED
        BY <1>1, <1>6, <3>2, <4>1 DEF TestnetInv, GenesisFiles
    <3> QED
      BY <3>1, <3>2
  <2>2. pc' = "init_genesis" => 0 .. i' - 1 \subseteq 0 .. i
    BY <1>2, <1>3
  <2>3. pc' = "collect" => i' .. n' - 1 \subseteq 0 .. i
    BY <1>1, <1>2, <1>3
  <2>4. Completed' = {}
    BY <1>2 DEF Completed
  <2> QED
    BY <1>8, <2>1, <2>2, <2>3, <2>4 DEF GenesisFiles
<1>12. SoundFiles'
  <2> SUFFICES ASSUME NEW k \in Nodes, disk'.genesis[k] # None
               PROVE  Sound(disk'.genesis[k]) /\ IsFiniteSet(disk'.genesis[k].balances)
    BY DEF SoundFiles
  <2>1. CASE k = i
    BY <1>4, <1>6, <2>1
  <2>2. CASE k # i
    BY <1>6, <2>2 DEF TestnetInv, SoundFiles
  <2> QED
    BY <2>1, <2>2
<1> QED
  BY <1>7, <1>9, <1>10, <1>11, <1>12 DEF TestnetInv

\* Which gentxs a genesis of this run funds: those of this run.
LEMMA FundedAreOwn ==
  ASSUME TestnetInv, pc = "collect"
  PROVE  /\ disk.genesis[i] = InitialGenesis(made)
         /\ AllMade(startingIP, made, n) \subseteq GenTxs
         /\ \A k \in 0 .. n - 1 : Funded(disk.gentx[k], disk.genesis[i])
         /\ \A k \in Nodes : disk.gentx[k] # None /\ Funded(disk.gentx[k], disk.genesis[i])
                               => k \in 0 .. n - 1 /\ disk.gentx[k] = MadeBy(startingIP, made, k)
<1>1. /\ i \in 0 .. n - 1 /\ n \in Nat \ {0} /\ 0 .. n - 1 \subseteq Nodes
      /\ made \in Seq(Made) /\ Len(made) = n /\ startingIP \in Flags
      /\ \A k \in 1 .. Len(made) : made[k].addr = <<run, k - 1>>
  BY NodesOfTestnet DEF TestnetInv, TestnetType, Loops
<1>2. disk.genesis[i] = InitialGenesis(made)
  <2>1. i \in i .. n - 1
    BY <1>1
  <2> QED
    BY <2>1 DEF TestnetInv, GenesisFiles
<1>3. \A tx : Funded(tx, InitialGenesis(made)) <=> \E k \in 1 .. Len(made) : tx.addr = made[k].addr
  BY <1>1, InitialSound
<1>4. ASSUME NEW k \in 0 .. n - 1
      PROVE  /\ disk.gentx[k] = MadeBy(startingIP, made, k) /\ disk.gentx[k] # None
             /\ Funded(disk.gentx[k], disk.genesis[i])
  <2>1. k \in Nodes /\ k + 1 \in 1 .. Len(made)
    BY <1>1
  <2>2. MadeBy(startingIP, made, k) # None /\ MadeBy(startingIP, made, k).addr = made[k + 1].addr
    BY <1>1, <2>1, MadeByType
  <2>3. disk.gentx[k] = MadeBy(startingIP, made, k)
    <3>1. k \in Written
      BY DEF Written
    <3> QED
      BY <3>1 DEF TestnetInv, GenTxFiles
  <2> QED
    BY <1>2, <1>3, <2>1, <2>2, <2>3
<1>5. AllMade(startingIP, made, n) \subseteq GenTxs
  BY <1>1, <1>4 DEF AllMade, GenTxs
<1>6. ASSUME NEW k \in Nodes, disk.gentx[k] # None, Funded(disk.gentx[k], disk.genesis[i])
      PROVE  k \in 0 .. n - 1 /\ disk.gentx[k] = MadeBy(startingIP, made, k)
  <2>1. PICK r \in 1 .. run : disk.gentx[k].addr = <<r, k>>
    BY <1>6 DEF TestnetInv, GenTxFiles
  <2>2. PICK j \in 1 .. Len(made) : disk.gentx[k].addr = made[j].addr
    BY <1>2, <1>3, <1>6
  <2>3. <<r, k>> = <<run, j - 1>>
    BY <1>1, <2>1, <2>2
  <2>4. k \in 0 .. n - 1
    BY <1>1, <2>3
  <2> QED
    BY <1>4, <2>4
<1> QED
  BY <1>2, <1>4, <1>5, <1>6

\* The gentxs are collected into the genesis of a node, which is the canonical
\* one from the first node on.
LEMMA CollectGenFilesStep ==
  ASSUME TestnetInv, collectGenFiles
  PROVE  TestnetInv'
<1> DEFINE g == CanonicalState(startingIP, made, n)
           P == PeersOf(startingIP, made, n, i)
<1>1. /\ pc = "collect" /\ run' = run /\ n' = n /\ startingIP' = startingIP /\ made' = made
      /\ \A tx \in GenTxs : Funded(tx, disk.genesis[i])
  BY DEF collectGenFiles
<1>2. \/ i + 1 < n /\ i' = i + 1 /\ pc' = "collect"
      \/ i + 1 = n /\ i' = 0 /\ pc' = "done"
  BY NextRound DEF collectGenFiles, TestnetInv
<1>3. /\ disk \in Disks /\ i \in Nodes /\ i \in Nat /\ n \in Nat \ {0} /\ 0 .. n - 1 \subseteq Nodes
      /\ made \in Seq(Made) /\ run \in Nat /\ n \in 1 .. MaxNodes /\ startingIP \in Flags
  BY NodesOfTestnet DEF TestnetInv, TestnetType
<1>4. Len(made) = n /\ run # 0
  BY <1>1 DEF TestnetInv, Loops, Running
<1>5. GenTxs = AllMade(startingIP, made, n)
  <2>1. ASSUME NEW tx \in GenTxs PROVE tx \in AllMade(startingIP, made, n)
    <3>1. PICK k \in Nodes : tx = disk.gentx[k] /\ tx # None
      BY DEF GenTxs
    <3>2. k \in 0 .. n - 1 /\ tx = MadeBy(startingIP, made, k)
      BY <1>1, <3>1, FundedAreOwn
    <3> QED
      BY <3>2 DEF AllMade
  <2> QED
    BY <1>1, <2>1, FundedAreOwn
<1>6. /\ g \in GenesisStates /\ g # None /\ Sound(g) /\ IsFiniteSet(g.balances)
  BY <1>3, <1>4, CanonicalSound
<1>7. {tx.memo : tx \in {t \in GenTxs : t.moniker # i}} = P
  <2>1. ASSUME NEW k \in 0 .. n - 1 PROVE MadeBy(startingIP, made, k).moniker = k
    BY DEF MadeBy
  <2> QED
    BY <1>5, <2>1 DEF AllMade, PeersOf
<1>8. P \in SUBSET Memos
  <2>1. ASSUME NEW k \in 0 .. n - 1 PROVE MadeBy(startingIP, made, k).memo \in Memos
    <3>1. k \in Nodes /\ k + 1 \in 1 .. Len(made)
      BY <1>3, <1>4
    <3> QED
      BY <1>3, <3>1, MadeByType
  <2> QED
    BY <2>1 DEF PeersOf
<1>9. /\ appState' = g
      /\ disk' = [disk EXCEPT !.genesis[i] = g, !.peers[i] = P]
  <2> DEFINE canonical == IF appState = None
                          THEN [disk.genesis[i] EXCEPT !.gentxs = GenTxs] ELSE appState
  <2>1. canonical = g
    <3>1. CASE appState = None
      <4>1. disk.genesis[i] = InitialGenesis(made)
        BY <1>1, FundedAreOwn
      <4> QED
        BY <1>5, <3>1, <4>1 DEF CanonicalState
    <3>2. CASE appState # None
      BY <3>2 DEF TestnetInv, GenesisFiles
    <3> QED
      BY <3>1, <3>2
  <2>2. /\ appState' = canonical
        /\ disk' = [disk EXCEPT !.genesis[i] = canonical,
                      !.peers[i] = {tx.memo : tx \in {t \in GenTxs : t.moniker # i}}]
    BY DEF collectGenFiles
  <2> HIDE DEF canonical, g, P
  <2> QED
    BY <1>7, <2>1, <2>2
<1> HIDE DEF g, P
<1>10. /\ disk' \in Disks
       /\ disk'.genesis = [disk.genesis EXCEPT ![i] = g] /\ disk'.peers = [disk.peers EXCEPT ![i] = P]
       /\ disk'.nodeKey = disk.nodeKey /\ disk'.gentx = disk.gentx
  BY <1>3, <1>6, <1>8, <1>9 DEF Disks
<1>11. /\ disk'.genesis[i] = g /\ disk'.peers[i] = P
       /\ \A k \in Nodes \ {i} : disk'.genesis[k] = disk.genesis[k] /\ disk'.peers[k] = disk.peers[k]
  BY <1>3, <1>10 DEF Disks
<1>12. TestnetType'
  <2>1. i' \in 0 .. n' - 1
    BY <1>1, <1>2, <1>3
  <2> QED
    BY <1>1, <1>2, <1>6, <1>9, <1>10, <2>1 DEF TestnetInv, TestnetType, Running
<1>13. Loops'
  <2>1. \A k \in 1 .. Len(made') : made'[k].addr = <<run', k - 1>>
    BY <1>1 DEF TestnetInv, Loops
  <2>2. pc' = "collect" => i' # 0
    BY <1>2, <1>3
  <2> QED
    BY <1>1, <1>2, <1>4, <1>6, <1>9, <2>1, <2>2 DEF Loops
<1>14. GenTxFiles'
  <2>1. ASSUME NEW k \in Written' PROVE k \in Written
    BY <1>1, <1>2 DEF Written
  <2> QED
    BY <1>1, <1>10, <2>1 DEF TestnetInv, GenTxFiles
<1>15. GenesisFiles'
  <2>1. ASSUME NEW k \in Completed'
        PROVE  /\ disk'.genesis[k] = CanonicalState(startingIP', made', n')
               /\ disk'.peers[k] = PeersOf(startingIP', made', n', k)
    <3>1. k \in 0 .. i
      BY <1>1, <1>2, <1>3 DEF Completed
    <3>2. CASE k = i
      BY <1>1, <1>11, <3>2 DEF g, P
    <3>3. CASE k # i
      <4>1. k \in Completed /\ k \in Nodes
        BY <1>1, <1>2, <1>3, <3>1, <3>3 DEF Completed
      <4> QED
        BY <1>1, <1>11, <3>3, <4>1 DEF TestnetInv, GenesisFiles
    <3> QED
      BY <3>2, <3>3
  <2>2. ASSUME pc' = "collect", NEW k \in i' .. n' - 1
        PROVE  disk'.genesis[k] = InitialGenesis(made')
    <3>1. k \in i .. n - 1 /\ k # i /\ k \in Nodes
      BY <1>1, <1>2, <1>3, <2>2
    <3> QED
      BY <1>1, <1>11, <3>1 DEF TestnetInv, GenesisFiles
  <2>3. appState' = CanonicalState(startingIP', made', n')
    BY <1>1, <1>9 DEF g
  <2>4. pc' # "init_genesis"
    BY <1>2
  <2> QED
    BY <2>1, <2>2, <2>3, <2>4 DEF GenesisFiles
<1>16. SoundFiles'
  <2> SUFFICES ASSUME NEW k \in Nodes, disk'.genesis[k] # None
               PROVE  Sound(disk'.genesis[k]) /\ IsFiniteSet(disk'.genesis[k].balances)
    BY DEF SoundFiles
  <2>1. CASE k = i
    BY <1>6, <1>11, <2>1
  <2>2. CASE k # i
    BY <1>11, <2>2 DEF TestnetInv, SoundFiles
  <2> QED
    BY <2>1, <2>2
<1> QED
  BY <1>12, <1>13, <1>14, <1>15, <1>16 DEF TestnetInv

-----------------------------------------------------------------------------
(* The theorems.                                                            *)

\* In every state that runs, failures and added accounts lead to: the disk
\* holds sound genesis files, and gentxs that name their node and their run,
\* and what the current run has completed is exactly what it made.
THEOREM TestnetInductive == Spec => []TestnetInv
<1>1. Init => TestnetInv
  <2> SUFFICES ASSUME Init PROVE TestnetInv
    OBVIOUS
  <2>1. /\ disk = EmptyDir /\ pc = "idle" /\ run = 0 /\ n = 1 /\ i = 0 /\ appState = None
        /\ startingIP \in Flags
    BY DEF Init, Flags
  <2>2. made \in Seq(Made) /\ Len(made) = 0
    BY NothingMade DEF Init
  <2>3. EmptyDir \in Disks /\ \A k \in Nodes : EmptyDir.gentx[k] = None /\ EmptyDir.genesis[k] = None
    BY DEF EmptyDir, Disks
  <2>4. TestnetType
    BY <2>1, <2>2, <2>3, TestnetAssumption DEF TestnetType
  <2>5. Loops
    BY <2>1, <2>2 DEF Loops, Running
  <2>6. Written = {} /\ Completed = {}
    BY <2>1 DEF Written, Completed
  <2>7. GenTxFiles /\ GenesisFiles /\ SoundFiles
    BY <2>1, <2>3, <2>6 DEF GenTxFiles, GenesisFiles, SoundFiles
  <2> QED
    BY <2>4, <2>5, <2>7 DEF TestnetInv
<1>2. TestnetInv /\ [Next]_vars => TestnetInv'
  <2> SUFFICES ASSUME TestnetInv, [Next]_vars PROVE TestnetInv'
    OBVIOUS
  <2>1. CASE UNCHANGED vars
    BY <2>1 DEF vars, TestnetInv, TestnetType, Loops, GenTxFiles, GenesisFiles, SoundFiles,
                Written, Completed
  <2>2. ASSUME NEW nodes \in 1 .. MaxNodes, NEW ip \in StartingIPs \cup {None}, Start(nodes, ip)
        PROVE  TestnetInv'
    BY <2>2, StartStep DEF Flags
  <2>3. CASE NodeFiles
    BY <2>3, NodeFilesStep
  <2>4. CASE AccountKey
    BY <2>4, AccountKeyStep
  <2>5. CASE GenTx
    BY <2>5, GenTxStep
  <2>6. CASE initGenFiles
    BY <2>6, InitGenFilesStep
  <2>7. CASE collectGenFiles
    BY <2>7, CollectGenFilesStep
  <2>8. CASE Refuse \/ FailAndRemove \/ FailAndLeave
    BY <2>8, FailSteps
  <2>9. ASSUME NEW node \in Nodes, NEW addr \in Newcomers, NEW coins \in Purses,
               NEW vesting \in Purses, NEW start \in StartTimes, NEW end \in EndTimes,
               AddGenesisAccount(node, addr, coins, vesting, start, end)
        PROVE  TestnetInv'
    BY <2>9, AddStep
  <2> QED
    BY <2>1, <2>2, <2>3, <2>4, <2>5, <2>6, <2>7, <2>8, <2>9 DEF Next
<1> QED
  BY <1>1, <1>2, PTL DEF Spec

\* Whatever runs, failures and added accounts came before, every genesis file
\* is one that genutil and the bank accept.
THEOREM GenesisStaysSound == Spec => []GenesisSound
<1>1. TestnetInv => GenesisSound
  BY DEF TestnetInv, SoundFiles, GenesisSound
<1> QED
  BY <1>1, TestnetInductive, PTL

\* As many gentxs as nodes.
LEMMA GenTxsCount ==
  ASSUME NEW from \in Flags, NEW m \in 1 .. MaxNodes, NEW nodes \in Seq(Made),
         Len(nodes) = m
  PROVE  /\ {tx.addr : tx \in AllMade(from, nodes, m)} = {nodes[j].addr : j \in DOMAIN nodes}
         /\ Cardinality(AllMade(from, nodes, m)) = m
<1> DEFINE I == 0 .. m - 1
           f == [k \in I |-> MadeBy(from, nodes, k)]
           T == AllMade(from, nodes, m)
<1>1. m \in Nat \ {0} /\ DOMAIN nodes = 1 .. m
  BY TestnetAssumption
<1>2. IsFiniteSet(I) /\ Cardinality(I) = m
  BY <1>1, FS_Interval
<1>3. \A k \in I : MadeBy(from, nodes, k).moniker = k /\ MadeBy(from, nodes, k).addr = nodes[k + 1].addr
  BY DEF MadeBy
<1>4. f \in Bijection(I, T)
  BY <1>3 DEF Bijection, Injection, Surjection, IsInjective, AllMade
<1>5. {tx.addr : tx \in T} = {nodes[j].addr : j \in 1 .. m}
  <2>1. ASSUME NEW tx \in T PROVE \E j \in 1 .. m : tx.addr = nodes[j].addr
    <3>1. PICK k \in I : tx = MadeBy(from, nodes, k)
      BY DEF AllMade
    <3>2. k + 1 \in 1 .. m /\ tx.addr = nodes[k + 1].addr
      BY <1>1, <1>3, <3>1
    <3> QED
      BY <3>2
  <2>2. ASSUME NEW j \in 1 .. m PROVE \E tx \in T : tx.addr = nodes[j].addr
    <3>1. j - 1 \in I /\ (j - 1) + 1 = j
      BY <1>1
    <3>2. MadeBy(from, nodes, j - 1) \in T /\ MadeBy(from, nodes, j - 1).addr = nodes[j].addr
      BY <1>3, <3>1 DEF AllMade
    <3> QED
      BY <3>2
  <2> HIDE DEF T
  <2>3. {tx.addr : tx \in T} \subseteq {nodes[j].addr : j \in 1 .. m}
    BY <2>1
  <2>4. {nodes[j].addr : j \in 1 .. m} \subseteq {tx.addr : tx \in T}
    BY <2>2
  <2> QED
    BY <2>3, <2>4
<1>6. Cardinality(T) = m
  <2> HIDE DEF I, f, T
  <2> QED
    BY <1>2, <1>4, FS_Bijection DEF ExistsBijection
<1> QED
  BY <1>1, <1>5, <1>6

\* The nodes of a testnet start from one genesis, with one gentx for each.
THEOREM NodesShareGenesis == Spec => []OneGenesis
<1>1. TestnetInv => OneGenesis
  <2> SUFFICES ASSUME TestnetInv, NEW k \in Completed
               PROVE  /\ disk.genesis[k] = disk.genesis[0]
                      /\ {tx.addr : tx \in disk.genesis[k].gentxs}
                           = {made[j].addr : j \in DOMAIN made}
                      /\ Cardinality(disk.genesis[k].gentxs) = n
    BY DEF OneGenesis
  <2>1. 0 \in Completed /\ pc \in {"collect", "done"}
    BY NodesOfTestnet DEF Completed, TestnetInv
  <2>2. /\ disk.genesis[k] = CanonicalState(startingIP, made, n)
        /\ disk.genesis[0] = CanonicalState(startingIP, made, n)
    BY <2>1 DEF TestnetInv, GenesisFiles
  <2>3. n \in 1 .. MaxNodes /\ made \in Seq(Made) /\ Len(made) = n /\ startingIP \in Flags
    BY <2>1 DEF TestnetInv, TestnetType, Loops
  <2>4. CanonicalState(startingIP, made, n).gentxs = AllMade(startingIP, made, n)
    BY <2>3, CanonicalSound
  <2>5. /\ {tx.addr : tx \in AllMade(startingIP, made, n)} = {made[j].addr : j \in DOMAIN made}
        /\ Cardinality(AllMade(startingIP, made, n)) = n
    BY <2>3, GenTxsCount
  <2> QED
    BY <2>2, <2>4, <2>5
<1> QED
  BY <1>1, TestnetInductive, PTL

-----------------------------------------------------------------------------
(* The peers.                                                               *)

\* A key names its node, of whichever run it is.
NodeKeys ==
  /\ \A k \in Nodes : disk.nodeKey[k] # None => disk.nodeKey[k][2] = k
  /\ \A k \in 1 .. Len(made) : made[k].id[2] = k - 1

\* The one step that makes a key, and the one that lists it.
LEMMA NodeKeysStep ==
  ASSUME TestnetInv, NodeKeys, [Next]_vars
  PROVE  NodeKeys'
<1>1. disk \in Disks /\ i \in Nodes /\ i \in Nat /\ made \in Seq(Made)
  BY NodesOfTestnet DEF TestnetInv, TestnetType
<1>2. ASSUME disk'.nodeKey = disk.nodeKey, made' = made \/ made' = <<>>
      PROVE  NodeKeys'
  <2>1. 1 .. Len(<<>>) = {}
    OBVIOUS
  <2> QED
    BY <1>2, <2>1 DEF NodeKeys
<1>3. CASE NodeFiles
  <2> DEFINE key == IF disk.nodeKey[i] = None THEN <<run, i>> ELSE disk.nodeKey[i]
  <2>1. disk' = [disk EXCEPT !.nodeKey[i] = key] /\ made' = made
    BY <1>3 DEF NodeFiles
  <2>2. key[2] = i
    BY <1>1 DEF NodeKeys
  <2> HIDE DEF key
  <2>3. disk'.nodeKey[i] = key /\ \A k \in Nodes \ {i} : disk'.nodeKey[k] = disk.nodeKey[k]
    BY <1>1, <2>1 DEF Disks
  <2> QED
    BY <2>1, <2>2, <2>3 DEF NodeKeys
<1>4. CASE AccountKey
  <2> DEFINE node == [id |-> disk.nodeKey[i], addr |-> <<run, i>>]
  <2>1. /\ pc = "account_key" /\ made' = Append(made, node) /\ disk' = disk
    BY <1>4 DEF AccountKey
  <2>2. Len(made) = i /\ disk.nodeKey[i] # None /\ run \in Nat
    BY <2>1 DEF TestnetInv, Loops, TestnetType
  <2>3. node \in Made /\ node.id[2] = i
    BY <1>1, <2>2 DEF Disks, Keys, Made, NodeKeys
  <2> HIDE DEF node
  <2>4. /\ Len(made') = i + 1 /\ made'[i + 1] = node
        /\ \A k \in 1 .. i : made'[k] = made[k]
    BY <1>1, <2>1, <2>2, <2>3, AppendFacts
  <2>5. ASSUME NEW k \in 1 .. Len(made') PROVE made'[k].id[2] = k - 1
    <3>1. CASE k = i + 1
      BY <1>1, <2>3, <2>4, <3>1
    <3>2. CASE k # i + 1
      <4>1. k \in 1 .. i
        BY <1>1, <2>4, <3>2
      <4> QED
        BY <2>2, <2>4, <4>1 DEF NodeKeys
    <3> QED
      BY <3>1, <3>2
  <2> QED
    BY <2>1, <2>5 DEF NodeKeys
<1>5. CASE GenTx \/ initGenFiles
  BY <1>1, <1>2, <1>5 DEF GenTx, initGenFiles, Disks
<1>6. CASE collectGenFiles
  <2>1. \E g, P : disk' = [disk EXCEPT !.genesis[i] = g, !.peers[i] = P]
    BY <1>6 DEF collectGenFiles
  <2> QED
    BY <1>1, <1>2, <1>6, <2>1 DEF collectGenFiles, Disks
<1>7. CASE Refuse \/ FailAndLeave
  BY <1>2, <1>7 DEF Refuse, FailAndLeave, Forgets
<1>8. CASE FailAndRemove
  <2>1. disk' = EmptyDir /\ made' = <<>> /\ 1 .. Len(<<>>) = {}
    BY <1>8 DEF FailAndRemove, Forgets
  <2> QED
    BY <2>1 DEF EmptyDir, NodeKeys
<1>9. ASSUME NEW nodes \in 1 .. MaxNodes, NEW ip \in StartingIPs \cup {None}, Start(nodes, ip)
      PROVE  NodeKeys'
  BY <1>2, <1>9 DEF Start
<1>10. ASSUME NEW node \in Nodes, NEW addr \in Newcomers, NEW coins \in Purses,
              NEW vesting \in Purses, NEW start \in StartTimes, NEW end \in EndTimes,
              AddGenesisAccount(node, addr, coins, vesting, start, end)
       PROVE  NodeKeys'
  <2>1. \E h : disk' = [disk EXCEPT !.genesis[node] = h]
    BY <1>10 DEF AddGenesisAccount
  <2> QED
    BY <1>1, <1>2, <1>10, <2>1 DEF AddGenesisAccount, Forgets, Disks
<1>11. CASE UNCHANGED vars
  BY <1>2, <1>11 DEF vars
<1> QED
  BY <1>3, <1>4, <1>5, <1>6, <1>7, <1>8, <1>9, <1>10, <1>11 DEF Next

\* In every state the keys of different nodes differ.
LEMMA NodeKeysInvariant == Spec => []NodeKeys
<1>1. Init => NodeKeys
  <2>1. 1 .. Len(<<>>) = {}
    OBVIOUS
  <2> QED
    BY <2>1 DEF Init, EmptyDir, NodeKeys
<1>2. TestnetInv /\ NodeKeys /\ [Next]_vars => NodeKeys'
  BY NodeKeysStep
<1> QED
  BY <1>1, <1>2, TestnetInductive, PTL DEF Spec

IdsIn(peers)       == {peer.id : peer \in peers}
IpsIn(peers)       == {peer.ip : peer \in peers}
OthersOf(nodes, k) == {nodes[j].id : j \in DOMAIN nodes \ {k + 1}}

\* The IDs and addresses of the other nodes.
LEMMA PeersCount ==
  ASSUME NEW from \in Flags, NEW m \in 1 .. MaxNodes, NEW nodes \in Seq(Made),
         Len(nodes) = m, NEW k \in 0 .. m - 1,
         \A j \in 1 .. m : nodes[j].id[2] = j - 1
  PROVE  LET peers == PeersOf(from, nodes, m, k) IN
         /\ IdsIn(peers) = OthersOf(nodes, k)
         /\ Cardinality(peers) = m - 1
         /\ from # None /\ m <= Octets =>
              Cardinality(IpsIn(peers)) = m - 1 /\ calculateIP(from, k) \notin IpsIn(peers)
         /\ from = None => IpsIn(peers) \subseteq {ExternalIP}
<1> DEFINE I == (0 .. m - 1) \ {k}
           peers == PeersOf(from, nodes, m, k)
           ips == {getIP(j, from) : j \in I}
           f == [j \in I |-> calculateIP(from, j)]
           h == [j \in I |-> MadeBy(from, nodes, j).memo]
<1>1. m \in Nat \ {0} /\ DOMAIN nodes = 1 .. m
  BY TestnetAssumption
<1>2. /\ \A j \in I : MadeBy(from, nodes, j).memo \in peers
      /\ \A peer \in peers : \E j \in I : peer = MadeBy(from, nodes, j).memo
      /\ \A j \in I : /\ MadeBy(from, nodes, j).memo.id = nodes[j + 1].id
                      /\ MadeBy(from, nodes, j).memo.ip = getIP(j, from)
  <2>1. peers = {MadeBy(from, nodes, j).memo : j \in I}
    BY DEF PeersOf
  <2>2. ASSUME NEW j \in I
        PROVE  /\ MadeBy(from, nodes, j).memo.id = nodes[j + 1].id
               /\ MadeBy(from, nodes, j).memo.ip = getIP(j, from)
    BY DEF MadeBy
  <2> HIDE DEF I, peers
  <2> QED
    BY <2>1, <2>2
<1>3. IdsIn(peers) = OthersOf(nodes, k)
  <2>1. ASSUME NEW peer \in peers PROVE \E j \in (1 .. m) \ {k + 1} : peer.id = nodes[j].id
    <3>1. PICK j \in I : peer = MadeBy(from, nodes, j).memo
      BY <1>2
    <3>2. j + 1 \in (1 .. m) \ {k + 1}
      BY <1>1
    <3>3. peer.id = nodes[j + 1].id
      BY <1>2, <3>1
    <3> QED
      BY <3>2, <3>3
  <2>2. ASSUME NEW j \in (1 .. m) \ {k + 1} PROVE \E peer \in peers : peer.id = nodes[j].id
    <3>1. j - 1 \in I /\ (j - 1) + 1 = j
      BY <1>1
    <3>2. MadeBy(from, nodes, j - 1).memo \in peers /\ MadeBy(from, nodes, j - 1).memo.id = nodes[(j - 1) + 1].id
      BY <1>2, <3>1
    <3> QED
      BY <3>1, <3>2
  <2>3. /\ IdsIn(peers) = {peer.id : peer \in peers}
        /\ OthersOf(nodes, k) = {nodes[j].id : j \in (1 .. m) \ {k + 1}}
    BY <1>1 DEF IdsIn, OthersOf
  <2> HIDE DEF peers
  <2>4. {peer.id : peer \in peers} \subseteq {nodes[j].id : j \in (1 .. m) \ {k + 1}}
    BY <2>1
  <2>5. {nodes[j].id : j \in (1 .. m) \ {k + 1}} \subseteq {peer.id : peer \in peers}
    BY <2>2
  <2> QED
    BY <2>3, <2>4, <2>5
<1>4. IpsIn(peers) = ips
  <2>1. ips = {getIP(j, from) : j \in I}
    OBVIOUS
  <2> HIDE DEF peers, I, ips
  <2>2. ASSUME NEW peer \in peers PROVE \E j \in I : peer.ip = getIP(j, from)
    BY <1>2
  <2>3. ASSUME NEW j \in I PROVE \E peer \in peers : peer.ip = getIP(j, from)
    BY <1>2
  <2> QED
    BY <2>1, <2>2, <2>3 DEF IpsIn
<1>5. IsFiniteSet(I) /\ Cardinality(I) = m - 1
  <2> DEFINE J == 0 .. m - 1
  <2>1. IsFiniteSet(J) /\ Cardinality(J) = m /\ k \in J /\ I = J \ {k}
    BY <1>1, FS_Interval
  <2> HIDE DEF I, J
  <2> QED
    BY <2>1, FS_RemoveElement
<1>6. Cardinality(peers) = m - 1
  <2>1. peers = {MadeBy(from, nodes, j).memo : j \in I}
    BY DEF PeersOf
  <2>2. \A x, y \in I : MadeBy(from, nodes, x).memo = MadeBy(from, nodes, y).memo => x = y
    <3>1. ASSUME NEW x \in I PROVE MadeBy(from, nodes, x).memo.id[2] = x
      <4>1. x + 1 \in 1 .. m /\ (x + 1) - 1 = x
        BY <1>1
      <4>2. nodes[x + 1].id[2] = (x + 1) - 1
        BY <4>1
      <4> QED
        BY <1>2, <4>1, <4>2
    <3> HIDE DEF I
    <3> QED
      BY <3>1
  <2>3. h \in Bijection(I, peers)
    <3> HIDE DEF I, peers
    <3> QED
      BY <2>1, <2>2 DEF Bijection, Injection, Surjection, IsInjective
  <2> HIDE DEF I, h, peers
  <2> QED
    BY <1>5, <2>3, FS_Bijection DEF ExistsBijection
<1>7. ASSUME from # None, m <= Octets
      PROVE  Cardinality(ips) = m - 1 /\ calculateIP(from, k) \notin ips
  <2>1. \A x, y \in 0 .. m - 1 : calculateIP(from, x) = calculateIP(from, y) => x = y
    <3>1. Octets \in Nat /\ from \in StartingIPs
      BY <1>7, TestnetAssumption DEF Flags
    <3>2. 0 .. m - 1 \subseteq 0 .. Octets - 1
      BY <1>1, <1>7, <3>1
    <3> QED
      BY <3>1, <3>2, AddressesDiffer
  <2>2. ips = {calculateIP(from, j) : j \in I}
    BY <1>7 DEF getIP
  <2>3. f \in Bijection(I, ips)
    BY <2>1, <2>2 DEF Bijection, Injection, Surjection, IsInjective
  <2>4. Cardinality(ips) = m - 1
    <3> HIDE DEF I, f, ips
    <3> QED
      BY <1>5, <2>3, FS_Bijection DEF ExistsBijection
  <2>5. calculateIP(from, k) \notin ips
    BY <2>1, <2>2
  <2> QED
    BY <2>4, <2>5
<1>8. ASSUME from = None PROVE ips \subseteq {ExternalIP}
  BY <1>8 DEF getIP
<1> HIDE DEF peers, ips
<1> QED
  BY <1>1, <1>3, <1>4, <1>6, <1>7, <1>8 DEF peers

\* Each node of a testnet knows all the others and not itself, at addresses
\* that differ where a starting address was given, else at the machine's own.
THEOREM PeersKnowEachOther == Spec => []PeersComplete
<1>1. TestnetInv /\ NodeKeys => PeersComplete
  <2> SUFFICES ASSUME TestnetInv, NodeKeys, NEW k \in Completed
               PROVE  LET ips == IpsIn(disk.peers[k]) IN
                      /\ IdsIn(disk.peers[k]) = OthersOf(made, k)
                      /\ Cardinality(disk.peers[k]) = n - 1
                      /\ startingIP # None /\ n <= Octets =>
                           Cardinality(ips) = n - 1 /\ calculateIP(startingIP, k) \notin ips
                      /\ startingIP = None => ips \subseteq {ExternalIP}
    BY DEF PeersComplete, IpsIn, IdsIn, OthersOf
  <2>1. k \in 0 .. n - 1 /\ pc \in {"collect", "done"}
    BY NodesOfTestnet DEF Completed, TestnetInv, TestnetType
  <2>2. disk.peers[k] = PeersOf(startingIP, made, n, k)
    BY DEF TestnetInv, GenesisFiles
  <2>3. n \in 1 .. MaxNodes /\ made \in Seq(Made) /\ Len(made) = n /\ startingIP \in Flags
    BY <2>1 DEF TestnetInv, TestnetType, Loops
  <2>4. \A j \in 1 .. n : made[j].id[2] = j - 1
    BY <2>3 DEF NodeKeys
  <2>5. LET peers == PeersOf(startingIP, made, n, k)
            ips   == IpsIn(peers)
        IN  /\ IdsIn(peers) = OthersOf(made, k)
            /\ Cardinality(peers) = n - 1
            /\ startingIP # None /\ n <= Octets =>
                 Cardinality(ips) = n - 1 /\ calculateIP(startingIP, k) \notin ips
            /\ startingIP = None => ips \subseteq {ExternalIP}
    BY <2>1, <2>3, <2>4, PeersCount
  <2> QED
    BY <2>2, <2>5
<1> QED
  BY <1>1, TestnetInductive, NodeKeysInvariant, PTL

\* A run is refused only where an earlier one had more nodes: the gentxs of
\* its own nodes are its own, and funded.
THEOREM OnlyLeftoversRefused == Spec => RefusesOnlyLeftovers
<1>1. TestnetInv /\ [Next]_vars =>
        [pc' = "refused" => \E k \in n .. MaxNodes - 1 : disk.gentx[k] # None]_vars
  <2> SUFFICES ASSUME TestnetInv, Next, pc' = "refused"
               PROVE  \E k \in n .. MaxNodes - 1 : disk.gentx[k] # None
    OBVIOUS
  <2>1. Refuse
    BY DEF Next, Start, NodeFiles, AccountKey, GenTx, initGenFiles, collectGenFiles, NextNode,
           FailAndRemove, FailAndLeave, AddGenesisAccount
  <2>2. pc = "collect" /\ \E tx \in GenTxs : ~Funded(tx, disk.genesis[i])
    BY <2>1 DEF Refuse
  <2>3. PICK k \in Nodes : disk.gentx[k] # None /\ ~Funded(disk.gentx[k], disk.genesis[i])
    BY <2>2 DEF GenTxs
  <2>4. k \notin 0 .. n - 1
    BY <2>2, <2>3, FundedAreOwn
  <2>5. k \in n .. MaxNodes - 1
    BY <2>4, NodesOfTestnet, TestnetAssumption DEF TestnetInv, Nodes
  <2> QED
    BY <2>3, <2>5
<1> QED
  BY <1>1, TestnetInductive, PTL DEF Spec, RefusesOnlyLeftovers
=============================================================================
