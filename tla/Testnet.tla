------------------------------- MODULE Testnet -------------------------------
(***************************************************************************)
(* The genesis files that simd prepares: `testnet` sets up the directories *)
(* of several nodes (cmd/testnet.go), `add-genesis-account` adds an        *)
(* account to the genesis of one (cmd/genaccounts.go).                     *)
(*                                                                         *)
(* The command runs again over what earlier runs left in the output        *)
(* directory.  Any step may fail, for an error of the file system or       *)
(* because the process is killed; some errors remove the whole directory,  *)
(* others leave what is there.                                             *)
(***************************************************************************)
EXTENDS Integers, Sequences, FiniteSets, Functions

CONSTANTS
  MaxNodes,     \* bound: validators of a testnet
  MaxRuns,      \* bound: how often `testnet` is run
  Octets,       \* values of the last byte of an IP address, 256
  StartingIPs,  \* bound: starting IP addresses, each known by that byte
  ExternalIP,   \* the address of the machine that the command runs on
  CoinDenoms,   \* the staking denom and others
  Stake,        \* sdk.DefaultBondDenom
  NodeCoins,    \* the coins each validator's account starts with ...
  Delegation,   \* ... and those of the staking denom that it delegates
  Newcomers,    \* bound: addresses that accounts are added for
  MaxAdded,     \* bound: how many of them are in the genesis files at a time
  Purses,       \* bound: the coins typed for them
  StartTimes,   \* bound: times that vesting starts and ends, 0 when the flag
  EndTimes,     \* is not given
  None          \* no such file, a flag left empty

Nodes == 0 .. MaxNodes - 1
Coins == [CoinDenoms -> Nat]

Keys  == Nat \X Nat   \* the run that made a key, or an address, and its node
Addrs == Keys \cup Newcomers

GenTxRecords  == [addr : Keys, moniker : Nodes, memo : [id : Keys, ip : Nat]]
GenesisStates == [accounts : SUBSET [addr : Addrs, vesting : Coins, start : Nat, end : Nat],
                  balances : SUBSET [addr : Addrs, coins : Coins],
                  supply   : Coins,
                  gentxs   : SUBSET GenTxRecords]

ASSUME TestnetAssumption ==
  /\ MaxNodes \in Nat \ {0} /\ MaxRuns \in Nat /\ MaxAdded \in Nat
  /\ Octets \in Nat \ {0} /\ StartingIPs \subseteq 0 .. Octets - 1 /\ ExternalIP \in Nat
  /\ NodeCoins \in Coins /\ Purses \subseteq Coins
  /\ Stake \in CoinDenoms /\ Delegation \in 0 .. NodeCoins[Stake]
  /\ 0 \in StartTimes /\ StartTimes \subseteq Nat
  /\ 0 \in EndTimes /\ EndTimes \subseteq Nat
  /\ None \notin StartingIPs
  /\ None \notin Keys /\ None \notin GenTxRecords /\ None \notin GenesisStates

VARIABLES
  disk,       \* the output directory: per node its key, gentx, genesis and peers
  pc,         \* what the command does next, or how it ended
  run,        \* how often the command was started; names the chain and the keys made
  n,          \* numValidators
  startingIP, \* startingIPAddress
  i,          \* the node of the loop
  made,       \* the loop's nodeIDs and genBalances: the ID and address of each node
  appState    \* collectGenFiles: the canonical state, once there is one

vars == <<disk, pc, run, n, startingIP, i, made, appState>>

-----------------------------------------------------------------------------
(* Coins and genesis states.                                                *)

NoCoins    == [d \in CoinDenoms |-> 0]
Plus(c, e) == [d \in CoinDenoms |-> c[d] + e[d]]

\* Coins.IsAnyGT passes over the denoms that e does not hold.
IsAnyGT(c, e) == \E d \in CoinDenoms : e[d] > 0 /\ c[d] > e[d]

Total(balances) == [d \in CoinDenoms |-> SumFunction([b \in balances |-> b.coins[d]])]

\* A base account vests nothing.
BaseAccount(addr) == [addr |-> addr, vesting |-> NoCoins, start |-> 0, end |-> 0]

\* Mutant: the last node's account is left out.
AllButLast(nodes) ==
  LET balances == {[addr |-> nodes[k].addr, coins |-> NodeCoins] : k \in 1 .. Len(nodes) - 1}
  IN [accounts |-> {BaseAccount(nodes[k].addr) : k \in 1 .. Len(nodes) - 1},
      balances |-> balances, supply |-> Total(balances), gentxs |-> {}]

\* What initGenFiles puts into the genesis of every node.
InitialGenesis(nodes) ==
  LET balances == {[addr |-> node.addr, coins |-> NodeCoins] : node \in Range(nodes)}
  IN [accounts |-> {BaseAccount(node.addr) : node \in Range(nodes)},
      balances |-> balances, supply |-> Total(balances), gentxs |-> {}]

-----------------------------------------------------------------------------
(* testnet.                                                                 *)

EmptyDir == [nodeKey |-> [k \in Nodes |-> None], gentx |-> [k \in Nodes |-> None],
             genesis |-> [k \in Nodes |-> None], peers |-> [k \in Nodes |-> {}]]

Ended == pc \in {"idle", "done", "failed", "refused"}

Start(nodes, ip) ==
  /\ Ended /\ run < MaxRuns
  /\ run' = run + 1 /\ n' = nodes /\ startingIP' = ip /\ i' = 0
  /\ made' = <<>> /\ appState' = None
  /\ pc' = "node_files"
  /\ UNCHANGED disk

\* The loop goes on with the next node, or the command with what follows it.
NextNode(body, after) ==
  /\ i' = (i + 1) % n
  /\ pc' = IF i + 1 < n THEN body ELSE after

\* Mutant: the address stops at the last value of a byte.
StopAtLast(ip, k) == IF ip + k < Octets THEN ip + k ELSE Octets - 1

\* calculateIP increments a byte, which wraps.
calculateIP(ip, k) == (ip + k) % Octets

\* Without a starting address every node gets the machine's own.
getIP(k, ip) == IF ip = None THEN ExternalIP ELSE calculateIP(ip, k)

\* MkdirAll, getIP (its error is in FailAndRemove, its result in the gentx) and
\* InitializeNodeValidatorFiles, which keeps an existing key.
NodeFiles ==
  /\ pc = "node_files"
  /\ disk' = [disk EXCEPT !.nodeKey[i] = IF @ = None THEN <<run, i>> ELSE @]
  /\ pc' = "account_key"
  /\ UNCHANGED <<run, n, startingIP, i, made, appState>>

\* GenerateSaveCoinKey makes a new key, also over an existing one.
AccountKey ==
  /\ pc = "account_key"
  /\ made' = Append(made, [id |-> disk.nodeKey[i], addr |-> <<run, i>>])
  /\ pc' = "gentx"
  /\ UNCHANGED <<disk, run, n, startingIP, i, appState>>

\* Mutant: all nodes write one file.
OneFile(k) == 0

GenTxFile(k) == k

\* The signed MsgCreateValidator, its memo being the node's ID and address.
GenTx ==
  /\ pc = "gentx"
  /\ disk' = [disk EXCEPT !.gentx[GenTxFile(i)] =
                [addr |-> made[i + 1].addr, moniker |-> i,
                 memo |-> [id |-> made[i + 1].id, ip |-> getIP(i, startingIP)]]]
  /\ NextNode("node_files", "init_genesis")
  /\ UNCHANGED <<run, n, startingIP, made, appState>>

initGenFiles ==
  /\ pc = "init_genesis"
  /\ disk' = [disk EXCEPT !.genesis[i] = InitialGenesis(made)]
  /\ NextNode("init_genesis", "collect")
  /\ UNCHANGED <<run, n, startingIP, made, appState>>

\* Every file in the directory of gentxs, also those of earlier runs.
GenTxs == {disk.gentx[k] : k \in Nodes} \ {None}

\* genutil's CollectTxs: the delegator holds what it delegates.
Funded(tx, g) ==
  \E b \in g.balances : b.addr = tx.addr /\ b.coins[Stake] >= Delegation

collectGenFiles ==
  /\ pc = "collect"
  /\ \A tx \in GenTxs : Funded(tx, disk.genesis[i])
  /\ LET nodeAppState == [disk.genesis[i] EXCEPT !.gentxs = GenTxs]
         canonical    == IF appState = None THEN nodeAppState ELSE appState
     IN /\ appState' = canonical
        /\ disk' = [disk EXCEPT
                      !.genesis[i] = canonical,
                      !.peers[i] = {tx.memo : tx \in {t \in GenTxs : t.moniker # i}}]
  /\ NextNode("collect", "done")
  /\ UNCHANGED <<run, n, startingIP, made>>

\* What the process held is gone with it.
Forgets == startingIP' = None /\ i' = 0 /\ made' = <<>> /\ appState' = None

\* genutil refuses a gentx of an account that the genesis does not list.
Refuse ==
  /\ pc = "collect"
  /\ \E tx \in GenTxs : ~Funded(tx, disk.genesis[i])
  /\ pc' = "refused"
  /\ UNCHANGED <<disk, run, n>>
  /\ Forgets

\* The errors of the node's files, and of generating its account key, remove
\* the output directory, what earlier runs left there included.
FailAndRemove ==
  /\ pc \in {"node_files", "account_key"}
  /\ pc' = "failed"
  /\ disk' = EmptyDir
  /\ UNCHANGED <<run, n>>
  /\ Forgets

\* The other errors, or a killed process, remove nothing.
FailAndLeave ==
  /\ ~Ended
  /\ pc' = "failed"
  /\ UNCHANGED <<disk, run, n>>
  /\ Forgets

-----------------------------------------------------------------------------
(* add-genesis-account.                                                     *)

\* Vesting is within the balance, as far as IsAnyGT looks, and the times give
\* a continuous account that starts before it ends, or a delayed one.
ValidVesting(coins, vesting, start, end) ==
  vesting # NoCoins =>
    /\ coins # NoCoins /\ ~IsAnyGT(vesting, coins)
    /\ end # 0
    /\ start # 0 => start < end

\* Mutant: the supply is left for the chain to find out.
LeaveSupply(g, account, coins) ==
  [g EXCEPT !.accounts = @ \cup {account},
            !.balances = @ \cup {[addr |-> account.addr, coins |-> coins]}]

WithAccount(g, account, coins) ==
  [g EXCEPT !.accounts = @ \cup {account},
            !.balances = @ \cup {[addr |-> account.addr, coins |-> coins]},
            !.supply   = Plus(@, coins)]

\* What has been added to the genesis files of the nodes, for the bound.
Added == {e \in Nodes \X Newcomers :
            LET g == disk.genesis[e[1]] IN g # None /\ \E a \in g.accounts : a.addr = e[2]}

\* The genesis of one node is edited; the command refuses an address that an
\* account is listed for.
AddGenesisAccount(node, addr, coins, vesting, start, end) ==
  LET g       == disk.genesis[node]
      account == IF vesting = NoCoins THEN BaseAccount(addr)
                 ELSE [addr |-> addr, vesting |-> vesting, start |-> start, end |-> end]
  IN
  /\ Ended /\ g # None /\ Cardinality(Added) < MaxAdded
  /\ ValidVesting(coins, vesting, start, end)
  /\ \A a \in g.accounts : a.addr # addr
  /\ disk' = [disk EXCEPT !.genesis[node] = WithAccount(g, account, coins)]
  /\ pc' = "idle"
  /\ UNCHANGED <<run, n>>
  /\ Forgets

-----------------------------------------------------------------------------

Init ==
  /\ disk = EmptyDir
  /\ pc = "idle"
  /\ run = 0 /\ n = 1 /\ startingIP = None /\ i = 0 /\ made = <<>> /\ appState = None

Next ==
  \/ \E nodes \in 1 .. MaxNodes, ip \in StartingIPs \cup {None} : Start(nodes, ip)
  \/ NodeFiles \/ AccountKey \/ GenTx \/ initGenFiles \/ collectGenFiles
  \/ Refuse \/ FailAndRemove \/ FailAndLeave
  \/ \E node \in Nodes, addr \in Newcomers, coins, vesting \in Purses,
        start \in StartTimes, end \in EndTimes :
       AddGenesisAccount(node, addr, coins, vesting, start, end)

Spec == Init /\ [][Next]_vars

-----------------------------------------------------------------------------
(* Properties.                                                              *)

\* What genutil and the bank ask of a genesis: the supply is the sum of the
\* balances, an address is listed once, gentxs are funded, and no account
\* vests more than it holds of a denom that it holds at all.
Sound(g) ==
  /\ g.supply = Total(g.balances)
  /\ \A a, b \in g.accounts : a.addr = b.addr => a = b
  /\ {a.addr : a \in g.accounts} = {b.addr : b \in g.balances}
  /\ \A tx \in g.gentxs : Funded(tx, g)
  /\ \A a \in g.accounts, b \in g.balances :
       a.addr = b.addr =>
         \A d \in CoinDenoms : b.coins[d] > 0 => a.vesting[d] <= b.coins[d]

\* Every genesis file on the disk can start a bank, after any number of runs,
\* failures and added accounts (genaccounts.go:153, testnet.go:293).
GenesisSound ==
  \A g \in {disk.genesis[k] : k \in Nodes} \ {None} : Sound(g)

\* The nodes whose genesis this run has completed.
Completed == CASE pc = "done" -> 0 .. n - 1 [] pc = "collect" -> 0 .. i - 1 [] OTHER -> {}

\* All nodes of a testnet start from one genesis, with one gentx for each of
\* them and none that an earlier run left in the directory (testnet.go:346).
OneGenesis ==
  \A k \in Completed :
    /\ disk.genesis[k] = disk.genesis[0]
    /\ {tx.addr : tx \in disk.genesis[k].gentxs} = {made[j].addr : j \in DOMAIN made}
    /\ Cardinality(disk.genesis[k].gentxs) = n

\* Each node of a testnet knows all the others and not itself, although node IDs
\* may be older than the run.  With a starting address, and as long as there are
\* enough of them, all addresses differ (testnet.go:380); without one all peers
\* are at the machine's own and differ by their IDs alone (testnet.go:363).
PeersComplete ==
  \A k \in Completed :
    LET ips == {peer.ip : peer \in disk.peers[k]} IN
    /\ {peer.id : peer \in disk.peers[k]} = {made[j].id : j \in DOMAIN made \ {k + 1}}
    /\ Cardinality(disk.peers[k]) = n - 1
    /\ startingIP # None /\ n <= Octets =>
         Cardinality(ips) = n - 1 /\ calculateIP(startingIP, k) \notin ips
    /\ startingIP = None => ips \subseteq {ExternalIP}

\* A run meets a gentx it cannot use only where an earlier run had more nodes:
\* those of its own nodes it has replaced, also after a run that failed.
RefusesOnlyLeftovers ==
  [][ pc' = "refused" => \E k \in n .. MaxNodes - 1 : disk.gentx[k] # None ]_vars
=============================================================================
