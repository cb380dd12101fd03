----------------------------- MODULE Simulation -----------------------------
(***************************************************************************)
(* The generators of random messages for the SDK's simulator               *)
(* (simulation/sim_msgs.go): in a state of TokenFactory, which messages    *)
(* each of them may make, and whose key signs the transaction.             *)
(*                                                                         *)
(* Delivery is left out: the generators hand their transaction to the SDK  *)
(* without a bank keeper, which the SDK needs to choose a fee, and no      *)
(* application registers them.  The state moves as in TokenFactory.        *)
(***************************************************************************)
EXTENDS TokenFactory

CONSTANTS
  Accs,              \* the simulated accounts, whose keys the simulator has
  LongestSubdenoms,  \* what RandStringOfLength(MaxSubdenomLength) may give
  MintLimit          \* the largest amount minted, 1000_000000

ASSUME SimulationAssumption ==
  /\ Accs \subseteq Users
  /\ LongestSubdenoms \subseteq ValidSubdenoms
  /\ MintLimit \in Nat

-----------------------------------------------------------------------------
(* Choices.                                                                 *)

\* Mutant: the bound is drawn from zero on.
NonNegativeInt(max) == 0 .. max

RandPositiveInt(max) == 1 .. max

RandomSimAccountWithMinCoins ==
  {a \in Accs : \A n \in NativeDenoms : balances[n][a] >= creationFee[n]}

\* The keys of the creators store under the account's string.
gatherAllKeysFromStore(a) == {e[2] : e \in {x \in creators : x[1] = StringOf[a]}}

accountCreatedTokenFactoryDenom(a) == gatherAllKeysFromStore(a) # {}

Creating == {a \in Accs : accountCreatedTokenFactoryDenom(a)}

\* A chosen account, one of its denoms, and the account the admin decodes to;
\* a denom without an admin makes the generator return an error.
getTokenFactoryDenomAndItsAdmin ==
  UNION {{[acc |-> a, denom |-> d, addr |-> AccOf[Admin(d)]] :
            d \in {e \in gatherAllKeysFromStore(a) : IsAddress(Admin(e))}} :
           a \in Creating}

-----------------------------------------------------------------------------
(* Generators.                                                              *)

SignedBy(a, m) == [acc |-> a, msg |-> m]

SimulateMsgCreateDenom ==
  {SignedBy(a, [type |-> "create_denom", sender |-> StringOf[a], subdenom |-> s]) :
     a \in {b \in RandomSimAccountWithMinCoins : StringOf[b] \in Creators},
     s \in LongestSubdenoms}

SimulateMsgMintDenom ==
  {SignedBy(c.acc, [type |-> "mint", sender |-> StringOf[c.addr], denom |-> c.denom,
                    amount |-> n, to |-> Empty]) :
     c \in getTokenFactoryDenomAndItsAdmin, n \in RandPositiveInt(MintLimit)}

SimulateMsgBurnDenom ==
  UNION {{SignedBy(c.acc, [type |-> "burn", sender |-> StringOf[c.addr],
                           denom |-> c.denom, amount |-> n, from |-> Empty]) :
            n \in RandPositiveInt(balances[c.denom][c.addr])} :
           c \in getTokenFactoryDenomAndItsAdmin}

SimulateMsgChangeAdmin ==
  UNION {{SignedBy(c.acc, [type |-> "change_admin", sender |-> StringOf[c.addr],
                           denom |-> c.denom, newAdmin |-> StringOf[a]]) :
            a \in Accs \ {c.addr}} :
           c \in getTokenFactoryDenomAndItsAdmin}

-----------------------------------------------------------------------------
(* Properties.                                                              *)

\* The message is signed by its sender, and the admin of its denom is spelled
\* as the simulator spells every address.
Deliverable(t) ==
  /\ t.acc = AccOf[t.msg.sender]
  /\ Admin(t.msg.denom) = Canonical(Admin(t.msg.denom))

\* The simulator stops at the first message that is refused, so a message
\* signed by its sender must pass its handler: accounts can pay the fee they
\* were chosen for (sim_msgs.go:239), a denom found in the index can be minted,
\* burnt and handed over by the admin found for it (sim_msgs.go:281).  What the
\* generators do not look at: whether a random name is taken, and the largest
\* integer.
SignedMessagesPass ==
  /\ \A t \in SimulateMsgCreateDenom : validateCreateDenom(t.msg) => CreateDenomOk(t.msg)
  /\ \A t \in SimulateMsgMintDenom :
       Deliverable(t) /\ supply[t.msg.denom] + t.msg.amount <= MaxInt => MintOk(t.msg)
  /\ \A t \in SimulateMsgBurnDenom : Deliverable(t) => BurnOk(t.msg)
  /\ \A t \in SimulateMsgChangeAdmin : Deliverable(t) => ChangeAdminOk(t.msg)
=============================================================================
