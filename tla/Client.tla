------------------------------- MODULE Client -------------------------------
(***************************************************************************)
(* The programs that reach the module from outside: the commands of        *)
(* client/cli, which turn the words of a user into a message or a query,   *)
(* and the REST gateway of types/query.pb.gw.go, which turns the path of a *)
(* request into a query.  Other programs may sign any message, so the      *)
(* chain takes every step of TokenFactory besides.                         *)
(*                                                                         *)
(* A command reads nothing of the module's state before it sends its       *)
(* message, so that sending and delivery are one step here: what happens   *)
(* in between is as if it had happened before.                             *)
(***************************************************************************)
EXTENDS TokenFactory, Sequences

CONSTANT TypedHalves   \* bound: the amounts of the coins users type, in halves

ASSUME ClientAssumption ==
  /\ TypedHalves \subseteq Nat
  /\ {n \div 2 : n \in TypedHalves} \subseteq Amounts
  /\ \A str \in Senders : Signed([sender |-> str]) => Canonical(str) \in Senders
  /\ \A str \in Creators : Signed([sender |-> str]) => Canonical(str) \in Creators

VARIABLES
  commanded,  \* history: the denoms created by the command
  screen      \* what was last run, on which words, and what came of it; read by no action

clientVars == <<vars, commanded, screen>>

Show(by, what, words, result) ==
  screen' = [by |-> by, what |-> what, words |-> words, result |-> result]

-----------------------------------------------------------------------------
(* Commands that send a message.  `from` is the address of the --from flag, *)
(* `args` are the words after the command's name.                           *)

\* Mutant: the message is sent in the name of the flag as it was typed.
SenderAsTyped(from) == from

\* clientCtx.GetFromAddress().String()
Sender(from) == Canonical(from)

\* GetClientTxContext finds the key of the account, and cobra.ExactArgs(1).
Runs(from, args) == Signed([sender |-> from]) /\ Len(args) = 1

\* A coin is typed as a decimal amount and a denom; the fraction is cut off.
TypedCoins == [halves : TypedHalves, denom : Denoms]

ParseCoinNormalized(word) == [amount |-> word.halves \div 2, denom |-> word.denom]

NewMsgCreateDenom(sender, subdenom) ==
  [type |-> "create_denom", sender |-> sender, subdenom |-> subdenom]

NewMsgMint(sender, coin) ==
  [type |-> "mint", sender |-> sender, denom |-> coin.denom, amount |-> coin.amount, to |-> Empty]

NewMsgBurn(sender, coin) ==
  [type |-> "burn", sender |-> sender, denom |-> coin.denom, amount |-> coin.amount, from |-> Empty]

NewMsgChangeAdmin(sender, denom, newAdmin) ==
  [type |-> "change_admin", sender |-> sender, denom |-> denom, newAdmin |-> newAdmin]

\* GenerateOrBroadcastTxWithFactory: a message that ValidateBasic refuses is
\* not sent, another is refused by its handler.
Refused(m, valid, ok) ==
  /\ ~ok
  /\ IF valid THEN Failed(m) ELSE UNCHANGED tx
  /\ UNCHANGED <<state, commanded>>

NewCreateDenomCmd(from, args) ==
  /\ Runs(from, args)
  /\ LET m == NewMsgCreateDenom(Sender(from), args[1]) IN
     \/ /\ CreateDenom(m)
        /\ commanded' = commanded \cup {<<m.sender, m.subdenom>>}
        /\ Show(from, "create-denom", args, "ok")
     \/ /\ Refused(m, ValidCreateDenom(m), CreateDenomOk(m))
        /\ Show(from, "create-denom", args, "error")

NewMintCmd(from, args) ==
  /\ Runs(from, args)
  /\ LET m == NewMsgMint(Sender(from), ParseCoinNormalized(args[1])) IN
     \/ Mint(m) /\ UNCHANGED commanded /\ Show(from, "mint", args, "ok")
     \/ Refused(m, ValidMint(m), MintOk(m)) /\ Show(from, "mint", args, "error")

NewBurnCmd(from, args) ==
  /\ Runs(from, args)
  /\ LET m == NewMsgBurn(Sender(from), ParseCoinNormalized(args[1])) IN
     \/ Burn(m) /\ UNCHANGED commanded /\ Show(from, "burn", args, "ok")
     \/ Refused(m, ValidBurn(m), BurnOk(m)) /\ Show(from, "burn", args, "error")

\* The command takes one word, as the others do, and reads a second one.
NewChangeAdminCmd(from, args) ==
  /\ Runs(from, args)
  /\ IF 2 \notin DOMAIN args
     THEN UNCHANGED <<vars, commanded>> /\ Show(from, "change-admin", args, "panic")
     ELSE LET m == NewMsgChangeAdmin(Sender(from), args[1], args[2]) IN
          \/ ChangeAdmin(m) /\ UNCHANGED commanded /\ Show(from, "change-admin", args, "ok")
          \/ Refused(m, ValidChangeAdmin(m), ChangeAdminOk(m)) /\ Show(from, "change-admin", args, "error")

\* A command that does not get as far as its message.
DoesNotRun(what, from, args) ==
  /\ ~Runs(from, args)
  /\ UNCHANGED <<vars, commanded>>
  /\ Show(from, what, args, "usage")

-----------------------------------------------------------------------------
(* Queries.                                                                 *)

\* The query server, asked for any string in place of a denom or a creator.
DenomAuthorityMetadata(str) == IF str \in Denoms THEN Admin(str) ELSE Empty
DenomsFromCreator(str)      == {e[2] : e \in {x \in creators : x[1] = str}}

GetCmdDenomAuthorityMetadata(args) ==
  /\ Len(args) = 1
  /\ Show(Empty, "denom-authority-metadata", args, DenomAuthorityMetadata(args[1]))
  /\ UNCHANGED <<vars, commanded>>

GetCmdDenomsFromCreator(args) ==
  /\ Len(args) = 1
  /\ Show(Empty, "denoms-from-creator", args, DenomsFromCreator(args[1]))
  /\ UNCHANGED <<vars, commanded>>

\* A path, after /osmosis/tokenfactory/v1beta1, is what stands between its
\* slashes; the name of a factory denom has slashes of its own.
DenomSegments(d) == IF IsFactoryDenom(d) THEN <<"factory", d[1], d[2]>> ELSE <<d>>

AuthorityPath(d) == <<"denoms">> \o DenomSegments(d) \o <<"authority_metadata">>
CreatorPath(str) == <<"denoms_from_creator", str>>
Paths == {<<"params">>} \cup {AuthorityPath(d) : d \in Denoms}
           \cup {CreatorPath(str) : str \in Strings}

\* The mux compares a path with the three patterns, segment by segment, and
\* hands the segment in the braces of the one that matches to its handler.
RestAnswer(path) ==
  CASE path = <<"params">> -> creationFee
    [] Len(path) = 3 /\ path[1] = "denoms" /\ path[3] = "authority_metadata"
         -> DenomAuthorityMetadata(path[2])
    [] Len(path) = 2 /\ path[1] = "denoms_from_creator" -> DenomsFromCreator(path[2])
    [] OTHER -> "not found"

Rest(path) ==
  /\ Show(Empty, "GET", path, RestAnswer(path))
  /\ UNCHANGED <<vars, commanded>>

-----------------------------------------------------------------------------

\* What is typed after a command's name: its words, none or one too many.
TypedArgs(words) == {<<>>} \cup {<<w>> : w \in words} \cup {<<w, w>> : w \in words}

AdminArgs == {<<d>> : d \in Denoms} \cup {<<d, StringOf[u]>> : d \in FactoryDenoms, u \in Users}

Command ==
  \/ \E from \in Creators, args \in TypedArgs(Subdenoms) :
       NewCreateDenomCmd(from, args) \/ DoesNotRun("create-denom", from, args)
  \/ \E from \in Senders, args \in TypedArgs(TypedCoins) :
       \/ NewMintCmd(from, args) \/ DoesNotRun("mint", from, args)
       \/ NewBurnCmd(from, args) \/ DoesNotRun("burn", from, args)
  \/ \E from \in Senders, args \in AdminArgs :
       NewChangeAdminCmd(from, args) \/ DoesNotRun("change-admin", from, args)

Query ==
  \/ \E args \in TypedArgs(Denoms)  : GetCmdDenomAuthorityMetadata(args)
  \/ \E args \in TypedArgs(Strings) : GetCmdDenomsFromCreator(args)
  \/ \E path \in Paths              : Rest(path)

\* A step of the chain that no command takes.
Elsewhere == Next /\ UNCHANGED commanded /\ Show(Empty, "none", <<>>, "ok")

ClientInit ==
  /\ Init
  /\ commanded = {}
  /\ screen = [by |-> Empty, what |-> "none", words |-> <<>>, result |-> "ok"]

ClientNext == Command \/ Query \/ Elsewhere

ClientSpec == ClientInit /\ [][ClientNext]_clientVars

-----------------------------------------------------------------------------
(* Properties.                                                              *)

\* Whoever creates a denom by command finds it when asking for the denoms of
\* its own address, by command and over REST, also after a restart has
\* rebuilt the index under other strings than the messages' (genesis.go:20)
\* and whatever spelling of the address was typed (tx.go:53).
ListedToCreator ==
  \A d \in commanded :
    LET own == Canonical(d[1]) IN
    d \in DenomsFromCreator(own) /\ d \in RestAnswer(CreatorPath(own))

\* The command "change-admin [denom] [new-admin-address]" (client/cli/tx.go:130)
\* "Changes the admin address for a factory-created denom" (tx.go:131) when its
\* admin types a denom and an address.
ChangeAdminCommandWorks ==
  [][ LET words == screen'.words IN
      /\ screen'.what = "change-admin" /\ Len(words) = 2
      /\ IsAddress(words[2]) /\ Sender(screen'.by) = Admin(words[1])
      => screen'.result = "ok"
    ]_clientVars

\* "DenomAuthorityMetadata defines a gRPC query method for fetching
\* DenomAuthorityMetadata for a particular denom", at
\* /denoms/{denom}/authority_metadata (proto/tokenfactory/v1beta1/query.proto:20-25).
DenomsHaveAPath ==
  \A d \in Denoms : authority[d] # NoRecord => RestAnswer(AuthorityPath(d)) = Admin(d)
=============================================================================
