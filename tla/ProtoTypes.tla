----------------------------- MODULE ProtoTypes -----------------------------
(***************************************************************************)
(* The messages of types/*.pb.go: for each its zero value, the pieces      *)
(* MarshalToSizedBuffer writes, in the order it writes them, last field    *)
(* first; what Size adds up; and the cases of Unmarshal, by field number.  *)
(* The four are separate code in the source, and nothing but their         *)
(* agreement makes what is written readable.                               *)
(*                                                                         *)
(* Coins and bank metadata are the SDK's: a coin always writes its amount, *)
(* of which zero is written as the digit 0; metadata is taken to be its    *)
(* base and its display name.                                              *)
(***************************************************************************)
EXTENDS Wire

\* A case of Unmarshal: the field it sets, and how: a string or a number
\* replaces it, a message is read into the one there, and the repeated kinds
\* append.
Str(name)               == [kind |-> "text", name |-> name, type |-> "string", wire |-> 2]
Strs(name)              == [kind |-> "texts", name |-> name, type |-> "string", wire |-> 2]
Uint(name)              == [kind |-> "number", name |-> name, type |-> "uint64", wire |-> 0]
Embedded(name, type)    == [kind |-> "message", name |-> name, type |-> type, wire |-> 2]
Repeated(name, type)    == [kind |-> "messages", name |-> name, type |-> type, wire |-> 2]

-----------------------------------------------------------------------------
(* The SDK's types.                                                         *)

Zero              == <<48>>
Coin              == [denom |-> <<>>, amount |-> Zero]
MarshalCoin(c)    == Backwards(<<Field(18, c.amount), Text(10, c.denom)>>)
SizeCoin(c)       == TextSize(c.denom) + FieldSize(Len(c.amount))
CoinCases         == <<Str("denom"), Str("amount")>>

Metadata            == [base |-> <<>>, display |-> <<>>]
MarshalMetadata(md) == Backwards(<<Text(34, md.display), Text(26, md.base)>>)
SizeMetadata(md)    == TextSize(md.base) + TextSize(md.display)
MetadataCases       == [n \in {3, 4} |-> IF n = 3 THEN Str("base") ELSE Str("display")]

-----------------------------------------------------------------------------
(* authorityMetadata.pb.go, params.pb.go, genesis.pb.go.                     *)

DenomAuthorityMetadata           == [admin |-> <<>>]
MarshalDenomAuthorityMetadata(m) == Text(10, m.admin)
SizeDenomAuthorityMetadata(m)    == TextSize(m.admin)
DenomAuthorityMetadataCases      == <<Str("admin")>>

Params == [denomCreationFee |-> <<>>, denomCreationGasConsume |-> 0]
MarshalParams(m) ==
  Backwards(<<Number(16, m.denomCreationGasConsume),
              Each(10, [i \in DOMAIN m.denomCreationFee |-> MarshalCoin(m.denomCreationFee[i])])>>)
SizeParams(m) ==
  EachSize([i \in DOMAIN m.denomCreationFee |-> SizeCoin(m.denomCreationFee[i])])
    + NumberSize(m.denomCreationGasConsume)
ParamsCases == <<Repeated("denomCreationFee", "Coin"), Uint("denomCreationGasConsume")>>

GenesisDenom == [denom |-> <<>>, authorityMetadata |-> DenomAuthorityMetadata]
MarshalGenesisDenom(m) ==
  Backwards(<<Field(18, MarshalDenomAuthorityMetadata(m.authorityMetadata)), Text(10, m.denom)>>)
SizeGenesisDenom(m) ==
  TextSize(m.denom) + FieldSize(SizeDenomAuthorityMetadata(m.authorityMetadata))
GenesisDenomCases == <<Str("denom"), Embedded("authorityMetadata", "DenomAuthorityMetadata")>>

GenesisState == [params |-> Params, factoryDenoms |-> <<>>]
MarshalGenesisState(m) ==
  Backwards(<<Each(18, [i \in DOMAIN m.factoryDenoms |-> MarshalGenesisDenom(m.factoryDenoms[i])]),
              Field(10, MarshalParams(m.params))>>)
SizeGenesisState(m) ==
  FieldSize(SizeParams(m.params))
    + EachSize([i \in DOMAIN m.factoryDenoms |-> SizeGenesisDenom(m.factoryDenoms[i])])
GenesisStateCases == <<Embedded("params", "Params"), Repeated("factoryDenoms", "GenesisDenom")>>

-----------------------------------------------------------------------------
(* tx.pb.go.                                                                 *)

MsgCreateDenom           == [sender |-> <<>>, subdenom |-> <<>>]
MarshalMsgCreateDenom(m) == Backwards(<<Text(18, m.subdenom), Text(10, m.sender)>>)
SizeMsgCreateDenom(m)    == TextSize(m.sender) + TextSize(m.subdenom)
MsgCreateDenomCases      == <<Str("sender"), Str("subdenom")>>

MsgCreateDenomResponse           == [newTokenDenom |-> <<>>]
MarshalMsgCreateDenomResponse(m) == Text(10, m.newTokenDenom)
SizeMsgCreateDenomResponse(m)    == TextSize(m.newTokenDenom)
MsgCreateDenomResponseCases      == <<Str("newTokenDenom")>>

MsgMint == [sender |-> <<>>, amount |-> Coin, mintToAddress |-> <<>>]
MarshalMsgMint(m) ==
  Backwards(<<Text(26, m.mintToAddress), Field(18, MarshalCoin(m.amount)), Text(10, m.sender)>>)
SizeMsgMint(m) ==
  TextSize(m.sender) + FieldSize(SizeCoin(m.amount)) + TextSize(m.mintToAddress)
MsgMintCases == <<Str("sender"), Embedded("amount", "Coin"), Str("mintToAddress")>>

MsgBurn == [sender |-> <<>>, amount |-> Coin, burnFromAddress |-> <<>>]
MarshalMsgBurn(m) ==
  Backwards(<<Text(26, m.burnFromAddress), Field(18, MarshalCoin(m.amount)), Text(10, m.sender)>>)
SizeMsgBurn(m) ==
  TextSize(m.sender) + FieldSize(SizeCoin(m.amount)) + TextSize(m.burnFromAddress)
MsgBurnCases == <<Str("sender"), Embedded("amount", "Coin"), Str("burnFromAddress")>>

MsgChangeAdmin == [sender |-> <<>>, denom |-> <<>>, newAdmin |-> <<>>]
MarshalMsgChangeAdmin(m) ==
  Backwards(<<Text(26, m.newAdmin), Text(18, m.denom), Text(10, m.sender)>>)
SizeMsgChangeAdmin(m) == TextSize(m.sender) + TextSize(m.denom) + TextSize(m.newAdmin)
MsgChangeAdminCases   == <<Str("sender"), Str("denom"), Str("newAdmin")>>

MsgSetDenomMetadata == [sender |-> <<>>, metadata |-> Metadata]
MarshalMsgSetDenomMetadata(m) ==
  Backwards(<<Field(18, MarshalMetadata(m.metadata)), Text(10, m.sender)>>)
SizeMsgSetDenomMetadata(m) == TextSize(m.sender) + FieldSize(SizeMetadata(m.metadata))
MsgSetDenomMetadataCases   == <<Str("sender"), Embedded("metadata", "Metadata")>>

MsgForceTransfer ==
  [sender |-> <<>>, amount |-> Coin, transferFromAddress |-> <<>>, transferToAddress |-> <<>>]

\* Mutant: the writer has the two addresses the wrong way round.
MarshalSwapped(m) ==
  Backwards(<<Text(26, m.transferToAddress), Text(34, m.transferFromAddress),
              Field(18, MarshalCoin(m.amount)), Text(10, m.sender)>>)

MarshalMsgForceTransfer(m) ==
  Backwards(<<Text(34, m.transferToAddress), Text(26, m.transferFromAddress),
              Field(18, MarshalCoin(m.amount)), Text(10, m.sender)>>)
SizeMsgForceTransfer(m) ==
  TextSize(m.sender) + FieldSize(SizeCoin(m.amount)) + TextSize(m.transferFromAddress)
    + TextSize(m.transferToAddress)
MsgForceTransferCases ==
  <<Str("sender"), Embedded("amount", "Coin"), Str("transferFromAddress"), Str("transferToAddress")>>

-----------------------------------------------------------------------------
(* query.pb.go.                                                              *)

QueryParamsResponse           == [params |-> Params]
MarshalQueryParamsResponse(m) == Field(10, MarshalParams(m.params))
SizeQueryParamsResponse(m)    == FieldSize(SizeParams(m.params))
QueryParamsResponseCases      == <<Embedded("params", "Params")>>

QueryDenomAuthorityMetadataRequest           == [denom |-> <<>>]
MarshalQueryDenomAuthorityMetadataRequest(m) == Text(10, m.denom)
SizeQueryDenomAuthorityMetadataRequest(m)    == TextSize(m.denom)
QueryDenomAuthorityMetadataRequestCases      == <<Str("denom")>>

QueryDenomAuthorityMetadataResponse == [authorityMetadata |-> DenomAuthorityMetadata]
MarshalQueryDenomAuthorityMetadataResponse(m) ==
  Field(10, MarshalDenomAuthorityMetadata(m.authorityMetadata))
SizeQueryDenomAuthorityMetadataResponse(m) ==
  FieldSize(SizeDenomAuthorityMetadata(m.authorityMetadata))
QueryDenomAuthorityMetadataResponseCases ==
  <<Embedded("authorityMetadata", "DenomAuthorityMetadata")>>

QueryDenomsFromCreatorRequest           == [creator |-> <<>>]
MarshalQueryDenomsFromCreatorRequest(m) == Text(10, m.creator)
SizeQueryDenomsFromCreatorRequest(m)    == TextSize(m.creator)
QueryDenomsFromCreatorRequestCases      == <<Str("creator")>>

QueryDenomsFromCreatorResponse           == [denoms |-> <<>>]
MarshalQueryDenomsFromCreatorResponse(m) == Each(10, m.denoms)
SizeQueryDenomsFromCreatorResponse(m)    == EachSize([i \in DOMAIN m.denoms |-> Len(m.denoms[i])])
QueryDenomsFromCreatorResponseCases      == <<Strs("denoms")>>

-----------------------------------------------------------------------------
(* The messages without fields: QueryParamsRequest and the responses to     *)
(* mint, burn, change admin, set metadata and forced transfer.  They have    *)
(* one value, write nothing, and know no field they read.                    *)

Nothing        == [none |-> <<>>]
MarshalNothing == <<>>
SizeNothing    == 0

MsgMintResponseCases             == <<>>
MsgBurnResponseCases             == <<>>
MsgChangeAdminResponseCases      == <<>>
MsgSetDenomMetadataResponseCases == <<>>
MsgForceTransferResponseCases    == <<>>
QueryParamsRequestCases          == <<>>

-----------------------------------------------------------------------------
(* The type behind a name.                                                   *)

Types ==
  [Coin |-> Coin, Metadata |-> Metadata,
   DenomAuthorityMetadata |-> DenomAuthorityMetadata, Params |-> Params,
   GenesisDenom |-> GenesisDenom, GenesisState |-> GenesisState,
   MsgCreateDenom |-> MsgCreateDenom, MsgCreateDenomResponse |-> MsgCreateDenomResponse,
   MsgMint |-> MsgMint, MsgMintResponse |-> Nothing,
   MsgBurn |-> MsgBurn, MsgBurnResponse |-> Nothing,
   MsgChangeAdmin |-> MsgChangeAdmin, MsgChangeAdminResponse |-> Nothing,
   MsgSetDenomMetadata |-> MsgSetDenomMetadata, MsgSetDenomMetadataResponse |-> Nothing,
   MsgForceTransfer |-> MsgForceTransfer, MsgForceTransferResponse |-> Nothing,
   QueryParamsRequest |-> Nothing, QueryParamsResponse |-> QueryParamsResponse,
   QueryDenomAuthorityMetadataRequest |-> QueryDenomAuthorityMetadataRequest,
   QueryDenomAuthorityMetadataResponse |-> QueryDenomAuthorityMetadataResponse,
   QueryDenomsFromCreatorRequest |-> QueryDenomsFromCreatorRequest,
   QueryDenomsFromCreatorResponse |-> QueryDenomsFromCreatorResponse]

Cases ==
  [Coin |-> CoinCases, Metadata |-> MetadataCases,
   DenomAuthorityMetadata |-> DenomAuthorityMetadataCases, Params |-> ParamsCases,
   GenesisDenom |-> GenesisDenomCases, GenesisState |-> GenesisStateCases,
   MsgCreateDenom |-> MsgCreateDenomCases,
   MsgCreateDenomResponse |-> MsgCreateDenomResponseCases,
   MsgMint |-> MsgMintCases, MsgMintResponse |-> MsgMintResponseCases,
   MsgBurn |-> MsgBurnCases, MsgBurnResponse |-> MsgBurnResponseCases,
   MsgChangeAdmin |-> MsgChangeAdminCases,
   MsgChangeAdminResponse |-> MsgChangeAdminResponseCases,
   MsgSetDenomMetadata |-> MsgSetDenomMetadataCases,
   MsgSetDenomMetadataResponse |-> MsgSetDenomMetadataResponseCases,
   MsgForceTransfer |-> MsgForceTransferCases,
   MsgForceTransferResponse |-> MsgForceTransferResponseCases,
   QueryParamsRequest |-> QueryParamsRequestCases,
   QueryParamsResponse |-> QueryParamsResponseCases,
   QueryDenomAuthorityMetadataRequest |-> QueryDenomAuthorityMetadataRequestCases,
   QueryDenomAuthorityMetadataResponse |-> QueryDenomAuthorityMetadataResponseCases,
   QueryDenomsFromCreatorRequest |-> QueryDenomsFromCreatorRequestCases,
   QueryDenomsFromCreatorResponse |-> QueryDenomsFromCreatorResponseCases]
=============================================================================
