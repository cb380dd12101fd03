------------------------------- MODULE Codec --------------------------------
(***************************************************************************)
(* A message on its way: it is marshalled, its bytes may be changed as     *)
(* other writers of the format or a broken store would change them, and    *)
(* they are unmarshalled field by field, an embedded message in a frame of *)
(* its own.  The types, their writers and readers are in ProtoTypes.       *)
(***************************************************************************)
EXTENDS ProtoTypes

CONSTANTS
  Strings,        \* bound: the strings in messages, as sequences of bytes
  Coins,          \* bound: the coins
  Metadatas,      \* bound: the bank metadata
  Lists,          \* bound: how many entries a repeated field has
  Gas,            \* bound: the values of DenomCreationGasConsume
  ListedDenoms,   \* bound: the denoms of a genesis
  UnknownFields,  \* bound: fields that no type here has
  Damages,        \* bound: what a damaged byte turns into, as sequences of bytes
  MaxChanged      \* bound: the longest bytes that are cut or damaged

\* A field that no type here has, and that can be passed over.
IsUnknown(u) ==
  LET tag == Varint(u, 0) IN
  /\ u \in Seq(Byte) /\ Len(u) < MaxLength
  /\ tag.ok /\ WireType(tag.value) # 4 /\ FieldNum(tag.value) > 0
  /\ \A type \in DOMAIN Cases : FieldNum(tag.value) \notin DOMAIN Cases[type]
  /\ skip(u) = [ok |-> TRUE, n |-> Len(u)]

ASSUME CodecAssumption ==
  /\ Strings \subseteq Seq(Byte)
  /\ Coins \subseteq [denom : Seq(Byte), amount : Seq(Byte)]
  /\ Metadatas \subseteq [base : Seq(Byte), display : Seq(Byte)]
  /\ Lists \subseteq Nat
  /\ Gas \subseteq 0 .. Word - 1
  /\ ListedDenoms \subseteq [denom : Seq(Byte), authorityMetadata : [admin : Seq(Byte)]]
  /\ \A u \in UnknownFields : IsUnknown(u)
  /\ Damages \subseteq Seq(Byte)
  /\ MaxChanged \in Nat

VARIABLES
  sent,    \* the type and value of the message
  data,    \* its bytes
  change,  \* what happened to the bytes: nothing, or one change
  status,  \* "writing", "sent", "reading", "read", "refused" or "panic"
  frames   \* the calls of Unmarshal under way, the innermost last

vars == <<sent, data, change, status, frames>>

-----------------------------------------------------------------------------
(* Values.                                                                  *)

ListsOf(S) == UNION {[1 .. n -> S] : n \in Lists}

AuthorityMetadatas == [admin : Strings]
ParamsValues  == [denomCreationFee : ListsOf(Coins), denomCreationGasConsume : Gas]
GenesisDenoms == [denom : Strings, authorityMetadata : AuthorityMetadatas]
GenesisStates == [params : ParamsValues, factoryDenoms : ListsOf(ListedDenoms)]

-----------------------------------------------------------------------------
(* Marshal.                                                                 *)

\* The buffer that make([]byte, size) gives has a length that is an int.
Written(type, m, bytes, size) ==
  /\ Len(bytes) < MaxLength
  /\ sent' = [type |-> type, value |-> m]
  /\ IF Fits(bytes, size)
     THEN status' = "sent" /\ data' = Buffered(bytes, size)
     ELSE status' = "panic" /\ data' = <<>>
  /\ UNCHANGED <<change, frames>>

WriteStored ==
  \/ \E m \in AuthorityMetadatas :
       Written("DenomAuthorityMetadata", m, MarshalDenomAuthorityMetadata(m), SizeDenomAuthorityMetadata(m))
  \/ \E m \in ParamsValues  : Written("Params", m, MarshalParams(m), SizeParams(m))
  \/ \E m \in GenesisDenoms : Written("GenesisDenom", m, MarshalGenesisDenom(m), SizeGenesisDenom(m))
  \/ \E m \in GenesisStates : Written("GenesisState", m, MarshalGenesisState(m), SizeGenesisState(m))

WriteMsg ==
  \/ \E m \in [sender : Strings, subdenom : Strings] :
       Written("MsgCreateDenom", m, MarshalMsgCreateDenom(m), SizeMsgCreateDenom(m))
  \/ \E m \in [sender : Strings, amount : Coins, mintToAddress : Strings] :
       Written("MsgMint", m, MarshalMsgMint(m), SizeMsgMint(m))
  \/ \E m \in [sender : Strings, amount : Coins, burnFromAddress : Strings] :
       Written("MsgBurn", m, MarshalMsgBurn(m), SizeMsgBurn(m))
  \/ \E m \in [sender : Strings, denom : Strings, newAdmin : Strings] :
       Written("MsgChangeAdmin", m, MarshalMsgChangeAdmin(m), SizeMsgChangeAdmin(m))
  \/ \E m \in [sender : Strings, metadata : Metadatas] :
       Written("MsgSetDenomMetadata", m, MarshalMsgSetDenomMetadata(m), SizeMsgSetDenomMetadata(m))
  \/ \E m \in [sender : Strings, amount : Coins, transferFromAddress : Strings,
               transferToAddress : Strings] :
       Written("MsgForceTransfer", m, MarshalMsgForceTransfer(m), SizeMsgForceTransfer(m))

WriteResponse ==
  \/ \E m \in [newTokenDenom : Strings] :
       Written("MsgCreateDenomResponse", m, MarshalMsgCreateDenomResponse(m),
               SizeMsgCreateDenomResponse(m))
  \/ \E type \in {"MsgMintResponse", "MsgBurnResponse", "MsgChangeAdminResponse",
                  "MsgSetDenomMetadataResponse", "MsgForceTransferResponse", "QueryParamsRequest"} :
       Written(type, Nothing, MarshalNothing, SizeNothing)

WriteQuery ==
  \/ \E m \in [params : ParamsValues] :
       Written("QueryParamsResponse", m, MarshalQueryParamsResponse(m), SizeQueryParamsResponse(m))
  \/ \E m \in [denom : Strings] :
       Written("QueryDenomAuthorityMetadataRequest", m,
               MarshalQueryDenomAuthorityMetadataRequest(m), SizeQueryDenomAuthorityMetadataRequest(m))
  \/ \E m \in [authorityMetadata : AuthorityMetadatas] :
       Written("QueryDenomAuthorityMetadataResponse", m,
               MarshalQueryDenomAuthorityMetadataResponse(m),
               SizeQueryDenomAuthorityMetadataResponse(m))
  \/ \E m \in [creator : Strings] :
       Written("QueryDenomsFromCreatorRequest", m,
               MarshalQueryDenomsFromCreatorRequest(m), SizeQueryDenomsFromCreatorRequest(m))
  \/ \E m \in [denoms : ListsOf(Strings)] :
       Written("QueryDenomsFromCreatorResponse", m,
               MarshalQueryDenomsFromCreatorResponse(m), SizeQueryDenomsFromCreatorResponse(m))

Write == status = "writing" /\ (WriteStored \/ WriteMsg \/ WriteResponse \/ WriteQuery)

-----------------------------------------------------------------------------
(* What others do to the bytes.                                             *)

Changed(kind, bytes) ==
  /\ status = "sent" /\ change = "none"
  /\ Len(bytes) < MaxLength
  /\ change' = kind
  /\ data' = bytes
  /\ UNCHANGED <<sent, status, frames>>

\* A writer that knows more fields adds one, before or after the others.
AddUnknown == \E u \in UnknownFields : Changed("unknown", u \o data) \/ Changed("unknown", data \o u)

\* The message is written twice: readers of the format take it as one message.
Repeat == Changed("twice", data \o data)

\* The end of the bytes is lost.
Cut ==
  /\ Len(data) <= MaxChanged
  /\ \E n \in 0 .. Len(data) - 1 : Changed("cut", SubSeq(data, 1, n))

\* One byte turns into others: a length into a negative or an endless one.
Damage ==
  /\ Len(data) <= MaxChanged
  /\ \E i \in DOMAIN data, b \in Damages :
       Changed("damaged", SubSeq(data, 1, i - 1) \o b \o SubSeq(data, i + 1, Len(data)))

-----------------------------------------------------------------------------
(* Unmarshal.                                                               *)

Frame(type, value, bytes, into) ==
  [type |-> type, value |-> value, data |-> bytes, at |-> 0, into |-> into]

Top == frames[Len(frames)]

Read ==
  /\ status = "sent"
  /\ status' = "reading"
  /\ frames' = <<Frame(sent.type, Types[sent.type], data, Str("result"))>>
  /\ UNCHANGED <<sent, data, change>>

\* What the next field of the innermost message is.
Tag    == Varint(Top.data, Top.at)
Num    == FieldNum(Tag.value)
Known  == Num \in DOMAIN Cases[Top.type]
Case   == Cases[Top.type][Num]
Bytes  == Payload(Top.data, Tag.next)
Amount == Varint(Top.data, Tag.next)

\* Mutant: the index stays where the field began.
SkipNothing == [ok |-> TRUE, to |-> Top.at]

\* Mutant: a group is taken to be its opening tag.
SkipItemOnly ==
  LET d    == Slice(Top.data, Top.at, Len(Top.data))
      item == SkipItem(d, Varint(d, 0))
      to   == Top.at + item.n
  IN  [ok |-> item.ok /\ Signed(to, WordBits) >= 0 /\ to <= Len(Top.data), to |-> to]

\* An unknown field is skipped from its tag on.
Skip ==
  LET skippy == skip(Slice(Top.data, Top.at, Len(Top.data)))
      to     == Top.at + skippy.n
  IN  [ok |-> skippy.ok /\ Signed(to, WordBits) >= 0 /\ to <= Len(Top.data), to |-> to]

\* Whether the loop of Unmarshal reads the field, and goes on.
Readable ==
  /\ Tag.ok
  /\ WireType(Tag.value) # 4
  /\ Num > 0
  /\ IF Known
     THEN /\ WireType(Tag.value) = Case.wire
          /\ IF Case.kind = "number" THEN Amount.ok ELSE Bytes.ok
     ELSE Skip.ok

Unread == status = "reading" /\ Top.at < Len(Top.data)

\* The innermost message goes on after index to, with value v.
Continue(v, to) == frames' = [frames EXCEPT ![Len(frames)].value = v, ![Len(frames)].at = to]

\* A string or a number: the last one read is the one kept.
ReadScalar ==
  /\ Unread /\ Readable /\ Known
  /\ \/ /\ Case.kind = "text"
        /\ Continue([Top.value EXCEPT ![Case.name] = Slice(Top.data, Bytes.from, Bytes.to)], Bytes.to)
     \/ /\ Case.kind = "texts"
        /\ Continue([Top.value EXCEPT ![Case.name] =
                       Append(@, Slice(Top.data, Bytes.from, Bytes.to))], Bytes.to)
     \/ /\ Case.kind = "number"
        /\ Continue([Top.value EXCEPT ![Case.name] = Amount.value], Amount.next)
  /\ UNCHANGED <<sent, data, change, status>>

\* Mutant: an embedded message starts from nothing, not from what is there.
EmptyInner == Types[Case.type]

\* An embedded message is read into the one the field holds; a repeated field
\* gets a new one.
Inner == IF Case.kind = "message" THEN Top.value[Case.name] ELSE Types[Case.type]

ReadMessage ==
  /\ Unread /\ Readable /\ Known /\ Case.kind \in {"message", "messages"}
  /\ frames' = Append([frames EXCEPT ![Len(frames)].at = Bytes.to],
                      Frame(Case.type, Inner, Slice(Top.data, Bytes.from, Bytes.to), Case))
  /\ UNCHANGED <<sent, data, change, status>>

SkipField ==
  /\ Unread /\ Readable /\ ~Known
  /\ Continue(Top.value, Skip.to)
  /\ UNCHANGED <<sent, data, change, status>>

\* An error inside, or an index past the end at last: the whole call returns it.
Refuse ==
  /\ status = "reading"
  /\ (Unread /\ ~Readable) \/ Top.at > Len(Top.data)
  /\ status' = "refused"
  /\ UNCHANGED <<sent, data, change, frames>>

\* The end of the bytes of a message: its reader returns.
Return ==
  /\ status = "reading" /\ Top.at = Len(Top.data)
  /\ IF Len(frames) = 1
     THEN status' = "read" /\ UNCHANGED frames
     ELSE LET outer == Front(frames) IN
          /\ frames' = [outer EXCEPT ![Len(outer)].value[Top.into.name] =
                          IF Top.into.kind = "message" THEN Top.value ELSE Append(@, Top.value)]
          /\ UNCHANGED status
  /\ UNCHANGED <<sent, data, change>>

-----------------------------------------------------------------------------
Init ==
  /\ sent = [type |-> "QueryParamsRequest", value |-> Nothing]
  /\ data = <<>> /\ change = "none" /\ status = "writing" /\ frames = <<>>

Reader == Read \/ ReadScalar \/ ReadMessage \/ SkipField \/ Refuse \/ Return

Next == Write \/ AddUnknown \/ Repeat \/ Cut \/ Damage \/ Reader

\* Fairness: a call of Unmarshal runs on until it returns.
Spec == Init /\ [][Next]_vars /\ WF_vars(Reader)

-----------------------------------------------------------------------------
(* Properties.                                                              *)

Result == frames[1].value

\* What was written is what is read, whatever the type: the tags, lengths and
\* sizes of Marshal and Size and the cases of Unmarshal are separate code.
RoundTrip ==
  /\ status # "panic"
  /\ change = "none" =>
       /\ status # "refused"
       /\ status = "read" => Result = sent.value

\* Readers pass over the fields of a later version, whatever their wire types
\* (the default case of each Unmarshal, and skipTx).
UnknownIgnored ==
  change = "unknown" => status # "refused" /\ (status = "read" => Result = sent.value)

\* The case that reads a field.
CaseOf(type, f) ==
  LET cases == Cases[type] IN cases[CHOOSE n \in DOMAIN cases : cases[n].name = f]

IsRepeated(type, f) == CaseOf(type, f).kind \in {"texts", "messages"}

\* A message read twice over: what is embedded is merged into what is there,
\* and only repeated fields grow (genesis.pb.go:391 and params.pb.go:254).
Doubled(type, v) ==
  [f \in DOMAIN v |-> IF IsRepeated(type, f) THEN v[f] \o v[f] ELSE v[f]]

Twice(type, v) ==
  [f \in DOMAIN v |-> IF CaseOf(type, f).kind = "message"
                      THEN Doubled(CaseOf(type, f).type, v[f]) ELSE Doubled(type, v)[f]]

Merges ==
  change = "twice" =>
    /\ status # "refused"
    /\ status = "read" =>
         Result = IF sent.value = Nothing THEN Nothing ELSE Twice(sent.type, sent.value)

\* Bytes that lost their end are refused, or read as the message without its
\* last fields or entries: no string is read that is part of the one sent.
CutIsNoticed ==
  change = "cut" /\ status = "read" =>
    \A f \in DOMAIN Result :
      \/ Result[f] \in {sent.value[f], Types[sent.type][f]}
      \/ IsRepeated(sent.type, f) /\ IsPrefix(Result[f], sent.value[f])

\* No reader leaves its bytes, whatever they are: not by a length that is
\* negative, that wraps around the word when it is added to the index, or that
\* goes past the end (tx.pb.go:1613-1622).
InBounds ==
  \A k \in DOMAIN frames : frames[k].at \in 0 .. Len(frames[k].data)

\* Every call of Unmarshal returns: no bytes make it read one field for ever.
Returns == status = "reading" ~> status \in {"read", "refused"}
=============================================================================
