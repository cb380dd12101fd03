----------------------------- MODULE MCInstance -----------------------------
(***************************************************************************)
(* Small instances of Messages for TLC.  Two users, the module account of  *)
(* x/tokenfactory and the one that backs the community pool; each has its  *)
(* lower-case address string, and u1 may have an upper-case one too.       *)
(***************************************************************************)
EXTENDS Messages, TLC

CONSTANTS u1, u2, tfModule, distrModule,
          lower1, upper1, lower2, lowerTf, lowerDistr,   \* upper1 is lower1 in upper case
          ufoo, stake, TooLong

MCAccounts    == {u1, u2, tfModule, distrModule}
MCUsers       == {u1, u2}
Lower         == (u1 :> lower1) @@ (u2 :> lower2) @@ (tfModule :> lowerTf)
                   @@ (distrModule :> lowerDistr)
MCStringOf    == Lower
MCAccOf       == [str \in AddrStrings |->
                    IF str = upper1 THEN u1
                    ELSE CHOOSE a \in MCAccounts : Lower[a] = str]

OneSpelling   == {lower1, lower2, lowerTf, lowerDistr}
TwoSpellings  == OneSpelling \cup {upper1}

\* The native denom is named like one of the subdenoms users ask for.
MCNative      == {stake}
Free          == {[n \in MCNative |-> 0]}
FreeOrOne     == {[n \in MCNative |-> 0], [n \in MCNative |-> 1]}

Only(a, n)    == [b \in MCAccounts |-> IF b = a THEN n ELSE 0]
Nothing       == [b \in MCAccounts |-> 0]
NativeHeldBy(purses) ==
  {[d \in Denoms |-> IF d \in MCNative THEN purse ELSE Nothing] : purse \in purses}

OfU1            == {<<lower1, ufoo>>}

\* u1 holds the native coins at first, or there are none.
NativeAtGenesis == NativeHeldBy({Only(u1, MaxInt), Nothing})
NativeOfU1      == NativeHeldBy({Only(u1, 1)})

\* ... and u2 may hold all there can be of the denom that genesis may list.
CoinsAtGenesis  == NativeOfU1 \cup
  {[d \in Denoms |-> IF d \in MCNative THEN Only(u1, 1)
                     ELSE IF d \in OfU1 THEN Only(u2, MaxInt) ELSE Nothing]}

\* The bank's genesis carries metadata for no denom, or for u2's.
OfU2              == FactoryDenoms \cap ({lower2} \X ValidSubdenoms)
MetadataAtGenesis == {[d \in Denoms |-> NoMetadata],
                      [d \in Denoms |-> IF d \in OfU2 THEN CHOOSE md \in CustomMetadata : TRUE
                                        ELSE NoMetadata]}
NoMetadataAtGenesis == {[d \in Denoms |-> NoMetadata]}
FooOnly           == {ufoo}
FooOrStake        == {ufoo, stake}
FooOrTooLong      == {ufoo, TooLong}
Asked             == {ufoo, stake, TooLong}

JustU1        == {lower1}
BothUsers     == {lower1, lower2}
EitherSpelling == {lower1, upper1}
EverySpelling == {lower1, upper1, lower2}
WithGarbage   == EverySpelling \cup {Garbage}
=============================================================================
