---------------------------- MODULE MCStoreKeys ----------------------------
(***************************************************************************)
(* Keys over a handful of symbols: one creator's string begins with the    *)
(* other's, one denom begins with the other and holds a creator, and       *)
(* clients ask for strings of up to three symbols with the words of the    *)
(* key scheme and the separator anywhere in them.                          *)
(***************************************************************************)
EXTENDS StoreKeys

MCSymbols  == {"|", "creator", "denoms", "authoritymetadata", "addr", "x"}
MCCreators == {<<"addr">>, <<"addr", "x">>}
MCDenoms   == {<<"x">>, <<"x", "addr">>}
MCQueries  == {<<>>} \cup {<<a>> : a \in MCSymbols} \cup {<<a, b>> : a, b \in MCSymbols}
                \cup {<<a, b, c>> : a, b, c \in MCSymbols}
=============================================================================
