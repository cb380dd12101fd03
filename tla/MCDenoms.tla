------------------------------ MODULE MCDenoms ------------------------------
(***************************************************************************)
(* Names over a handful of parts, with lengths at the limits of the code:  *)
(* an address in either spelling, one with the longest prefix and one a    *)
(* character longer; subdenoms of up to 45 characters and three parts.     *)
(***************************************************************************)
EXTENDS Denoms

MCParts       == {"", "factory", "a", "addr", "ADDR", "longest addr", "overlong addr",
                  "x42", "x44", "x45", "b?d"}
MCPartLen     == [part \in MCParts |->
                    CASE part = ""              -> 0
                      [] part = "factory"       -> 7
                      [] part = "a"             -> 1
                      [] part \in {"addr", "ADDR"} -> 45
                      [] part = "longest addr"  -> 75
                      [] part = "overlong addr" -> 76
                      [] part = "x42"           -> 42
                      [] part = "x44"           -> 44
                      [] part = "x45"           -> 45
                      [] part = "b?d"           -> 3]
MCBech32      == {"addr", "ADDR", "longest addr", "overlong addr"}
MCCanonicalOf == [part \in MCBech32 |-> IF part = "ADDR" THEN "addr" ELSE part]

MCCreators    == {<<part>> : part \in MCBech32 \cup {"", "a", "b?d"}}
                   \cup {<<"addr", "a">>, <<"a", "a">>, <<"addr", "">>, <<"longest addr", "">>}
MCSubdenoms   == {<<part>> : part \in {"", "a", "factory", "x42", "x44", "x45", "b?d"}}
                   \cup {<<p, q>> : p, q \in {"", "a", "x42"}}
                   \cup {<<"a", "a", "a">>, <<"", "", "">>, <<"factory", "addr", "a">>}
=============================================================================
