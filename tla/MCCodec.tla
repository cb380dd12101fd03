------------------------------ MODULE MCCodec -------------------------------
(***************************************************************************)
(* Codec on a small instance.  Words have 15 bits, two groups of a varint  *)
(* and one bit more, as 64 bits are nine groups and one bit more.          *)
(***************************************************************************)
EXTENDS Codec

\* The empty string, a short one and one whose length takes two bytes.
MCStrings    == {<<>>, <<97>>, [i \in 1 .. 130 |-> 98]}
MCCoins      == {[denom |-> <<>>, amount |-> <<48>>], [denom |-> <<115>>, amount |-> <<49>>]}
MCMetadatas  == {[base |-> <<>>, display |-> <<>>], [base |-> <<97>>, display |-> <<>>],
                 [base |-> <<97>>, display |-> <<98>>]}
MCListed     == {[denom |-> <<97>>, authorityMetadata |-> [admin |-> <<>>]],
                 [denom |-> <<98>>, authorityMetadata |-> [admin |-> <<99>>]]}

\* Field 15 with each wire type, the group with a group and a string inside.
MCUnknown    == {<<120, 200, 1>>, <<121, 1, 2, 3, 4, 5, 6, 7, 8>>, <<122, 2, 10, 1>>,
                 <<123, 19, 10, 1, 97, 20, 8, 1, 124>>, <<125, 1, 2, 3, 4>>}

\* Zero, an end of group, a long and a negative length, one whose sum with the
\* index wraps, and a varint without end.
MCDamages    == {<<0>>, <<4>>, <<128>>, <<255, 255, 0>>, <<255, 255, 1>>, <<255, 127>>,
                 <<255, 255, 255, 1>>}
=============================================================================
