---------------------------- MODULE MCBlockCodec ----------------------------
(* Lists of records with every relation of keys and words: shared prefixes  *)
(* within, at and beyond a word, equal keys, empty and long values, one to  *)
(* three restarts, and a list that does not fit.                            *)
EXTENDS BlockCodec

Rec(key, value) == [key |-> key, value |-> value]

Lists(Keys, Values) ==
    LET R == {Rec(k, v) : k \in Keys, v \in Values}
    IN  {<<r>> : r \in R} \cup {<<q, r>> : q, r \in R}

\* Keys and values of whole words (the stream may pause anywhere).
Whole == {
    <<Rec(<<1, 9, 1, 2>>, <<9, 8, 9, 8>>),
      Rec(<<1, 9, 1, 2, 3, 12, 3, 4>>, <<15, 0, 1, 2, 3, 0, 9, 1>>),
      Rec(<<1, 9, 1, 3>>, <<>>)>>,
    <<Rec(<<0, 0, 0, 0>>, <<>>), Rec(<<0, 0, 0, 0>>, <<0, 0, 0, 0>>),
      Rec(<<0, 0, 1, 0>>, <<1, 2, 3, 4>>), Rec(<<0, 0, 1, 0>>, <<>>),
      Rec(<<0, 1, 1, 0>>, <<>>)>>}

Partial ==
    Lists({<<2>>, <<2, 3, 8, 1, 1>>, <<2, 3, 9, 1, 1, 2>>, <<5, 6, 7, 8>>},
          {<<>>, <<7>>, <<1, 11, 3, 4, 5>>})
    \cup {<<Rec(<<5, 5, 5, 5, 5>>, <<1, 11>>),
            Rec(<<5, 5, 5, 5, 6, 6>>, <<1, 2, 3, 4, 5, 6, 7, 8, 9>>),
            Rec(<<9>>, <<>>)>>}

\* Blocks that overflow in a value, in the lengths and in a key.
TooLong == {
    <<Rec(<<1, 1, 1, 1>>, [i \in 1..15 |-> 1]),
      Rec(<<1, 1, 1, 2>>, [i \in 1..15 |-> 2]),
      Rec(<<1, 1, 2, 2>>, [i \in 1..15 |-> 2])>>,
    <<Rec(<<1, 1, 1, 1>>, [i \in 1..19 |-> 1]),
      Rec(<<1, 1, 1, 2>>, [i \in 1..20 |-> 2]),
      Rec(<<1, 1, 2, 2>>, <<2>>)>>,
    <<Rec(<<1, 1, 1, 1>>, [i \in 1..18 |-> 1]),
      Rec(<<1, 1, 1, 2>>, [i \in 1..18 |-> 2]),
      Rec(<<1, 1, 2, 2>>, <<2>>)>>,
    <<Rec(<<1, 1, 1, 1>>, [i \in 1..18 |-> 1]),
      Rec(<<1, 1, 1, 2>>, [i \in 1..16 |-> 2]),
      Rec(<<1, 1, 2, 2>>, <<2>>)>>}

AllInputs == Whole \cup Partial \cup TooLong

\* Blocks in front of the encoded one: none, or two, whose index entries end
\* elsewhere than behind the first byte of a beat.
Filed(key, offset, size) == [key |-> key, offset |-> offset, size |-> size]
NoFiles == {<<>>}
Files == {<<>>, <<Filed(<<0, 1, 1>>, 0, 12), Filed(<<0, 2, 5, 7, 1>>, 16, 70)>>}

\* Two entries of together 17 bytes, a beat and one byte.
EndsBehindBeat == {<<Filed(<<0, 1>>, 0, 9), Filed(<<0, 2, 5, 7>>, 16, 9)>>}

\* The two handles of the footer, and the end of a table.
MCMagic == <<7, 11>>

One == {<<Rec(<<1, 9, 1, 2>>, <<9, 8>>)>>}

NoDamage == {"none"}

AllDamages == {"none", "too short", "no restart", "count", "extra restart", "first offset",
    "last offset", "equal offset", "shared", "key length", "varint"}
=============================================================================
