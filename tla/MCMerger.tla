------------------------------ MODULE MCMerger ------------------------------
(* TLC instance of Merger.  Sequence numbers are unique: source 0 holds the *)
(* even tags, source 1 the odd ones.                                        *)
EXTENDS Merger, SequencesExt

Rec(k, tag) == [k |-> k, tag |-> tag, valid |-> TRUE]
Bad(k, tag) == [k |-> k, tag |-> tag, valid |-> FALSE]

\* All blocks with records of the given keys and tags.
BlocksOf(keys, tags) ==
    {SetToSortSeq(rs, Before) : rs \in SUBSET {Rec(k, t) : k \in keys, t \in tags}}

Input2(b0, b1) == [s \in Side |-> IF s = 0 THEN b0 ELSE b1]

\* One pair; source 1's block does not consist of one record.
OnePair == {Input2(<<a>>, <<b>>) : a \in BlocksOf({1, 2}, {2, 4}),
                                   b \in {x \in BlocksOf({1, 2}, {1, 3}) : Len(x) /= 1}}

\* Two pairs whose records are in internal key order across the pairs; keys
\* may straddle the boundary, the second pair may have a padded side.
TwoPairs == {Input2(<<a[1], a[2]>>, <<b[1], b[2]>>) :
               a \in BlocksOf({1, 2}, {6}) \X BlocksOf({2, 3}, {4}),
               b \in {x \in BlocksOf({1, 2}, {5, 7}) : Len(x) /= 1}
                     \X {x \in BlocksOf({3}, {1, 3}) : Len(x) /= 1}}

WithBadRecord == {Input2(<< <<Bad(1, 2)>> >>, << <<Rec(1, 3), Rec(2, 1)>> >>),
                  Input2(<< <<Rec(1, 2), Bad(2, 2)>> >>, << <<Rec(1, 3), Rec(2, 1)>> >>),
                  Input2(<< <<Rec(1, 2)>> >>, << <<Bad(1, 3), Rec(2, 1)>> >>),
                  Input2(<< <<Rec(1, 2)>> >>, << <<Rec(1, 3), Bad(2, 1)>> >>)}

MCInputs == OnePair \cup TwoPairs \cup WithBadRecord

\* The hypothesis of the theorems in MergerProofs is met.
ASSUME InputsInOrder == Inputs = MCInputs => MergeInputs

\* Source 1's block is one record.
SingleRecord == {Input2(<< <<Rec(1, 2)>> >>, << <<Rec(2, 1)>> >>)}
=============================================================================
