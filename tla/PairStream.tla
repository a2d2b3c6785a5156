----------------------------- MODULE PairStream -----------------------------
(***************************************************************************)
(* What the parsers and the matcher promise the nblock engine: the block   *)
(* handles of the two SSTables, taken pairwise in index order, the shorter *)
(* list padded with NoHandle, each pair exactly once.  A run may be        *)
(* abandoned at any time; the next one starts again from the first pair.   *)
(***************************************************************************)
EXTENDS Integers, Sequences

CONSTANTS Side, NoHandle

VARIABLES
    handles,    \* the two handle lists, a function on Side
    out         \* pairs delivered in the current run

PairCount == CHOOSE n \in {Len(handles[s]) : s \in Side} :
                \A s \in Side : Len(handles[s]) <= n

PairAt(i) == [s \in Side |-> IF i <= Len(handles[s]) THEN handles[s][i] ELSE NoHandle]

StreamInit == out = <<>>

Deliver ==
    /\ Len(out) < PairCount
    /\ out' = Append(out, PairAt(Len(out) + 1))
    /\ UNCHANGED handles

Restart ==
    /\ out' = <<>>
    /\ UNCHANGED handles

StreamNext == Deliver \/ Restart

StreamSpec == StreamInit /\ [][StreamNext]_<<handles, out>>
=============================================================================
