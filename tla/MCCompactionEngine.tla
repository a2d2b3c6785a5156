------------------------- MODULE MCCompactionEngine -------------------------
(* TLC instance of CompactionEngine: SSTables with one and two data blocks, *)
(* one whose index block is rejected and one that is too short.             *)
EXTENDS CompactionEngine

Good(handles) == [size |-> 256, idx_actual |-> 64, restart_count |-> 1, handles |-> handles]

MCTables == {Good(<<1>>), Good(<<2, 3>>),
             [size |-> 256, idx_actual |-> 12, restart_count |-> 2, handles |-> <<>>],
             [size |-> 64, idx_actual |-> 0, restart_count |-> 0, handles |-> <<>>]}
=============================================================================
