----------------------------- MODULE MCFixtures -----------------------------
(* TLC instance of Fixtures: the fixtures in the size the programs make     *)
(* them, but for the number of blocks of the board fixture (200).           *)
EXTENDS Fixtures

\* The default records and block size, and few large records.
MCGbArgs == {[n_blocks |-> 2, records_per_block |-> 20, value_size |-> 48, block_size |-> 1500],
             [n_blocks |-> 3, records_per_block |-> 4, value_size |-> 300, block_size |-> 1500]}

\* cmpct_top: STAGE4_MAX_BLOCK_BYTES, STAGE5_MAX_BLOCK_BYTES,
\* MERGE_MAX_VALUE_BYTES, MERGE_MAX_RECORDS.
MCLimits == [block |-> 4096, output |-> 4096, value |-> 1024, records |-> 256]
=============================================================================
