-------------------------- MODULE MCOffloadDriver --------------------------
(* TLC instance of OffloadDriver.  The limits keep the order of the real    *)
(* ones: the driver accepts more output files (16) than the engine's size   *)
(* array has entries (8); a source may just fill its area.                  *)
EXTENDS OffloadDriver

Pair(n0, stated0, n1, stated1) ==
    [s \in Side |-> IF s = 0 THEN [size |-> n0, stated |-> stated0]
                             ELSE [size |-> n1, stated |-> stated1]]

\* Full and half-full areas, a file of another size than stated, an empty
\* one and one that is too large.
MCSourceFiles == {Pair(3, 3, 2, 2), Pair(1, 1, 3, 2), Pair(0, 0, 1, 1), Pair(1, 1, 4, 4)}

\* No file; one and two files with sizes on and off the alignment; one file
\* more than the array of sizes has, and one more than the driver accepts.
MCOutputSizes == {<<>>, <<2>>, <<3>>, <<3, 2>>, <<2, 3>>, <<3, 3>>, <<2, 2, 2>>, <<2, 2, 2, 2>>}

OneSourceFile == {Pair(1, 1, 1, 1)}
=============================================================================
