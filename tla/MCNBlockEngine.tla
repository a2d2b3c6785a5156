--------------------------- MODULE MCNBlockEngine ---------------------------
(* TLC instance of NBlockEngine; the configurations choose small blocks.    *)
(* On the card the pipe between encoder and write engine holds about 17     *)
(* beats (a FIFO of 128 words of 8 bytes and the packers), a full LevelDB   *)
(* data block of 4 KB is 64 beats: BlockBeats > PipeBeats + 1 is the usual  *)
(* case, smaller blocks are what a short last block or many dropped         *)
(* records give.                                                            *)
EXTENDS NBlockEngine
=============================================================================
