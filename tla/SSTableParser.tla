--------------------------- MODULE SSTableParser ---------------------------
(***************************************************************************)
(* cmpct_sstable_parser_v2: walks the footer and the index block of one    *)
(* SSTable and pushes one block handle per index entry on a valid/ready    *)
(* stream.  One step of this module is one clock edge of its FSM.          *)
(*                                                                         *)
(* Data abstraction.  An SSTable is a record                               *)
(*    size           the sstable_size register                             *)
(*    idx_actual     bytes of the index block (from the footer)            *)
(*    restart_count  last word of the index block                          *)
(*    handles        the block handles of its index entries, in order      *)
(* A handle is a positive number (0 stands for "addr 0, size 0").  Bytes   *)
(* arrive from the AXI read engine one per cycle at best; several FSM      *)
(* states that only collect the bytes of one field are one state here.     *)
(***************************************************************************)
EXTENDS Integers, Sequences

VARIABLES
    sst,                \* the SSTable in card memory
    state,              \* state and ep_state of the FSM
    r_handle_idx,       \* handles accepted downstream so far
    r_handle_valid,     \* m_handle_valid
    all_handles_done,   \* level: the last handle has been accepted
    busy, error,
    rd_error            \* sticky error of the AXI read engine

parserVars == <<state, r_handle_idx, r_handle_valid, all_handles_done,
                busy, error, rd_error>>

MinSSTableBytes == 128
MinIndexBytes == 8

\* States in which the FSM takes bytes from the read engine.
FooterStates == {"FOOTER", "RCNT", "ENTRY_SKIP", "STREAM_SKIP_KEY",
                 "STREAM_SKIP_VALUE"}
EntryStates == {"EP_SHARED_LEN", "EP_BLK_HANDLE"}
ReadsStream == state \in FooterStates \cup EntryStates
ParserStates == {"IDLE", "EP_HANDLE_PUSH", "DONE"} \cup FooterStates \cup EntryStates

SSTable == [size : Nat, idx_actual : Nat, restart_count : Nat,
            handles : Seq(Nat \ {0})]

\* r_handle_addr / r_handle_size while r_handle_valid is up.
m_handle == IF r_handle_valid THEN sst.handles[r_handle_idx + 1] ELSE 0

ParserInit ==
    /\ state = "IDLE"
    /\ r_handle_idx = 0
    /\ r_handle_valid = FALSE
    /\ all_handles_done = FALSE
    /\ busy = FALSE
    /\ error = FALSE
    /\ rd_error = FALSE

\* Synchronous clear: every control register, but not r_handle_idx.
ParserClear ==
    /\ state' = "IDLE"
    /\ r_handle_valid' = FALSE
    /\ all_handles_done' = FALSE
    /\ busy' = FALSE
    /\ error' = FALSE
    /\ rd_error' = FALSE
    /\ UNCHANGED r_handle_idx

\* Mutant: the FSM gives up without raising error.
FailSilently ==
    /\ busy' = FALSE
    /\ state' = "IDLE"
    /\ UNCHANGED <<error, r_handle_idx, r_handle_valid, all_handles_done>>

Fail ==
    /\ error' = TRUE
    /\ busy' = FALSE
    /\ state' = "IDLE"
    /\ UNCHANGED <<r_handle_idx, r_handle_valid, all_handles_done>>

Goto(s) ==
    /\ state' = s
    /\ UNCHANGED <<r_handle_idx, r_handle_valid, all_handles_done, busy, error>>

ParserIdle(start) ==
    /\ state = "IDLE"
    /\ UNCHANGED <<r_handle_valid, all_handles_done, rd_error>>
    /\ \/ /\ ~(start /\ ~busy)
          /\ UNCHANGED <<state, r_handle_idx, busy, error>>
       \/ /\ start /\ ~busy
          /\ sst.size < MinSSTableBytes
          /\ error' = TRUE
          /\ UNCHANGED <<state, r_handle_idx, busy>>
       \/ /\ start /\ ~busy
          /\ sst.size >= MinSSTableBytes
          /\ state' = "FOOTER"
          /\ busy' = TRUE
          /\ error' = FALSE
          /\ r_handle_idx' = 0

\* The read engine's error flag, tested before a byte is taken.
ParserReadError ==
    /\ state \in FooterStates
    /\ rd_error
    /\ Fail
    /\ UNCHANGED rd_error

\* Mutant: one entry too many.
EntriesConsumedLate == state = "EP_SHARED_LEN" /\ r_handle_idx > Len(sst.handles)

\* At an entry boundary past the last entry, where no byte is needed to stop.
AllEntriesConsumed == state = "EP_SHARED_LEN" /\ r_handle_idx >= Len(sst.handles)

\* No byte on the stream in this cycle; the read engine may just have failed.
\* The entry-parsing states do not look at rd_error and simply wait.
ParserStarved(fails) ==
    /\ ReadsStream
    /\ ~(state \in FooterStates /\ rd_error)
    /\ ~AllEntriesConsumed
    /\ rd_error' = (rd_error \/ fails)
    /\ UNCHANGED <<state, r_handle_idx, r_handle_valid, all_handles_done, busy, error>>

\* The four footer varints are in: read the restart count of the index block.
ParserFooter ==
    /\ state = "FOOTER"
    /\ ~rd_error
    /\ Goto("RCNT")
    /\ UNCHANGED rd_error

\* The restart count is in: reject a block too short for its restart array.
ParserRestartCount ==
    /\ state = "RCNT"
    /\ ~rd_error
    /\ UNCHANGED rd_error
    /\ IF \/ sst.idx_actual < MinIndexBytes
          \/ 4 * (sst.restart_count + 1) >= sst.idx_actual
       THEN Fail
       ELSE Goto("ENTRY_SKIP")

ParserEntrySkip ==
    /\ state = "ENTRY_SKIP"
    /\ ~rd_error
    /\ Goto("EP_SHARED_LEN")
    /\ UNCHANGED rd_error

ParserEntriesEnd ==
    /\ AllEntriesConsumed
    /\ Goto("DONE")
    /\ UNCHANGED rd_error

\* The three length varints of an entry, then skip the key bytes.
ParserEntryStart ==
    /\ state = "EP_SHARED_LEN"
    /\ ~AllEntriesConsumed
    /\ Goto("STREAM_SKIP_KEY")
    /\ UNCHANGED rd_error

ParserSkipKey ==
    /\ state = "STREAM_SKIP_KEY"
    /\ ~rd_error
    /\ Goto("EP_BLK_HANDLE")
    /\ UNCHANGED rd_error

\* Offset and size varints decoded: raise handle_valid.
ParserBlkHandle ==
    /\ state = "EP_BLK_HANDLE"
    /\ state' = "EP_HANDLE_PUSH"
    /\ r_handle_valid' = TRUE
    /\ UNCHANGED <<r_handle_idx, all_handles_done, busy, error, rd_error>>

\* Hold the handle until the matcher takes it; then skip what is left of
\* the value (possibly nothing) and go back to the entry boundary.
ParserHandlePush(ready) ==
    /\ state = "EP_HANDLE_PUSH"
    /\ UNCHANGED <<all_handles_done, busy, error, rd_error>>
    /\ \/ /\ ~ready
          /\ UNCHANGED <<state, r_handle_idx, r_handle_valid>>
       \/ /\ ready
          /\ r_handle_valid' = FALSE
          /\ r_handle_idx' = r_handle_idx + 1
          /\ state' \in {"STREAM_SKIP_VALUE", "EP_SHARED_LEN"}

ParserSkipValue ==
    /\ state = "STREAM_SKIP_VALUE"
    /\ ~rd_error
    /\ Goto("EP_SHARED_LEN")
    /\ UNCHANGED rd_error

\* DONE is left only by clear.
ParserDone ==
    /\ state = "DONE"
    /\ busy' = FALSE
    /\ all_handles_done' = TRUE
    /\ UNCHANGED <<state, r_handle_idx, r_handle_valid, error, rd_error>>

\* A step that needs bytes from the stream.
ParserTake ==
    \/ ParserFooter
    \/ ParserRestartCount
    \/ ParserEntrySkip
    \/ ParserEntryStart
    \/ ParserSkipKey
    \/ ParserBlkHandle
    \/ ParserSkipValue

\* One clock edge.  byte: the stream delivers; fails: the read engine fails.
ParserClock(clear, start, ready, byte, fails) ==
    \/ clear /\ ParserClear
    \/ /\ ~clear
       /\ \/ ParserIdle(start)
          \/ ParserReadError
          \/ ~byte /\ ParserStarved(fails)
          \/ byte /\ ParserTake
          \/ ParserEntriesEnd
          \/ ParserHandlePush(ready)
          \/ ParserDone

-----------------------------------------------------------------------------
(* What holds of one parser whatever drives its inputs, and the summary of *)
(* a clock edge on which the proofs about the composition rest.            *)

\* m_handle is read only at an index that exists.
ParserTypeOK ==
    /\ sst \in SSTable
    /\ state \in ParserStates
    /\ r_handle_idx \in Nat
    /\ r_handle_valid \in BOOLEAN
    /\ r_handle_valid => r_handle_idx < Len(sst.handles)
    /\ all_handles_done \in BOOLEAN
    /\ busy \in BOOLEAN
    /\ error \in BOOLEAN
    /\ rd_error \in BOOLEAN

\* A handle is on offer in EP_HANDLE_PUSH only, an entry that is being parsed
\* exists, and all_handles_done is up only when every handle was accepted.
ParserInv ==
    /\ r_handle_valid <=> state = "EP_HANDLE_PUSH"
    /\ state \in {"STREAM_SKIP_KEY", "EP_BLK_HANDLE", "EP_HANDLE_PUSH"}
          => r_handle_idx < Len(sst.handles)
    /\ r_handle_idx <= Len(sst.handles)
    /\ state = "DONE" => r_handle_idx = Len(sst.handles)
    /\ all_handles_done => state = "DONE"

\* One clock edge seen from outside: only a start leaves IDLE, a running
\* parser counts exactly the accepted handles, all_handles_done is a level.
ParserEdge(clear, start, ready) ==
    /\ clear => state' = "IDLE"
    /\ state = "IDLE" /\ state' /= "IDLE" => start /\ r_handle_idx' = 0
    /\ state /= "IDLE" /\ state' /= "IDLE"
          => r_handle_idx' = IF r_handle_valid /\ ready THEN r_handle_idx + 1
                             ELSE r_handle_idx
    /\ ~clear /\ all_handles_done => all_handles_done'

\* The parser's registers keep their types and ParserInv over a clock edge,
\* for every SSTable and every input: the FSM of cmpct_sstable_parser_v2.v.
LEMMA ParserStep ==
    ASSUME ParserTypeOK, ParserInv, sst' = sst,
           NEW clear \in BOOLEAN, NEW start \in BOOLEAN, NEW ready \in BOOLEAN,
           NEW byte \in BOOLEAN, NEW fails \in BOOLEAN,
           ParserClock(clear, start, ready, byte, fails)
    PROVE  ParserTypeOK' /\ ParserInv' /\ ParserEdge(clear, start, ready)
<1> USE DEF ParserTypeOK, ParserInv, ParserEdge, SSTable, ParserStates,
            FooterStates, EntryStates
<1>1. CASE clear /\ ParserClear
  BY <1>1 DEF ParserClear
<1>2. CASE ~clear /\ ParserIdle(start)
  <2>1. CASE ~(start /\ ~busy)
    BY <1>2, <2>1 DEF ParserIdle
  <2>2. CASE start /\ ~busy /\ state' = "IDLE"
    BY <1>2, <2>2 DEF ParserIdle
  <2>3. CASE start /\ ~busy /\ state' /= "IDLE"
    <3>1. /\ state = "IDLE"
          /\ state' = "FOOTER"
          /\ r_handle_idx' = 0
          /\ UNCHANGED <<r_handle_valid, all_handles_done, rd_error>>
          /\ busy' = TRUE /\ error' = FALSE
      BY <1>2, <2>3 DEF ParserIdle
    <3>2. Len(sst.handles) \in Nat
      OBVIOUS
    <3>3. ParserTypeOK'
      BY <3>1
    <3>4. ParserInv'
      BY <3>1, <3>2
    <3>5. ParserEdge(clear, start, ready)
      BY <1>2, <2>3, <3>1
    <3> QED BY <3>3, <3>4, <3>5
  <2> QED BY <2>1, <2>2, <2>3
<1>3. CASE ~clear /\ ParserReadError
  BY <1>3 DEF ParserReadError, Fail
<1>4. CASE ~clear /\ ParserStarved(fails)
  BY <1>4 DEF ParserStarved, ReadsStream
<1>5. CASE ~clear /\ ParserTake
  <2>1. CASE ParserFooter
    BY <1>5, <2>1 DEF ParserFooter, Goto
  <2>2. CASE ParserRestartCount
    BY <1>5, <2>2 DEF ParserRestartCount, Goto, Fail
  <2>3. CASE ParserEntrySkip
    BY <1>5, <2>3 DEF ParserEntrySkip, Goto
  <2>4. CASE ParserEntryStart
    BY <1>5, <2>4 DEF ParserEntryStart, AllEntriesConsumed, Goto
  <2>5. CASE ParserSkipKey
    BY <1>5, <2>5 DEF ParserSkipKey, Goto
  <2>6. CASE ParserBlkHandle
    BY <1>5, <2>6 DEF ParserBlkHandle
  <2>7. CASE ParserSkipValue
    BY <1>5, <2>7 DEF ParserSkipValue, Goto
  <2> QED BY <1>5, <2>1, <2>2, <2>3, <2>4, <2>5, <2>6, <2>7 DEF ParserTake
<1>6. CASE ~clear /\ ParserEntriesEnd
  BY <1>6 DEF ParserEntriesEnd, AllEntriesConsumed, Goto
<1>7. CASE ~clear /\ ParserHandlePush(ready)
  <2>1. CASE ~ready
    <3>1. UNCHANGED <<sst, state, r_handle_idx, r_handle_valid, all_handles_done,
                      busy, error, rd_error>>
      BY <1>7, <2>1 DEF ParserHandlePush
    <3>2. ParserTypeOK' /\ ParserInv'
      BY <3>1
    <3>3. ParserEdge(clear, start, ready)
      BY <1>7, <2>1, <3>1
    <3> QED BY <3>2, <3>3
  <2>2. CASE ready
    <3>1. /\ state = "EP_HANDLE_PUSH"
          /\ state' \in {"STREAM_SKIP_VALUE", "EP_SHARED_LEN"}
          /\ r_handle_valid = TRUE
          /\ r_handle_valid' = FALSE
          /\ r_handle_idx' = r_handle_idx + 1
          /\ UNCHANGED <<all_handles_done, busy, error, rd_error>>
      BY <1>7, <2>2 DEF ParserHandlePush
    <3>2. Len(sst.handles) \in Nat /\ r_handle_idx < Len(sst.handles)
      BY <3>1
    <3>3. ParserTypeOK'
      <4>1. r_handle_idx' \in Nat /\ state' \in ParserStates /\ sst' \in SSTable
        BY <3>1
      <4> QED BY <3>1, <4>1
    <3>4. ParserInv'
      BY <3>1, <3>2
    <3>5. ParserEdge(clear, start, ready)
      BY <1>7, <2>2, <3>1
    <3> QED BY <3>3, <3>4, <3>5
  <2> QED BY <2>1, <2>2
<1>8. CASE ~clear /\ ParserDone
  BY <1>8 DEF ParserDone
<1> QED BY <1>1, <1>2, <1>3, <1>4, <1>5, <1>6, <1>7, <1>8 DEF ParserClock
=============================================================================
