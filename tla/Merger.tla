------------------------------- MODULE Merger -------------------------------
(***************************************************************************)
(* The merge of one block pair after another: cmpct_merger, the record     *)
(* header FIFOs and the latched source_done flags of cmpct_pair_chain in   *)
(* front of it, and the seed key that cmpct_nblock_engine carries from     *)
(* each pair to the next.  A step (Tick) is one clock edge.                *)
(*                                                                         *)
(* Data abstraction.  A record is its user key k, its tag (sequence number *)
(* and type; the greater, the newer) and whether its header passes the     *)
(* length checks.  User keys are numbers and compared as such.  A key or a *)
(* value moves in one step, which may be delayed; the states that emit     *)
(* header, key and value of a record are one state, as are those that      *)
(* drain a dropped value and copy its key.                                 *)
(***************************************************************************)
EXTENDS Integers, Sequences

CONSTANTS
    Inputs,         \* possible inputs: functions from Side to sequences of blocks
    HdrFifoDepth,   \* entries of a header FIFO
    NoKey,          \* no previous user key
    MaxRuns         \* bound on runs, aborted ones included

Side == {0, 1}
Record == [k : Nat, tag : Nat, valid : BOOLEAN]

ASSUME MergerAssumption ==
    /\ \A b \in Inputs : /\ b \in [Side -> Seq(Seq(Record))]
                         /\ Len(b[0]) = Len(b[1])
    /\ HdrFifoDepth \in Nat \ {0}
    /\ NoKey \notin Nat
    /\ MaxRuns \in Nat

VARIABLES
    blocks,             \* the blocks of both sources; an empty block pads the shorter one
    pair,               \* number of the pair in the chain
    todo,               \* records of the pair the decoders have not delivered yet
    hdr_fifo,           \* record headers waiting for the merger
    source_done_latched,
    state,
    src,                \* the source WAIT and CAPTURE are about
    source_done_seen, prefetched, buf_valid,
    rec,                \* header, key and tag registers of each source
    selected_source,
    prev_user_key,      \* have_prev_user_key and prev_user_key_mem
    seed_prev_user_key,
    busy, done, error,
    out,                \* records sent to the encoder for this pair
    merged,             \* history: outputs of the pairs already finished
    runs

frontVars == <<todo, hdr_fifo, source_done_latched>>
mergerVars == <<state, src, source_done_seen, prefetched, buf_valid, rec, selected_source,
                prev_user_key, busy, done, error, out>>
vars == <<blocks, pair, frontVars, mergerVars, seed_prev_user_key, merged, runs>>

MergerStates == {"IDLE", "WAIT_HEADER", "CAPTURE", "CMP_SETUP", "EMIT", "DROP"}
Other(s) == 1 - s
NoSide == [s \in Side |-> FALSE]
EmptyRecord == [k |-> 0, tag |-> 0, valid |-> TRUE]

Init ==
    /\ blocks \in Inputs
    /\ pair = 0
    /\ todo = [s \in Side |-> <<>>]
    /\ hdr_fifo = [s \in Side |-> <<>>]
    /\ source_done_latched = NoSide
    /\ state = "IDLE"
    /\ src = 0
    /\ source_done_seen = NoSide
    /\ prefetched = NoSide
    /\ buf_valid = NoSide
    /\ rec = [s \in Side |-> EmptyRecord]
    /\ selected_source = 0
    /\ prev_user_key = NoKey
    /\ seed_prev_user_key = NoKey
    /\ busy = FALSE /\ done = FALSE /\ error = FALSE
    /\ out = <<>> /\ merged = <<>> /\ runs = 0

-----------------------------------------------------------------------------
(* Header handshakes.                                                      *)

\* p10_can_accept0/1: the header of the source nobody works on may be taken
\* early.  While a record is emitted or dropped its source has buf_valid up.
CanPrefetch(s) ==
    /\ ~buf_valid[s] /\ ~source_done_seen[s] /\ ~prefetched[s]
    /\ state \in {"CMP_SETUP", "EMIT", "DROP"} \/ (state = "CAPTURE" /\ src = Other(s))

record_ready(s) ==
    /\ busy /\ ~error
    /\ (state = "WAIT_HEADER" /\ src = s /\ ~prefetched[s]) \/ CanPrefetch(s)

Accepts(s) == record_ready(s) /\ hdr_fifo[s] /= <<>>
\* Mutant: a header taken early is not checked.
AcceptsBadWaiting(s) == Accepts(s) /\ ~CanPrefetch(s) /\ ~Head(hdr_fifo[s]).valid

AcceptsBad(s) == Accepts(s) /\ ~Head(hdr_fifo[s]).valid

\* Mutant: the header FIFO is taken to have room.
DeliversAlways(s, go) == go[s] /\ todo[s] /= <<>>

\* A decoder delivers its next record or, after the last, its done pulse.
Delivers(s, go) == go[s] /\ todo[s] /= <<>> /\ Len(hdr_fifo[s]) < HdrFifoDepth

SourceClock(go) ==
    /\ todo' = [s \in Side |-> IF Delivers(s, go) THEN Tail(todo[s]) ELSE todo[s]]
    /\ hdr_fifo' = [s \in Side |->
         LET rest == IF Accepts(s) THEN Tail(hdr_fifo[s]) ELSE hdr_fifo[s]
         IN  IF Delivers(s, go) THEN Append(rest, Head(todo[s])) ELSE rest]
    /\ source_done_latched' = [s \in Side |->
         source_done_latched[s] \/ (go[s] /\ busy /\ todo[s] = <<>>)]

\* source_done_gated, remembered by the merger.
source_done_gated(s) == source_done_latched[s] /\ hdr_fifo[s] = <<>>
\* Mutant: the end of source 1 is not remembered.
SeeDoneOfSource0 ==
    source_done_seen' = [s \in Side |-> source_done_seen[s] \/ (s = 0 /\ source_done_gated(s))]

SeeDone == source_done_seen' = [s \in Side |-> source_done_seen[s] \/ source_done_gated(s)]

LoadHeaders ==
    rec' = [s \in Side |-> IF Accepts(s) THEN Head(hdr_fifo[s]) ELSE rec[s]]

\* A header taken early is marked, one WAIT_HEADER finds there is used up.
Prefetches ==
    prefetched' = [s \in Side |->
        IF state = "WAIT_HEADER" /\ src = s THEN FALSE
        ELSE prefetched[s] \/ (Accepts(s) /\ CanPrefetch(s))]

-----------------------------------------------------------------------------
(* The merger's FSM.                                                       *)

Finish == state' = "IDLE" /\ busy' = FALSE /\ done' = TRUE /\ UNCHANGED src
GoOn(st, s) == state' = st /\ src' = s /\ done' = FALSE /\ UNCHANGED busy

WaitHeader ==
    /\ state = "WAIT_HEADER"
    /\ \/ /\ prefetched[src] \/ hdr_fifo[src] /= <<>>
          /\ GoOn("CAPTURE", src)
       \/ /\ ~prefetched[src] /\ hdr_fifo[src] = <<>>
          /\ IF ~source_done_seen[src] THEN GoOn("WAIT_HEADER", src)
             ELSE IF buf_valid[Other(src)] THEN GoOn("CMP_SETUP", src)
             ELSE IF ~source_done_seen[Other(src)] THEN GoOn("WAIT_HEADER", Other(src))
             ELSE Finish
    /\ UNCHANGED <<buf_valid, selected_source, prev_user_key, out>>

\* The key is in; with the other source present or finished, compare.
Capture ==
    /\ state = "CAPTURE"
    /\ buf_valid' = [buf_valid EXCEPT ![src] = TRUE]
    /\ IF buf_valid[Other(src)] \/ source_done_seen[Other(src)]
       THEN GoOn("CMP_SETUP", src)
       ELSE GoOn("WAIT_HEADER", Other(src))
    /\ UNCHANGED <<selected_source, prev_user_key, out>>

\* Mutant: the older record of two with the same key goes first.
older_sel_src ==
    IF ~buf_valid[0] THEN 1
    ELSE IF ~buf_valid[1] THEN 0
    ELSE IF rec[0].k < rec[1].k \/ (rec[0].k = rec[1].k /\ rec[0].tag <= rec[1].tag) THEN 0
    ELSE 1

\* Smaller user key first; for equal keys the newer record, then source 0.
next_sel_src ==
    IF ~buf_valid[0] THEN 1
    ELSE IF ~buf_valid[1] THEN 0
    ELSE IF rec[0].k < rec[1].k \/ (rec[0].k = rec[1].k /\ rec[0].tag >= rec[1].tag) THEN 0
    ELSE 1

next_keep == rec[next_sel_src].k /= prev_user_key

CmpSetup ==
    /\ state = "CMP_SETUP"
    /\ selected_source' = next_sel_src
    /\ GoOn(IF next_keep THEN "EMIT" ELSE "DROP", src)
    /\ UNCHANGED <<buf_valid, prev_user_key, out>>

\* Where to go when the record of source s is used up.
Refill(s) ==
    /\ buf_valid' = [buf_valid EXCEPT ![s] = FALSE]
    /\ IF ~source_done_seen[s] THEN GoOn("WAIT_HEADER", s)
       ELSE IF buf_valid[Other(s)] THEN GoOn("CMP_SETUP", src)
       ELSE IF ~source_done_seen[Other(s)] THEN GoOn("WAIT_HEADER", Other(s))
       ELSE Finish

Emit ==
    /\ state = "EMIT"
    /\ out' = Append(out, rec[selected_source])
    /\ prev_user_key' = rec[selected_source].k
    /\ Refill(selected_source)
    /\ UNCHANGED selected_source

Drop ==
    /\ state = "DROP"
    /\ prev_user_key' = rec[selected_source].k
    /\ Refill(selected_source)
    /\ UNCHANGED <<selected_source, out>>

\* No key bytes, no room downstream, or the comparison is in its pipeline.
Stall ==
    /\ state \in {"CAPTURE", "CMP_SETUP", "EMIT", "DROP"}
    /\ GoOn(state, src)
    /\ UNCHANGED <<buf_valid, selected_source, prev_user_key, out>>

\* A header fails its length checks: overrides whatever the FSM does.
HeaderError ==
    /\ \E s \in Side : AcceptsBad(s)
    /\ state' = "IDLE" /\ busy' = FALSE /\ error' = TRUE /\ done' = FALSE
    /\ UNCHANGED <<src, buf_valid, selected_source, prev_user_key, out>>

MergerClock(go) ==
    /\ busy
    /\ SeeDone /\ LoadHeaders /\ Prefetches
    /\ \/ HeaderError
       \/ /\ \A s \in Side : ~AcceptsBad(s)
          /\ UNCHANGED error
          /\ \/ WaitHeader
             \/ go /\ (Capture \/ CmpSetup \/ Emit \/ Drop)
             \/ ~go /\ Stall

Tick(go0, go1, go) ==
    /\ MergerClock(go)
    /\ SourceClock([s \in Side |-> IF s = 0 THEN go0 ELSE go1])
    /\ UNCHANGED <<blocks, pair, seed_prev_user_key, merged, runs>>

-----------------------------------------------------------------------------
(* The chain around it.                                                    *)

\* Clear and start of FIFOs, flags and merger on the given pair.
StartOn(p, seed) ==
    /\ todo' = [s \in Side |-> blocks[s][p]]
    /\ hdr_fifo' = [s \in Side |-> <<>>]
    /\ source_done_latched' = NoSide
    /\ state' = "WAIT_HEADER"
    /\ src' = 0
    /\ source_done_seen' = NoSide
    /\ prefetched' = NoSide
    /\ buf_valid' = NoSide
    /\ rec' = [s \in Side |-> EmptyRecord]
    /\ selected_source' = 0
    /\ prev_user_key' = seed
    /\ seed_prev_user_key' = seed
    /\ busy' = TRUE /\ done' = FALSE /\ error' = FALSE
    /\ pair' = p
    /\ UNCHANGED blocks

\* The first pair of a run; a run in progress or in error is cleared first.
StartRun ==
    /\ runs < MaxRuns
    /\ runs' = runs + 1
    /\ Len(blocks[0]) > 0
    /\ StartOn(1, NoKey)
    /\ out' = <<>> /\ merged' = <<>>

\* Mutant: the seed key is forgotten between pairs.
NextPairUnseeded ==
    /\ ~busy /\ ~error
    /\ pair \in 1..Len(blocks[0]) - 1
    /\ StartOn(pair + 1, NoKey)
    /\ out' = <<>>
    /\ merged' = merged \o out
    /\ UNCHANGED runs

\* The pair is merged: the next one starts with its last user key as seed.
NextPair ==
    /\ ~busy /\ ~error
    /\ pair \in 1..Len(blocks[0]) - 1
    /\ StartOn(pair + 1, prev_user_key)
    /\ out' = <<>>
    /\ merged' = merged \o out
    /\ UNCHANGED runs

\* Nothing is running: done is a pulse, error stays.
Idle ==
    /\ ~busy
    /\ error \/ pair \in {0, Len(blocks[0])}
    /\ done' = FALSE
    /\ UNCHANGED <<blocks, pair, frontVars, state, src, source_done_seen, prefetched,
                   buf_valid, rec, selected_source, prev_user_key, seed_prev_user_key,
                   busy, error, out, merged, runs>>

Next ==
    \/ \E go0, go1, go \in BOOLEAN : Tick(go0, go1, go)
    \/ StartRun
    \/ NextPair
    \/ Idle

Spec == Init /\ [][Next]_vars

\* Decoders deliver, the encoder takes, and nblock starts the next pair.
FairSpec == Spec /\ WF_vars(Tick(TRUE, TRUE, TRUE)) /\ WF_vars(NextPair)

-----------------------------------------------------------------------------
(* Properties.                                                             *)

TypeOK ==
    /\ pair \in 0..Len(blocks[0])
    /\ todo \in [Side -> Seq(Record)]
    /\ hdr_fifo \in [Side -> Seq(Record)]
    /\ \A s \in Side : Len(hdr_fifo[s]) <= HdrFifoDepth
    /\ state \in MergerStates
    /\ src \in Side /\ selected_source \in Side
    /\ rec \in [Side -> Record]
    /\ {source_done_latched, source_done_seen, prefetched, buf_valid} \subseteq [Side -> BOOLEAN]
    /\ {prev_user_key, seed_prev_user_key} \subseteq Nat \cup {NoKey}
    /\ {busy, done, error} \subseteq BOOLEAN
    /\ {out, merged} \subseteq Seq(Record)
    /\ runs \in 0..MaxRuns

RecordsOf(seq) == {seq[i] : i \in 1..Len(seq)}
RecordsOfPair(b, p) == RecordsOf(b[0][p]) \cup RecordsOf(b[1][p])
PairRecords(p) == RecordsOfPair(blocks, p)
AllRecords == UNION {PairRecords(p) : p \in 1..Len(blocks[0])}

\* LevelDB's internal key order: user keys up, tags down.
Before(a, b) == a.k < b.k \/ (a.k = b.k /\ a.tag > b.tag)

SortedBlock(b) == \A i, j \in 1..Len(b) : i < j => Before(b[i], b[j])

\* Records with the same key are of different age.
DifferentTags(x, y) ==
    \A i \in 1..Len(x), j \in 1..Len(y) : x[i].k = y[j].k => x[i].tag /= y[j].tag

\* Inputs that can be merged pair by pair: sorted blocks, versions of a key of
\* different age, block boundaries of both tables at the same keys, and no
\* block of a single record in source 1.
MergeInputs ==
    \A b \in Inputs :
      /\ \A p \in 1..Len(b[0]) :
           /\ SortedBlock(b[0][p]) /\ SortedBlock(b[1][p])
           /\ DifferentTags(b[0][p], b[1][p])
           /\ Len(b[1][p]) /= 1
      /\ \A p, r \in 1..Len(b[0]) : p < r =>
           \A x \in RecordsOfPair(b, p), y \in RecordsOfPair(b, r) : Before(x, y)

\* What a merge must keep: the newest record of every key but the seed.
Survivors(rs, seed) ==
    {r \in rs : r.k /= seed /\ \A q \in rs : q.k = r.k => q.tag <= r.tag}

StrictlyIncreasing(seq) == \A i, j \in 1..Len(seq) : i < j => seq[i].k < seq[j].k

\* A merged pair holds, in key order and once each, the newest record of
\* every user key of the pair except the key the previous pair ended with,
\* however decoders, header FIFOs, early header takes and encoder interleave.
PairMerged ==
    done => /\ RecordsOf(out) = Survivors(PairRecords(pair), seed_prev_user_key)
            /\ StrictlyIncreasing(out)

\* After the last pair the whole output is the merge of the two SSTables: no
\* record lost, none twice and the newest version of each key.
FileMerged ==
    (done /\ pair = Len(blocks[0])) =>
        LET all == merged \o out
        IN  RecordsOf(all) = Survivors(AllRecords, NoKey) /\ StrictlyIncreasing(all)

\* A record whose header fails its checks stops the run, also when the header
\* was taken early: no pair that contains one is reported as merged.
NoBadRecordMerged == done => \A r \in PairRecords(pair) : r.valid

\* Every started merge ends in done or error: the two sources and the
\* merger never wait for one another for ever.
MergeEnds == busy ~> ~busy
=============================================================================
