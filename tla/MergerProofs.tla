---------------------------- MODULE MergerProofs ----------------------------
(***************************************************************************)
(* Theorems about Merger, for blocks of any length, any number of pairs,   *)
(* any depth of the header FIFOs and any stalls.  Types and the stop at a  *)
(* bad header are proved for all inputs; that the output is the merge, for *)
(* the inputs that MergeInputs describes: what LevelDB writes, with block  *)
(* boundaries of both tables at the same keys and without the blocks of a  *)
(* single record that merger_single_record.cfg is about.                   *)
(***************************************************************************)
EXTENDS Merger, TLAPS, SequenceTheorems

-----------------------------------------------------------------------------
(* The inductive invariant, for all inputs.                                *)

\* b is the records taken, then those in the FIFO ff, then those left in td.
TakenOf(b, td, ff) == Len(b) - (Len(td) + Len(ff))
InOrder(b, td, ff) ==
    /\ Len(td) + Len(ff) <= Len(b)
    /\ \A i \in 1..Len(ff) : ff[i] = b[TakenOf(b, td, ff) + i]
    /\ \A i \in 1..Len(td) : td[i] = b[TakenOf(b, td, ff) + Len(ff) + i]

\* Records of the pair in source s, how many of them the merger has taken,
\* whether it holds one that it has not used yet, and how many it has used.
Block(s) == blocks[s][pair]
Taken(s) == TakenOf(Block(s), todo[s], hdr_fifo[s])
Held(s) == buf_valid[s] \/ prefetched[s] \/ (state = "CAPTURE" /\ src = s)
Used(s) == IF Held(s) THEN Taken(s) - 1 ELSE Taken(s)

\* Decoder, FIFO and registers hold the block between them, in order.
SourceInv(s) ==
    /\ InOrder(Block(s), todo[s], hdr_fifo[s])
    /\ source_done_latched[s] => todo[s] = <<>>
    /\ source_done_seen[s] => todo[s] = <<>> /\ hdr_fifo[s] = <<>>

FrontInv ==
    /\ pair = 0 => ~busy /\ ~done /\ ~error
    /\ busy \/ done => ~error
    /\ busy => ~done
    /\ busy <=> state /= "IDLE"
    /\ pair > 0 => \A s \in Side : SourceInv(s)
    /\ pair > 0 /\ ~error => \A s \in Side : \A i \in 1..Taken(s) : Block(s)[i].valid
    /\ pair > 0 /\ ~error /\ ~busy => \A s \in Side : Taken(s) = Len(Block(s))

-----------------------------------------------------------------------------
(* ... and for inputs in order.                                            *)

\* A source that is neither held nor at its end is being waited for.  Only
\* the first record of source 1 is ever taken early.
PhaseInv ==
    busy =>
      /\ ~prefetched[0]
      /\ prefetched[1] => /\ Taken(1) = 1 /\ ~buf_valid[1]
                          /\ (state = "CAPTURE" /\ src = 0) \/ (state = "WAIT_HEADER" /\ src = 1)
      /\ state \in {"WAIT_HEADER", "CAPTURE"} => ~buf_valid[src]
      /\ buf_valid[0] \/ source_done_seen[0] \/ (state \in {"WAIT_HEADER", "CAPTURE"} /\ src = 0)
      /\ \/ buf_valid[1] \/ source_done_seen[1]
         \/ state \in {"WAIT_HEADER", "CAPTURE"} /\ src = 1
         \/ state \in {"WAIT_HEADER", "CAPTURE"} /\ src = 0 /\ (prefetched[1] \/ Taken(1) = 0)
      /\ state \in {"CMP_SETUP", "EMIT", "DROP"} => buf_valid[0] \/ buf_valid[1]
      /\ state \in {"EMIT", "DROP"} => selected_source = next_sel_src
      /\ state = "EMIT" => next_keep
      /\ state = "DROP" => ~next_keep

HeldInv ==
    pair > 0 /\ ~error =>
      /\ \A s \in Side : Held(s) => Taken(s) >= 1 /\ rec[s] = Block(s)[Taken(s)]
      /\ ~busy => \A s \in Side : ~Held(s)

\* The first n records of a block, and the others.
FirstOf(b, n) == {b[i] : i \in 1..n}
RestOf(b, n) == {b[i] : i \in n + 1..Len(b)}

UsedRecords == FirstOf(Block(0), Used(0)) \cup FirstOf(Block(1), Used(1))
UnusedRecords == RestOf(Block(0), Used(0)) \cup RestOf(Block(1), Used(1))

\* The last user key of a set of records, or the one before.
LastKey(rs, seed, key) ==
    \/ rs = {} /\ key = seed
    \/ \E r \in rs : r.k = key /\ \A q \in rs : q.k <= key

\* What was used comes before what was not, and its survivors are out.
OutInv ==
    pair > 0 /\ ~error =>
      /\ \A u \in UsedRecords, q \in UnusedRecords : Before(u, q)
      /\ RecordsOf(out) = Survivors(UsedRecords, seed_prev_user_key)
      /\ StrictlyIncreasing(out)
      /\ LastKey(UsedRecords, seed_prev_user_key, prev_user_key)

Earlier(p) == UNION {PairRecords(i) : i \in 1..p - 1}

FileInv ==
    pair > 0 /\ ~error =>
      /\ RecordsOf(merged) = Survivors(Earlier(pair), NoKey)
      /\ StrictlyIncreasing(merged)
      /\ LastKey(Earlier(pair), NoKey, seed_prev_user_key)

-----------------------------------------------------------------------------
(* Queues.                                                                 *)

\* The oldest record in the FIFO is the next of the block; taking it leaves
\* the rest in order.
LEMMA TakeOne ==
    ASSUME NEW b \in Seq(Record), NEW td \in Seq(Record), NEW ff \in Seq(Record),
           InOrder(b, td, ff), ff /= <<>>
    PROVE  /\ InOrder(b, td, Tail(ff))
           /\ Tail(ff) \in Seq(Record)
           /\ TakenOf(b, td, Tail(ff)) = TakenOf(b, td, ff) + 1
           /\ TakenOf(b, td, ff) + 1 \in 1..Len(b)
           /\ Head(ff) = b[TakenOf(b, td, ff) + 1]
<1>1. /\ Len(ff) \in Nat /\ Len(td) \in Nat /\ Len(b) \in Nat /\ Len(ff) >= 1
      /\ Tail(ff) \in Seq(Record) /\ Len(Tail(ff)) = Len(ff) - 1
      /\ Head(ff) = ff[1]
      /\ \A i \in 1..Len(ff) - 1 : Tail(ff)[i] = ff[i + 1]
  OBVIOUS
<1>2. TakenOf(b, td, Tail(ff)) = TakenOf(b, td, ff) + 1
  BY <1>1 DEF TakenOf
<1>3. TakenOf(b, td, ff) + 1 \in 1..Len(b)
  BY <1>1 DEF TakenOf, InOrder
<1>4. Head(ff) = b[TakenOf(b, td, ff) + 1]
  BY <1>1 DEF InOrder
<1>5. \A i \in 1..Len(Tail(ff)) : Tail(ff)[i] = b[TakenOf(b, td, Tail(ff)) + i]
  <2>1. TAKE i \in 1..Len(Tail(ff))
  <2>2. i + 1 \in 1..Len(ff) /\ Tail(ff)[i] = ff[i + 1]
    BY <1>1
  <2>3. ff[i + 1] = b[TakenOf(b, td, ff) + (i + 1)]
    BY <2>2 DEF InOrder
  <2>4. TakenOf(b, td, ff) + (i + 1) = TakenOf(b, td, Tail(ff)) + i
    BY <1>1, <1>2 DEF TakenOf
  <2> QED BY <2>2, <2>3, <2>4
<1>6. \A i \in 1..Len(td) : td[i] = b[TakenOf(b, td, Tail(ff)) + Len(Tail(ff)) + i]
  <2>1. TAKE i \in 1..Len(td)
  <2>2. td[i] = b[TakenOf(b, td, ff) + Len(ff) + i]
    BY <2>1 DEF InOrder
  <2>3. TakenOf(b, td, Tail(ff)) + Len(Tail(ff)) + i = TakenOf(b, td, ff) + Len(ff) + i
    BY <1>1, <1>2 DEF TakenOf
  <2> QED BY <2>2, <2>3
<1>7. Len(td) + Len(Tail(ff)) <= Len(b)
  BY <1>1 DEF InOrder
<1> QED BY <1>1, <1>2, <1>3, <1>4, <1>5, <1>6, <1>7 DEF InOrder

\* A delivered record goes to the end of the FIFO.
LEMMA DeliverOne ==
    ASSUME NEW b \in Seq(Record), NEW td \in Seq(Record), NEW ff \in Seq(Record),
           InOrder(b, td, ff), td /= <<>>
    PROVE  /\ InOrder(b, Tail(td), Append(ff, Head(td)))
           /\ Tail(td) \in Seq(Record) /\ Append(ff, Head(td)) \in Seq(Record)
           /\ Len(Append(ff, Head(td))) = Len(ff) + 1
           /\ TakenOf(b, Tail(td), Append(ff, Head(td))) = TakenOf(b, td, ff)
<1> DEFINE td2 == Tail(td)
           ff2 == Append(ff, Head(td))
<1>1. /\ Len(ff) \in Nat /\ Len(td) \in Nat /\ Len(b) \in Nat /\ Len(td) >= 1
      /\ td2 \in Seq(Record) /\ Len(td2) = Len(td) - 1
      /\ ff2 \in Seq(Record) /\ Len(ff2) = Len(ff) + 1
      /\ Head(td) = td[1]
      /\ \A i \in 1..Len(td) - 1 : td2[i] = td[i + 1]
      /\ \A i \in 1..Len(ff) : ff2[i] = ff[i]
      /\ ff2[Len(ff) + 1] = Head(td)
  OBVIOUS
<1> HIDE DEF td2, ff2
<1>2. TakenOf(b, td2, ff2) = TakenOf(b, td, ff) /\ TakenOf(b, td, ff) \in Nat
  BY <1>1 DEF TakenOf, InOrder
<1>3. \A i \in 1..Len(ff2) : ff2[i] = b[TakenOf(b, td2, ff2) + i]
  <2>1. TAKE i \in 1..Len(ff2)
  <2>2. CASE i \in 1..Len(ff)
    BY <2>2, <1>1, <1>2 DEF InOrder
  <2>3. CASE i = Len(ff) + 1
    <3>1. td[1] = b[TakenOf(b, td, ff) + Len(ff) + 1]
      BY <1>1 DEF InOrder
    <3>2. TakenOf(b, td, ff) + Len(ff) + 1 = TakenOf(b, td2, ff2) + i
      BY <2>3, <1>1, <1>2
    <3> QED BY <3>1, <3>2, <2>3, <1>1
  <2> QED BY <2>2, <2>3, <1>1
<1>4. \A i \in 1..Len(td2) : td2[i] = b[TakenOf(b, td2, ff2) + Len(ff2) + i]
  <2>1. TAKE i \in 1..Len(td2)
  <2>2. i + 1 \in 1..Len(td) /\ td2[i] = td[i + 1]
    BY <1>1
  <2>3. td[i + 1] = b[TakenOf(b, td, ff) + Len(ff) + (i + 1)]
    BY <2>2 DEF InOrder
  <2>4. TakenOf(b, td, ff) + Len(ff) + (i + 1) = TakenOf(b, td2, ff2) + Len(ff2) + i
    <3>1. \A t, n \in Nat : t + n + (i + 1) = t + (n + 1) + i
      OBVIOUS
    <3> QED BY <3>1, <1>1, <1>2
  <2> QED BY <2>2, <2>3, <2>4
<1>5. Len(td2) + Len(ff2) <= Len(b)
  BY <1>1 DEF InOrder
<1>6. InOrder(b, td2, ff2)
  BY <1>3, <1>4, <1>5 DEF InOrder
<1> QED BY <1>1, <1>2, <1>6 DEF td2, ff2

-----------------------------------------------------------------------------
(* One clock edge, seen from one source.                                   *)

TypeInv == TypeOK /\ blocks \in Inputs

LEMMA BlockType ==
    ASSUME TypeInv, pair > 0, NEW s \in Side
    PROVE  Block(s) \in Seq(Record)
<1>1. /\ blocks \in [Side -> Seq(Seq(Record))]
      /\ Len(blocks[0]) = Len(blocks[1])
      /\ pair \in 1..Len(blocks[0])
  BY MergerAssumption DEF TypeInv, TypeOK
<1>2. pair \in 1..Len(blocks[s]) /\ blocks[s] \in Seq(Seq(Record))
  BY <1>1 DEF Side
<1> QED BY <1>2 DEF Block

LEMMA FrontTypes ==
    ASSUME TypeInv, pair > 0, NEW s \in Side
    PROVE  /\ Block(s) \in Seq(Record) /\ todo[s] \in Seq(Record) /\ hdr_fifo[s] \in Seq(Record)
           /\ Len(hdr_fifo[s]) \in 0..HdrFifoDepth
           /\ Len(Block(s)) \in Nat /\ Len(todo[s]) \in Nat
           /\ Taken(s) \in Int /\ rec[s] \in Record
  <1>1. Block(s) \in Seq(Record) /\ todo[s] \in Seq(Record) /\ hdr_fifo[s] \in Seq(Record)
    BY BlockType DEF TypeInv, TypeOK
  <1>2. Len(hdr_fifo[s]) <= HdrFifoDepth /\ HdrFifoDepth \in Nat
    BY MergerAssumption DEF TypeInv, TypeOK
  <1>3. rec[s] \in Record
    BY DEF TypeInv, TypeOK
  <1> QED BY <1>1, <1>2, <1>3 DEF Taken, TakenOf

LEMMA TakenRange ==
    ASSUME TypeInv, pair > 0, NEW s \in Side, SourceInv(s)
    PROVE  /\ Taken(s) \in 0..Len(Block(s))
           /\ (todo[s] = <<>> /\ hdr_fifo[s] = <<>>) => Taken(s) = Len(Block(s))
           /\ Taken(s) = Len(Block(s)) => hdr_fifo[s] = <<>>
<1>1. /\ Len(Block(s)) \in Nat /\ Len(todo[s]) \in Nat /\ Len(hdr_fifo[s]) \in Nat
      /\ todo[s] \in Seq(Record) /\ hdr_fifo[s] \in Seq(Record)
  BY FrontTypes
<1>2. Len(todo[s]) + Len(hdr_fifo[s]) <= Len(Block(s))
  BY DEF SourceInv, InOrder
<1>3. Taken(s) = Len(Block(s)) - (Len(todo[s]) + Len(hdr_fifo[s]))
  BY DEF Taken, TakenOf
<1>4. hdr_fifo[s] = <<>> => Len(hdr_fifo[s]) = 0
  OBVIOUS
<1>5. todo[s] = <<>> => Len(todo[s]) = 0
  OBVIOUS
<1>6. Len(hdr_fifo[s]) = 0 => hdr_fifo[s] = <<>>
  BY <1>1, EmptySeq
<1>7. /\ Taken(s) \in 0..Len(Block(s))
      /\ Len(todo[s]) = 0 /\ Len(hdr_fifo[s]) = 0 => Taken(s) = Len(Block(s))
      /\ Taken(s) = Len(Block(s)) => Len(hdr_fifo[s]) = 0
  <2> DEFINE x == Len(Block(s))
             y == Len(todo[s])
             z == Len(hdr_fifo[s])
  <2>1. x \in Nat /\ y \in Nat /\ z \in Nat /\ y + z <= x /\ Taken(s) = x - (y + z)
    BY <1>1, <1>2, <1>3
  <2> HIDE DEF x, y, z
  <2>2. /\ Taken(s) \in 0..x
        /\ y = 0 /\ z = 0 => Taken(s) = x
        /\ Taken(s) = x => z = 0
    BY <2>1
  <2> QED BY <2>2 DEF x, y, z
<1> QED BY <1>4, <1>5, <1>6, <1>7

\* The records of a source stay in order, and the merger gets the next one.
LEMMA SourceStep ==
    ASSUME TypeInv, busy, pair > 0, NEW s \in Side, SourceInv(s),
           NEW go, SourceClock(go), SeeDone, UNCHANGED <<blocks, pair>>
    PROVE  /\ SourceInv(s)'
           /\ Block(s)' = Block(s)
           /\ todo'[s] \in Seq(Record) /\ hdr_fifo'[s] \in Seq(Record)
           /\ Len(hdr_fifo'[s]) <= HdrFifoDepth
           /\ Accepts(s) => /\ Taken(s)' = Taken(s) + 1 /\ Taken(s) + 1 \in 1..Len(Block(s))
                            /\ Head(hdr_fifo[s]) = Block(s)[Taken(s) + 1]
           /\ ~Accepts(s) => Taken(s)' = Taken(s)
<1> DEFINE b == Block(s)
           td == todo[s]
           ff == hdr_fifo[s]
           rest == IF Accepts(s) THEN Tail(ff) ELSE ff
<1>1. /\ b \in Seq(Record) /\ td \in Seq(Record) /\ ff \in Seq(Record)
      /\ Len(ff) \in 0..HdrFifoDepth /\ HdrFifoDepth \in Nat
      /\ InOrder(b, td, ff) /\ Taken(s) = TakenOf(b, td, ff)
  BY FrontTypes, MergerAssumption DEF SourceInv, Taken
<1>2. b = Block(s)'
  BY DEF Block
<1>3. /\ todo'[s] = IF Delivers(s, go) THEN Tail(td) ELSE td
      /\ hdr_fifo'[s] = IF Delivers(s, go) THEN Append(rest, Head(td)) ELSE rest
      /\ source_done_latched'[s] <=> source_done_latched[s] \/ (go[s] /\ busy /\ td = <<>>)
      /\ source_done_seen'[s] <=> source_done_seen[s] \/ source_done_gated(s)
  <2>1. /\ todo'[s] = IF Delivers(s, go) THEN Tail(td) ELSE td
        /\ hdr_fifo'[s] = IF Delivers(s, go) THEN Append(rest, Head(td)) ELSE rest
    BY DEF SourceClock
  <2>2. source_done_latched'[s] <=> source_done_latched[s] \/ (go[s] /\ busy /\ td = <<>>)
    BY Zenon DEF SourceClock
  <2>3. source_done_seen'[s] <=> source_done_seen[s] \/ source_done_gated(s)
    BY Zenon DEF SeeDone
  <2> QED BY <2>1, <2>2, <2>3
<1>4. /\ InOrder(b, td, rest) /\ rest \in Seq(Record) /\ Len(rest) <= Len(ff)
      /\ Accepts(s) => /\ TakenOf(b, td, rest) = Taken(s) + 1 /\ Taken(s) + 1 \in 1..Len(b)
                       /\ Head(ff) = b[Taken(s) + 1]
      /\ ~Accepts(s) => TakenOf(b, td, rest) = Taken(s)
  <2>1. CASE Accepts(s)
    <3>1. ff /= <<>>
      BY <2>1 DEF Accepts
    <3>2. Len(Tail(ff)) <= Len(ff)
      BY <3>1, <1>1
    <3> HIDE DEF b, td, ff
    <3> QED BY <2>1, <3>1, <3>2, <1>1, TakeOne
  <2>2. CASE ~Accepts(s)
    BY <2>2, <1>1
  <2> QED BY <2>1, <2>2
<1>5. /\ InOrder(b, todo'[s], hdr_fifo'[s])
      /\ todo'[s] \in Seq(Record) /\ hdr_fifo'[s] \in Seq(Record)
      /\ Len(hdr_fifo'[s]) <= HdrFifoDepth
      /\ TakenOf(b, todo'[s], hdr_fifo'[s]) = TakenOf(b, td, rest)
  <2>1. CASE Delivers(s, go)
    <3>1. td /= <<>> /\ Len(ff) < HdrFifoDepth
      BY <2>1 DEF Delivers
    <3>2. Len(ff) \in Nat /\ Len(rest) \in Nat
      BY <1>1, <1>4
    <3> HIDE DEF b, td, ff, rest
    <3>3. /\ InOrder(b, Tail(td), Append(rest, Head(td)))
          /\ Tail(td) \in Seq(Record) /\ Append(rest, Head(td)) \in Seq(Record)
          /\ Len(Append(rest, Head(td))) = Len(rest) + 1
          /\ TakenOf(b, Tail(td), Append(rest, Head(td))) = TakenOf(b, td, rest)
      BY <1>1, <1>4, <3>1, DeliverOne
    <3>4. Len(rest) + 1 <= HdrFifoDepth
      BY <3>1, <3>2, <1>1, <1>4
    <3> QED BY <2>1, <3>3, <3>4, <1>3
  <2>2. CASE ~Delivers(s, go)
    <3>1. Len(ff) \in Nat /\ Len(rest) \in Nat
      BY <1>1, <1>4
    <3> HIDE DEF b, td, ff, rest
    <3> QED BY <2>2, <3>1, <1>1, <1>3, <1>4
  <2> QED BY <2>1, <2>2
<1>6. Taken(s)' = TakenOf(b, td, rest)
  BY <1>2, <1>5 DEF Taken
<1>7. SourceInv(s)'
  <2>1. source_done_latched'[s] => todo'[s] = <<>>
    BY <1>3 DEF SourceInv, Delivers
  <2>2. source_done_seen'[s] => todo'[s] = <<>> /\ hdr_fifo'[s] = <<>>
    <3>1. source_done_seen'[s] => td = <<>> /\ ff = <<>>
      BY <1>3 DEF SourceInv, source_done_gated
    <3>2. td = <<>> /\ ff = <<>> => ~Delivers(s, go) /\ ~Accepts(s)
      BY DEF Delivers, Accepts
    <3> QED BY <3>1, <3>2, <1>3
  <2> QED BY <2>1, <2>2, <1>2, <1>5 DEF SourceInv
<1> QED BY <1>2, <1>4, <1>5, <1>6, <1>7

-----------------------------------------------------------------------------
(* Types and front end, for all inputs.                                    *)

FsmTypes ==
    /\ state \in MergerStates
    /\ src \in Side /\ selected_source \in Side
    /\ buf_valid \in [Side -> BOOLEAN]
    /\ prev_user_key \in Nat \cup {NoKey}
    /\ busy \in BOOLEAN /\ done \in BOOLEAN /\ error \in BOOLEAN
    /\ out \in Seq(Record)

LEMMA FsmTypesStep ==
    ASSUME TypeInv, NEW go, MergerClock(go)
    PROVE  FsmTypes'
<1>1. FsmTypes /\ rec \in [Side -> Record] /\ \A s \in Side : Other(s) \in Side
  BY DEF TypeInv, TypeOK, FsmTypes, Other, Side
<1>2. \A st \in MergerStates, s \in Side : GoOn(st, s) =>
        /\ state' \in MergerStates /\ src' \in Side
        /\ busy' \in BOOLEAN /\ done' \in BOOLEAN
  BY <1>1 DEF GoOn, FsmTypes
<1>3. Finish => /\ state' \in MergerStates /\ src' \in Side
                /\ busy' \in BOOLEAN /\ done' \in BOOLEAN
  BY <1>1 DEF Finish, FsmTypes, MergerStates
<1>4. {"WAIT_HEADER", "CAPTURE", "CMP_SETUP", "EMIT", "DROP"} \subseteq MergerStates
  BY DEF MergerStates
<1>5. CASE HeaderError
  BY <1>1, <1>5 DEF HeaderError, FsmTypes, MergerStates
<1>6. CASE UNCHANGED error /\ WaitHeader
  <2>1. /\ state' \in MergerStates /\ src' \in Side
        /\ busy' \in BOOLEAN /\ done' \in BOOLEAN
    BY <1>1, <1>2, <1>3, <1>4, <1>6 DEF WaitHeader, FsmTypes
  <2> QED BY <2>1, <1>1, <1>6 DEF WaitHeader, FsmTypes
<1>7. CASE UNCHANGED error /\ Capture
  <2>1. /\ state' \in MergerStates /\ src' \in Side
        /\ busy' \in BOOLEAN /\ done' \in BOOLEAN
    BY <1>1, <1>2, <1>4, <1>7 DEF Capture, FsmTypes
  <2> QED BY <2>1, <1>1, <1>7 DEF Capture, FsmTypes
<1>8. CASE UNCHANGED error /\ CmpSetup
  <2>1. /\ state' \in MergerStates /\ src' \in Side
        /\ busy' \in BOOLEAN /\ done' \in BOOLEAN
    BY <1>1, <1>2, <1>4, <1>8 DEF CmpSetup, FsmTypes
  <2>2. next_sel_src \in Side
    BY DEF next_sel_src, Side
  <2> QED BY <2>1, <2>2, <1>1, <1>8 DEF CmpSetup, FsmTypes
<1>9. \A s \in Side : Refill(s) => /\ state' \in MergerStates /\ src' \in Side
                                   /\ busy' \in BOOLEAN /\ done' \in BOOLEAN
                                   /\ buf_valid' \in [Side -> BOOLEAN]
  <2> SUFFICES ASSUME NEW s \in Side, Refill(s)
               PROVE  /\ state' \in MergerStates /\ src' \in Side
                      /\ busy' \in BOOLEAN /\ done' \in BOOLEAN
                      /\ buf_valid' \in [Side -> BOOLEAN]
    OBVIOUS
  <2>1. /\ state' \in MergerStates /\ src' \in Side
        /\ busy' \in BOOLEAN /\ done' \in BOOLEAN
    BY <1>1, <1>2, <1>3, <1>4 DEF Refill, FsmTypes
  <2>2. buf_valid' \in [Side -> BOOLEAN]
    BY <1>1 DEF Refill, FsmTypes
  <2> QED BY <2>1, <2>2
<1>10. rec[selected_source] \in Record /\ rec[selected_source].k \in Nat
  BY <1>1 DEF FsmTypes, Record
<1>11. CASE UNCHANGED error /\ Emit
  <2>1. Append(out, rec[selected_source]) \in Seq(Record)
    BY <1>1, <1>10 DEF FsmTypes
  <2> QED BY <2>1, <1>1, <1>9, <1>10, <1>11 DEF Emit, FsmTypes
<1>12. CASE UNCHANGED error /\ Drop
  BY <1>1, <1>9, <1>10, <1>12 DEF Drop, FsmTypes
<1>13. CASE UNCHANGED error /\ Stall
  <2>1. /\ state' \in MergerStates /\ src' \in Side
        /\ busy' \in BOOLEAN /\ done' \in BOOLEAN
    BY <1>1, <1>2, <1>13 DEF Stall, FsmTypes
  <2> QED BY <2>1, <1>1, <1>13 DEF Stall, FsmTypes
<1> QED BY <1>5, <1>6, <1>7, <1>8, <1>11, <1>12, <1>13 DEF MergerClock

LEMMA TypeTick ==
    ASSUME TypeInv, FrontInv, NEW go0 \in BOOLEAN, NEW go1 \in BOOLEAN, NEW go \in BOOLEAN,
           Tick(go0, go1, go)
    PROVE  TypeInv'
<1> DEFINE g == [s \in Side |-> IF s = 0 THEN go0 ELSE go1]
<1>1. /\ busy /\ SeeDone /\ LoadHeaders /\ Prefetches /\ MergerClock(go) /\ SourceClock(g)
      /\ UNCHANGED <<blocks, pair, seed_prev_user_key, merged, runs>>
  BY DEF Tick, MergerClock
<1> HIDE DEF g
<1>2. pair \in 0..Len(blocks[0]) /\ pair > 0 /\ \A s \in Side : SourceInv(s)
  BY <1>1 DEF FrontInv, TypeInv, TypeOK
<1>3. FsmTypes'
  BY <1>1, FsmTypesStep
<1>4. \A s \in Side : /\ todo'[s] \in Seq(Record) /\ hdr_fifo'[s] \in Seq(Record)
                      /\ Len(hdr_fifo'[s]) <= HdrFifoDepth
  BY <1>1, <1>2, SourceStep
<1>5. /\ todo' \in [Side -> Seq(Record)] /\ hdr_fifo' \in [Side -> Seq(Record)]
      /\ \A s \in Side : Len(hdr_fifo'[s]) <= HdrFifoDepth
  BY <1>1, <1>4 DEF SourceClock
<1>6. source_done_latched' \in [Side -> BOOLEAN]
  BY <1>1 DEF SourceClock, TypeInv, TypeOK
<1>7. source_done_seen' \in [Side -> BOOLEAN] /\ prefetched' \in [Side -> BOOLEAN]
  BY <1>1 DEF SeeDone, Prefetches, TypeInv, TypeOK
<1>8. rec' \in [Side -> Record]
  <2>1. \A s \in Side : Accepts(s) => Head(hdr_fifo[s]) \in Record
    BY DEF Accepts, TypeInv, TypeOK
  <2>2. \A s \in Side : rec[s] \in Record
    BY DEF TypeInv, TypeOK
  <2> QED BY <1>1, <2>1, <2>2 DEF LoadHeaders
<1>9. /\ (pair \in 0..Len(blocks[0]))' /\ runs' \in 0..MaxRuns /\ merged' \in Seq(Record)
      /\ seed_prev_user_key' \in Nat \cup {NoKey} /\ blocks' \in Inputs
  BY <1>1 DEF TypeInv, TypeOK
<1> QED BY <1>3, <1>5, <1>6, <1>7, <1>8, <1>9 DEF TypeInv, TypeOK, FsmTypes

LEMMA TypeStart ==
    ASSUME TypeInv, NEW p \in 1..Len(blocks[0]), NEW seed \in Nat \cup {NoKey}, StartOn(p, seed),
           out' \in Seq(Record), merged' \in Seq(Record), runs' \in 0..MaxRuns
    PROVE  TypeInv'
<1>1. /\ blocks \in Inputs /\ blocks \in [Side -> Seq(Seq(Record))]
      /\ Len(blocks[0]) = Len(blocks[1])
      /\ HdrFifoDepth \in Nat
  BY MergerAssumption DEF TypeInv
<1>2. \A s \in Side : blocks[s][p] \in Seq(Record)
  BY <1>1 DEF Side
<1>3. todo' \in [Side -> Seq(Record)]
  BY <1>2 DEF StartOn
<1>4. hdr_fifo' \in [Side -> Seq(Record)] /\ \A s \in Side : Len(hdr_fifo'[s]) <= HdrFifoDepth
  BY <1>1 DEF StartOn
<1>5. /\ source_done_latched' \in [Side -> BOOLEAN] /\ source_done_seen' \in [Side -> BOOLEAN]
      /\ prefetched' \in [Side -> BOOLEAN] /\ buf_valid' \in [Side -> BOOLEAN]
  BY DEF StartOn, NoSide
<1>6. rec' \in [Side -> Record]
  BY DEF StartOn, EmptyRecord, Record
<1>7. state' \in MergerStates /\ src' \in Side /\ selected_source' \in Side
  BY DEF StartOn, MergerStates, Side
<1>8. /\ prev_user_key' \in Nat \cup {NoKey} /\ seed_prev_user_key' \in Nat \cup {NoKey}
      /\ busy' \in BOOLEAN /\ done' \in BOOLEAN /\ error' \in BOOLEAN
      /\ blocks' \in Inputs
  BY <1>1 DEF StartOn
<1>9. (pair \in 0..Len(blocks[0]))'
  <2>1. pair' = p /\ blocks' = blocks
    BY DEF StartOn
  <2>2. p \in 0..Len(blocks[0])
    BY <1>1
  <2> QED BY <2>1, <2>2
<1> QED BY <1>3, <1>4, <1>5, <1>6, <1>7, <1>8, <1>9 DEF TypeInv, TypeOK

LEMMA TypeNext ==
    ASSUME TypeInv, FrontInv, [Next]_vars
    PROVE  TypeInv'
<1>1. ASSUME NEW go0 \in BOOLEAN, NEW go1 \in BOOLEAN, NEW go \in BOOLEAN, Tick(go0, go1, go)
      PROVE  TypeInv'
  BY <1>1, TypeTick
<1>2. CASE StartRun
  <2>1. 1 \in 1..Len(blocks[0])
    BY <1>2, MergerAssumption DEF StartRun, TypeInv, Side
  <2>2. /\ StartOn(1, NoKey) /\ out' \in Seq(Record) /\ merged' \in Seq(Record)
        /\ runs' \in 0..MaxRuns
    BY <1>2, MergerAssumption DEF StartRun, TypeInv, TypeOK
  <2> QED BY <2>1, <2>2, TypeStart
<1>3. CASE NextPair
  <2>1. pair + 1 \in 1..Len(blocks[0]) /\ prev_user_key \in Nat \cup {NoKey}
    BY <1>3, MergerAssumption DEF NextPair, TypeInv, TypeOK, Side
  <2>2. out \in Seq(Record) /\ merged \in Seq(Record) /\ runs \in 0..MaxRuns
    BY DEF TypeInv, TypeOK
  <2>3. merged \o out \in Seq(Record) /\ << >> \in Seq(Record)
    BY <2>2
  <2>4. /\ StartOn(pair + 1, prev_user_key) /\ out' \in Seq(Record) /\ merged' \in Seq(Record)
        /\ runs' \in 0..MaxRuns
    BY <1>3, <2>2, <2>3 DEF NextPair
  <2> QED BY <2>1, <2>4, TypeStart
<1>4. CASE Idle
  BY <1>4 DEF Idle, frontVars, TypeInv, TypeOK
<1>5. CASE UNCHANGED vars
  BY <1>5 DEF vars, frontVars, mergerVars, TypeInv, TypeOK
<1> QED BY <1>1, <1>2, <1>3, <1>4, <1>5 DEF Next

LEMMA FrontTick ==
    ASSUME TypeInv, FrontInv, NEW go0 \in BOOLEAN, NEW go1 \in BOOLEAN, NEW go \in BOOLEAN,
           Tick(go0, go1, go)
    PROVE  FrontInv'
<1> DEFINE g == [s \in Side |-> IF s = 0 THEN go0 ELSE go1]
<1>1. /\ busy /\ SeeDone /\ LoadHeaders /\ Prefetches /\ MergerClock(go) /\ SourceClock(g)
      /\ UNCHANGED <<blocks, pair>>
  BY DEF Tick, MergerClock
<1> HIDE DEF g
<1>2. pair \in Nat /\ pair > 0 /\ \A s \in Side : SourceInv(s)
  <2>1. pair \in Nat
    BY DEF TypeInv, TypeOK
  <2>2. pair /= 0 /\ (pair > 0 => \A s \in Side : SourceInv(s))
    BY <1>1 DEF FrontInv
  <2>3. pair > 0
    BY ONLY <2>1, <2>2
  <2> QED BY ONLY <2>1, <2>2, <2>3
<1>3. ASSUME NEW s \in Side
      PROVE  /\ SourceInv(s)' /\ Block(s)' = Block(s)
             /\ Taken(s) \in 0..Len(Block(s)) /\ Len(Block(s)) \in Nat
             /\ Accepts(s) => /\ Taken(s)' = Taken(s) + 1 /\ Taken(s) + 1 \in 1..Len(Block(s))
                              /\ Head(hdr_fifo[s]) = Block(s)[Taken(s) + 1]
             /\ ~Accepts(s) => Taken(s)' = Taken(s)
  BY <1>1, <1>2, SourceStep, TakenRange, FrontTypes
<1>4. \/ HeaderError
      \/ /\ \A s \in Side : ~AcceptsBad(s)
         /\ UNCHANGED error
         /\ \/ WaitHeader \/ Capture \/ CmpSetup \/ Emit \/ Drop \/ Stall
  BY <1>1 DEF MergerClock
<1>5. ~error /\ ~done /\ state /= "IDLE" /\ busy \in BOOLEAN /\ error \in BOOLEAN
  BY <1>1 DEF FrontInv, TypeInv, TypeOK
\* Where the FSM goes, and that it ends only with both sources done.
<1>6. /\ busy' \/ done' => ~error'
      /\ busy' => ~done'
      /\ busy' <=> state' /= "IDLE"
      /\ ~error' /\ ~busy' => \A s \in Side : source_done_seen[s]
  <2>1. \A st \in MergerStates, s \in Side : st /= "IDLE" /\ GoOn(st, s) =>
          busy' /\ ~done' /\ state' /= "IDLE"
    BY <1>1 DEF GoOn
  <2>2. Finish => ~busy' /\ done' /\ state' = "IDLE"
    BY DEF Finish
  <2>3. CASE HeaderError
    <3>1. ~busy' /\ ~done' /\ error' /\ state' = "IDLE"
      BY <2>3 DEF HeaderError
    <3> QED BY <3>1
  <2>4. /\ {"WAIT_HEADER", "CAPTURE", "CMP_SETUP", "EMIT", "DROP"} \subseteq MergerStates \ {"IDLE"}
        /\ src \in Side /\ selected_source \in Side /\ state \in MergerStates
        /\ \A s \in Side : Other(s) \in Side /\ \A r \in Side : r = s \/ r = Other(s)
    BY DEF TypeInv, TypeOK, Other, Side, MergerStates
  <2>5. ASSUME UNCHANGED error, WaitHeader
        PROVE  \/ busy' /\ ~done' /\ state' /= "IDLE"
               \/ ~busy' /\ done' /\ state' = "IDLE" /\ \A s \in Side : source_done_seen[s]
    BY <2>1, <2>2, <2>4, <2>5 DEF WaitHeader
  <2>6. ASSUME NEW s \in Side, Refill(s)
        PROVE  \/ busy' /\ ~done' /\ state' /= "IDLE"
               \/ ~busy' /\ done' /\ state' = "IDLE" /\ \A r \in Side : source_done_seen[r]
    BY <2>1, <2>2, <2>4, <2>6 DEF Refill
  <2>7. ASSUME Capture \/ CmpSetup \/ Stall
        PROVE  busy' /\ ~done' /\ state' /= "IDLE"
    BY <2>1, <2>4, <2>7 DEF Capture, CmpSetup, Stall
  <2>8. ASSUME UNCHANGED error, WaitHeader \/ Capture \/ CmpSetup \/ Emit \/ Drop \/ Stall
        PROVE  /\ ~error'
               /\ \/ busy' /\ ~done' /\ state' /= "IDLE"
                  \/ ~busy' /\ done' /\ state' = "IDLE" /\ \A s \in Side : source_done_seen[s]
    <3>1. ~error'
      BY <2>8, <1>5
    <3>2. Emit \/ Drop => Refill(selected_source)
      BY DEF Emit, Drop
    <3> QED BY <3>1, <3>2, <2>4, <2>5, <2>6, <2>7, <2>8
  <2> QED BY <1>4, <2>3, <2>8
<1>7. ASSUME ~error', NEW s \in Side, NEW i \in 1..Taken(s)'
      PROVE  Block(s)'[i].valid
  <2>1. ~AcceptsBad(s)
    <3>1. HeaderError => error'
      BY DEF HeaderError
    <3> QED BY <3>1, <1>4, <1>7
  <2>2. \A j \in 1..Taken(s) : Block(s)[j].valid
    BY <1>2, <1>5 DEF FrontInv
  <2>3. CASE Accepts(s)
    <3>1. Block(s)[Taken(s) + 1].valid
      BY <2>1, <2>3, <1>3 DEF AcceptsBad
    <3>2. i \in 1..Taken(s) \/ i = Taken(s) + 1
      <4>1. i \in 1..Taken(s) + 1 /\ Taken(s) \in Nat
        BY <1>3, <1>7, <2>3
      <4> QED BY <4>1
    <3> QED BY <3>1, <3>2, <2>2, <1>3
  <2>4. CASE ~Accepts(s)
    BY <2>4, <2>2, <1>3, <1>7
  <2> QED BY <2>3, <2>4
<1>8. ASSUME ~error', ~busy', NEW s \in Side
      PROVE  Taken(s)' = Len(Block(s)')
  <2>1. source_done_seen[s]
    BY <1>6, <1>8
  <2>2. todo[s] = <<>> /\ hdr_fifo[s] = <<>>
    BY <2>1, <1>2 DEF SourceInv
  <2>3. Taken(s) = Len(Block(s)) /\ ~Accepts(s)
    BY <2>2, <1>2, TakenRange DEF Accepts
  <2> QED BY <2>3, <1>3
<1>9. pair' > 0 /\ pair' /= 0
  BY <1>1, <1>2
<1>10. pair' = 0 => ~busy' /\ ~done' /\ ~error'
  BY <1>9
<1>11. \A s \in Side : SourceInv(s)'
  BY <1>3
<1>12. ~error' => \A s \in Side : \A i \in 1..Taken(s)' : Block(s)'[i].valid
  BY <1>7
<1>13. ~error' /\ ~busy' => \A s \in Side : Taken(s)' = Len(Block(s)')
  BY <1>8
<1> QED BY <1>6, <1>10, <1>11, <1>12, <1>13 DEF FrontInv

\* A pair starts with nothing taken, held or used.
LEMMA StartFacts ==
    ASSUME TypeInv, NEW p \in 1..Len(blocks[0]), NEW seed, StartOn(p, seed)
    PROVE  /\ pair' = p /\ p > 0 /\ blocks' = blocks /\ busy' /\ ~done' /\ ~error'
           /\ state' = "WAIT_HEADER" /\ src' = 0
           /\ prev_user_key' = seed /\ seed_prev_user_key' = seed
           /\ \A s \in Side : /\ SourceInv(s)' /\ Taken(s)' = 0
                              /\ ~buf_valid'[s] /\ ~prefetched'[s] /\ ~source_done_seen'[s]
<1>1. /\ blocks \in [Side -> Seq(Seq(Record))]
      /\ Len(blocks[0]) = Len(blocks[1])
  BY MergerAssumption DEF TypeInv
<1>2. /\ pair' = p /\ p > 0 /\ blocks' = blocks /\ state' = "WAIT_HEADER" /\ src' = 0
      /\ prev_user_key' = seed /\ seed_prev_user_key' = seed
  BY <1>1 DEF StartOn, Side
<1>3. busy' /\ ~done' /\ ~error'
  BY DEF StartOn
<1>4. ASSUME NEW s \in Side
      PROVE  /\ SourceInv(s)' /\ Taken(s)' = 0
             /\ ~buf_valid'[s] /\ ~prefetched'[s] /\ ~source_done_seen'[s]
  <2>1. ~buf_valid'[s] /\ ~prefetched'[s] /\ ~source_done_seen'[s] /\ ~source_done_latched'[s]
    BY DEF StartOn, NoSide
  <2>2. Block(s)' = blocks[s][p] /\ todo'[s] = blocks[s][p] /\ hdr_fifo'[s] = <<>>
    BY <1>2 DEF StartOn, Block
  <2>3. blocks[s][p] \in Seq(Record)
    BY <1>1 DEF Side
  <2>4. ASSUME NEW b \in Seq(Record)
        PROVE  InOrder(b, b, <<>>) /\ TakenOf(b, b, <<>>) = 0
    <3>1. Len(b) \in Nat /\ Len(<<>>) = 0
      OBVIOUS
    <3>2. TakenOf(b, b, <<>>) = 0
      <4>1. \A n \in Nat : n - (n + 0) = 0
        OBVIOUS
      <4>2. Len(b) - (Len(b) + Len(<<>>)) = 0
        BY ONLY <3>1, <4>1
      <4> QED BY <4>2 DEF TakenOf
    <3>3. \A i \in 1..Len(b) : b[i] = b[TakenOf(b, b, <<>>) + Len(<<>>) + i]
      BY <3>1, <3>2
    <3> QED BY <3>1, <3>2, <3>3 DEF InOrder
  <2> QED BY <2>1, <2>2, <2>3, <2>4 DEF SourceInv, Taken
<1> QED BY <1>2, <1>3, <1>4

LEMMA FrontStart ==
    ASSUME TypeInv, NEW p \in 1..Len(blocks[0]), NEW seed, StartOn(p, seed)
    PROVE  FrontInv'
<1>1. /\ pair' = p /\ p > 0 /\ busy' /\ ~done' /\ ~error' /\ state' = "WAIT_HEADER"
      /\ \A s \in Side : SourceInv(s)' /\ Taken(s)' = 0
  BY StartFacts
<1>2. pair' /= 0
  BY <1>1
<1>3. \A s \in Side : \A i \in 1..Taken(s)' : FALSE
  BY <1>1
<1> QED BY <1>1, <1>2, <1>3 DEF FrontInv

LEMMA PairsStarted ==
    ASSUME TypeInv, StartRun \/ NextPair
    PROVE  \E p \in 1..Len(blocks[0]), seed \in Nat \cup {NoKey} : StartOn(p, seed)
<1>1. Len(blocks[0]) \in Nat
  BY MergerAssumption DEF TypeInv, Side
<1>2. CASE StartRun
  <2>1. 1 \in 1..Len(blocks[0]) /\ StartOn(1, NoKey)
    BY <1>1, <1>2 DEF StartRun
  <2> QED BY <2>1
<1>3. CASE NextPair
  <2>1. /\ pair + 1 \in 1..Len(blocks[0]) /\ StartOn(pair + 1, prev_user_key)
        /\ prev_user_key \in Nat \cup {NoKey}
    BY <1>1, <1>3 DEF NextPair, TypeInv, TypeOK
  <2> QED BY <2>1
<1> QED BY <1>2, <1>3

\* A step that leaves the pair and its front end alone.
LEMMA FrontKept ==
    ASSUME UNCHANGED <<blocks, pair, frontVars, source_done_seen, state, src, prefetched, buf_valid>>,
           NEW s \in Side
    PROVE  /\ Block(s)' = Block(s) /\ Taken(s)' = Taken(s) /\ SourceInv(s)' = SourceInv(s)
           /\ Held(s)' = Held(s) /\ Used(s)' = Used(s)
BY DEF frontVars, Block, Taken, SourceInv, Held, Used

LEMMA FrontNext ==
    ASSUME TypeInv, FrontInv, [Next]_vars
    PROVE  FrontInv'
<1>1. ASSUME NEW go0 \in BOOLEAN, NEW go1 \in BOOLEAN, NEW go \in BOOLEAN, Tick(go0, go1, go)
      PROVE  FrontInv'
  BY <1>1, FrontTick
<1>2. CASE StartRun \/ NextPair
  BY <1>2, PairsStarted, FrontStart
<1>3. CASE Idle
  <2>1. /\ UNCHANGED <<blocks, pair, frontVars, source_done_seen, state, src, prefetched, buf_valid>>
        /\ UNCHANGED <<busy, error>>
    BY <1>3 DEF Idle
  <2>2. ~busy /\ ~done'
    BY <1>3 DEF Idle
  <2>3. \A s \in Side : /\ Block(s)' = Block(s) /\ Taken(s)' = Taken(s)
                        /\ SourceInv(s) => SourceInv(s)'
    BY <2>1, FrontKept
  <2>4. pair' = pair /\ busy' = busy /\ error' = error /\ state' = state
    BY <2>1
  <2> QED BY <2>2, <2>3, <2>4 DEF FrontInv
<1>4. CASE UNCHANGED vars
  <2>1. /\ UNCHANGED <<blocks, pair, frontVars, source_done_seen, state, src, prefetched, buf_valid>>
        /\ pair' = pair /\ busy' = busy /\ error' = error /\ state' = state /\ done' = done
    BY <1>4 DEF vars, mergerVars
  <2>2. \A s \in Side : /\ Block(s)' = Block(s) /\ Taken(s)' = Taken(s)
                        /\ SourceInv(s) => SourceInv(s)'
    BY <2>1, FrontKept
  <2> QED BY <2>1, <2>2 DEF FrontInv
<1> QED BY <1>1, <1>2, <1>3, <1>4 DEF Next

LEMMA TypeInit ==
    ASSUME Init
    PROVE  TypeInv /\ FrontInv
<1>1. /\ blocks \in Inputs /\ Len(blocks[0]) \in Nat /\ HdrFifoDepth \in Nat /\ MaxRuns \in Nat
  BY MergerAssumption DEF Init, Side
<1>2. /\ pair \in 0..Len(blocks[0]) /\ runs \in 0..MaxRuns /\ out \in Seq(Record)
      /\ merged \in Seq(Record) /\ prev_user_key \in Nat \cup {NoKey}
      /\ seed_prev_user_key \in Nat \cup {NoKey}
      /\ state \in MergerStates /\ src \in Side /\ selected_source \in Side
  BY <1>1 DEF Init, MergerStates, Side
<1>3. /\ todo \in [Side -> Seq(Record)] /\ hdr_fifo \in [Side -> Seq(Record)]
      /\ \A s \in Side : Len(hdr_fifo[s]) <= HdrFifoDepth
  BY <1>1 DEF Init
<1>4. /\ source_done_latched \in [Side -> BOOLEAN] /\ source_done_seen \in [Side -> BOOLEAN]
      /\ prefetched \in [Side -> BOOLEAN] /\ buf_valid \in [Side -> BOOLEAN]
      /\ busy \in BOOLEAN /\ done \in BOOLEAN /\ error \in BOOLEAN
  BY DEF Init, NoSide
<1>5. rec \in [Side -> Record]
  BY DEF Init, EmptyRecord, Record
<1>6. pair = 0 /\ ~busy /\ ~done /\ ~error /\ state = "IDLE"
  BY DEF Init
<1>7. TypeInv
  BY <1>1, <1>2, <1>3, <1>4, <1>5 DEF TypeInv, TypeOK
<1>8. FrontInv
  BY <1>6 DEF FrontInv
<1> QED BY <1>7, <1>8

\* All registers, FIFOs and flags of the merger keep their types, no header
\* FIFO takes more than its depth, and the pair number stays in the chain.
THEOREM TypeCorrect == Spec => []TypeOK
<1>1. Init => TypeInv /\ FrontInv
  BY TypeInit
<1>2. TypeInv /\ FrontInv /\ [Next]_vars => (TypeInv /\ FrontInv)'
  BY TypeNext, FrontNext
<1>3. TypeInv => TypeOK
  BY DEF TypeInv
<1> QED BY <1>1, <1>2, <1>3, PTL DEF Spec

\* A pair that contains a record whose header fails its checks never ends in
\* done, wherever in the block the record is, whatever the merger was doing
\* when its header arrived and in whatever state earlier runs left it.
THEOREM BadRecordCorrect == Spec => []NoBadRecordMerged
<1>1. Init => TypeInv /\ FrontInv
  BY TypeInit
<1>2. TypeInv /\ FrontInv /\ [Next]_vars => (TypeInv /\ FrontInv)'
  BY TypeNext, FrontNext
<1>3. TypeInv /\ FrontInv => NoBadRecordMerged
  <2> SUFFICES ASSUME TypeInv, FrontInv, done, NEW r \in PairRecords(pair)
               PROVE  r.valid
    BY DEF NoBadRecordMerged
  <2>1. pair > 0 /\ ~error /\ ~busy
    BY MergerAssumption DEF FrontInv, TypeInv, TypeOK, Side
  <2>2. \A s \in Side : Taken(s) = Len(Block(s)) /\ \A i \in 1..Taken(s) : Block(s)[i].valid
    BY <2>1 DEF FrontInv
  <2>3. PICK s \in Side : r \in RecordsOf(Block(s))
    BY DEF PairRecords, RecordsOfPair, Block, Side
  <2>4. PICK i \in 1..Len(Block(s)) : r = Block(s)[i]
    BY <2>3 DEF RecordsOf
  <2> QED BY <2>2, <2>4
<1> QED BY <1>1, <1>2, <1>3, PTL DEF Spec

-----------------------------------------------------------------------------
(* Phases of the merger: which record it holds, waits for or takes early.  *)

\* What a clock edge does to flags and registers of a source.
LEMMA TickEffects ==
    ASSUME TypeInv, FrontInv, NEW go0 \in BOOLEAN, NEW go1 \in BOOLEAN, NEW go \in BOOLEAN,
           Tick(go0, go1, go)
    PROVE  /\ busy /\ ~error /\ pair > 0 /\ UNCHANGED <<blocks, pair, seed_prev_user_key, merged>>
           /\ \A s \in Side :
                /\ SourceInv(s)
                /\ Block(s)' = Block(s)
                /\ Accepts(s) => /\ Taken(s)' = Taken(s) + 1 /\ Taken(s) + 1 \in 1..Len(Block(s))
                                 /\ rec'[s] = Block(s)[Taken(s) + 1]
                /\ ~Accepts(s) => Taken(s)' = Taken(s) /\ rec'[s] = rec[s]
                /\ source_done_seen[s] => source_done_seen'[s]
                /\ prefetched'[s] <=> /\ ~(state = "WAIT_HEADER" /\ src = s)
                                      /\ prefetched[s] \/ (Accepts(s) /\ CanPrefetch(s))
                /\ Accepts(s) <=> /\ hdr_fifo[s] /= <<>>
                                  /\ \/ state = "WAIT_HEADER" /\ src = s /\ ~prefetched[s]
                                     \/ CanPrefetch(s)
                /\ source_done_seen[s] => hdr_fifo[s] = <<>> /\ Taken(s) = Len(Block(s))
<1> DEFINE g == [s \in Side |-> IF s = 0 THEN go0 ELSE go1]
<1>1. /\ busy /\ SeeDone /\ LoadHeaders /\ Prefetches /\ SourceClock(g)
      /\ UNCHANGED <<blocks, pair, seed_prev_user_key, merged>>
  BY DEF Tick, MergerClock
<1> HIDE DEF g
<1>2. pair > 0 /\ ~error /\ \A s \in Side : SourceInv(s)
  BY <1>1, MergerAssumption DEF FrontInv, TypeInv, TypeOK, Side
<1>3. ASSUME NEW s \in Side
      PROVE  /\ Block(s)' = Block(s)
             /\ Accepts(s) => /\ Taken(s)' = Taken(s) + 1 /\ Taken(s) + 1 \in 1..Len(Block(s))
                              /\ rec'[s] = Block(s)[Taken(s) + 1]
             /\ ~Accepts(s) => Taken(s)' = Taken(s) /\ rec'[s] = rec[s]
  <2>1. rec'[s] = IF Accepts(s) THEN Head(hdr_fifo[s]) ELSE rec[s]
    BY <1>1 DEF LoadHeaders
  <2>2. /\ Block(s)' = Block(s)
        /\ Accepts(s) => /\ Taken(s)' = Taken(s) + 1 /\ Taken(s) + 1 \in 1..Len(Block(s))
                         /\ Head(hdr_fifo[s]) = Block(s)[Taken(s) + 1]
        /\ ~Accepts(s) => Taken(s)' = Taken(s)
    BY <1>1, <1>2, SourceStep
  <2> QED BY <2>1, <2>2
<1>4. ASSUME NEW s \in Side
      PROVE  source_done_seen[s] => source_done_seen'[s]
  BY <1>1, Zenon DEF SeeDone
<1>5. ASSUME NEW s \in Side
      PROVE  prefetched'[s] <=> /\ ~(state = "WAIT_HEADER" /\ src = s)
                                /\ prefetched[s] \/ (Accepts(s) /\ CanPrefetch(s))
  <2>1. prefetched'[s] = IF state = "WAIT_HEADER" /\ src = s THEN FALSE
                         ELSE prefetched[s] \/ (Accepts(s) /\ CanPrefetch(s))
    BY <1>1, Zenon DEF Prefetches
  <2> QED BY <2>1, Zenon
<1>6. ASSUME NEW s \in Side
      PROVE  Accepts(s) <=> /\ hdr_fifo[s] /= <<>>
                            /\ \/ state = "WAIT_HEADER" /\ src = s /\ ~prefetched[s]
                               \/ CanPrefetch(s)
  BY <1>1, <1>2, Zenon DEF Accepts, record_ready
<1>7. ASSUME NEW s \in Side, source_done_seen[s]
      PROVE  hdr_fifo[s] = <<>> /\ Taken(s) = Len(Block(s))
  BY <1>2, <1>7, TakenRange DEF SourceInv
<1> QED BY <1>1, <1>2, <1>3, <1>4, <1>5, <1>6, <1>7

\* While records are compared, emitted or dropped no header is taken.
LEMMA NothingTaken ==
    ASSUME TypeInv, FrontInv, PhaseInv,
           NEW go0 \in BOOLEAN, NEW go1 \in BOOLEAN, NEW go \in BOOLEAN, Tick(go0, go1, go),
           state \in {"CMP_SETUP", "EMIT", "DROP"}
    PROVE  /\ \A s \in Side : ~Accepts(s) /\ (buf_valid[s] \/ source_done_seen[s])
           /\ \A s \in Side : ~prefetched[s] /\ ~prefetched'[s] /\ Taken(s)' = Taken(s)
           /\ \A s \in Side : rec'[s] = rec[s]
<1>1. busy
  BY DEF Tick, MergerClock
<1>2. \A s \in Side : (buf_valid[s] \/ source_done_seen[s]) /\ ~prefetched[s]
  BY <1>1 DEF PhaseInv, Side
<1>3. \A s \in Side : ~CanPrefetch(s)
  BY <1>2 DEF CanPrefetch
<1>4. state /= "WAIT_HEADER"
  OBVIOUS
<1>5. \A s \in Side : ~Accepts(s)
  BY <1>3, <1>4, TickEffects
<1>6. \A s \in Side : ~prefetched'[s]
  BY <1>2, <1>5, TickEffects
<1> QED BY <1>2, <1>5, <1>6, TickEffects

\* What the FSM does to the record buffers.
LEMMA BufEffects ==
    ASSUME TypeInv, NEW s \in Side
    PROVE  /\ buf_valid' = [buf_valid EXCEPT ![s] = TRUE] =>
                buf_valid'[s] /\ (buf_valid'[Other(s)] <=> buf_valid[Other(s)])
           /\ buf_valid' = [buf_valid EXCEPT ![s] = FALSE] =>
                ~buf_valid'[s] /\ (buf_valid'[Other(s)] <=> buf_valid[Other(s)])
<1>1. /\ buf_valid \in [Side -> BOOLEAN] /\ Other(s) \in Side /\ Other(s) /= s
  BY DEF TypeInv, TypeOK, Other, Side
<1>2. ASSUME buf_valid' = [buf_valid EXCEPT ![s] = TRUE]
      PROVE  buf_valid'[s] /\ (buf_valid'[Other(s)] <=> buf_valid[Other(s)])
  BY <1>1, <1>2, Zenon
<1>3. ASSUME buf_valid' = [buf_valid EXCEPT ![s] = FALSE]
      PROVE  ~buf_valid'[s] /\ (buf_valid'[Other(s)] <=> buf_valid[Other(s)])
  BY <1>1, <1>3, Zenon
<1> QED BY <1>2, <1>3

LEMMA PhaseWait ==
    ASSUME TypeInv, FrontInv, PhaseInv, WaitHeader, busy',
           NEW go0 \in BOOLEAN, NEW go1 \in BOOLEAN, NEW go \in BOOLEAN, Tick(go0, go1, go)
    PROVE  PhaseInv'
<1>1. /\ state = "WAIT_HEADER" /\ buf_valid' = buf_valid /\ ~buf_valid[src]
      /\ Other(0) = 1 /\ Other(1) = 0 /\ src \in {0, 1}
  BY TickEffects DEF WaitHeader, PhaseInv, TypeInv, TypeOK, Side, Other
<1>2. /\ ~prefetched[0] /\ ~prefetched'[0]
      /\ prefetched[1] => Taken(1) = 1 /\ ~buf_valid[1] /\ src = 1
      /\ ~prefetched'[1]
  <2>1. /\ ~prefetched[0]
        /\ prefetched[1] => Taken(1) = 1 /\ ~buf_valid[1] /\ src = 1
    BY <1>1, TickEffects DEF PhaseInv
  <2>2. ~CanPrefetch(0) /\ ~CanPrefetch(1)
    BY <1>1 DEF CanPrefetch
  <2>3. ~prefetched'[0] /\ ~prefetched'[1]
    BY <1>1, <2>1, <2>2, TickEffects DEF Side
  <2> QED BY <2>1, <2>3
<1>3. src = 0 => Taken(1)' = Taken(1)
  <2>1. src = 0 => ~Accepts(1)
    BY <1>1, TickEffects DEF Side, CanPrefetch
  <2> QED BY <2>1, TickEffects DEF Side
<1>4. \A s \in Side : source_done_seen[s] => source_done_seen'[s]
  BY TickEffects
<1>5. \/ state' = "CAPTURE" /\ src' = src
      \/ state' = "WAIT_HEADER" /\ src' = src
      \/ source_done_seen[src] /\ state' = "CMP_SETUP" /\ src' = src /\ buf_valid[Other(src)]
      \/ /\ source_done_seen[src] /\ state' = "WAIT_HEADER" /\ src' = Other(src)
         /\ ~buf_valid[Other(src)]
  <2>1. ~Finish
    BY DEF Finish
  <2> QED BY <2>1 DEF WaitHeader, GoOn
<1>6. /\ buf_valid[0] \/ source_done_seen[0] \/ src = 0
      /\ buf_valid[1] \/ source_done_seen[1] \/ src = 1
           \/ (src = 0 /\ (prefetched[1] \/ Taken(1) = 0))
  BY <1>1, TickEffects DEF PhaseInv
<1>7. /\ state' \in {"WAIT_HEADER", "CAPTURE"} => ~buf_valid'[src']
      /\ state' \in {"CMP_SETUP", "EMIT", "DROP"} => buf_valid'[0] \/ buf_valid'[1]
      /\ state' \notin {"EMIT", "DROP"}
  BY <1>1, <1>5
<1>8. /\ buf_valid'[0] \/ source_done_seen'[0]
           \/ (state' \in {"WAIT_HEADER", "CAPTURE"} /\ src' = 0)
  BY <1>1, <1>4, <1>5, <1>6 DEF Side
<1>9. \/ buf_valid'[1] \/ source_done_seen'[1]
      \/ state' \in {"WAIT_HEADER", "CAPTURE"} /\ src' = 1
      \/ state' \in {"WAIT_HEADER", "CAPTURE"} /\ src' = 0 /\ (prefetched'[1] \/ Taken(1)' = 0)
  BY <1>1, <1>2, <1>3, <1>4, <1>5, <1>6 DEF Side
<1> QED BY <1>2, <1>7, <1>8, <1>9 DEF PhaseInv

LEMMA PhaseCapture ==
    ASSUME TypeInv, FrontInv, PhaseInv, Capture, busy', Len(Block(1)) /= 1,
           NEW go0 \in BOOLEAN, NEW go1 \in BOOLEAN, NEW go \in BOOLEAN, Tick(go0, go1, go)
    PROVE  PhaseInv'
<1>1. /\ state = "CAPTURE" /\ ~buf_valid[src] /\ Other(0) = 1 /\ Other(1) = 0 /\ src \in {0, 1}
  BY TickEffects DEF Capture, PhaseInv, TypeInv, TypeOK, Side, Other
<1>2. buf_valid'[src] /\ (buf_valid'[Other(src)] <=> buf_valid[Other(src)])
  BY <1>1, BufEffects DEF Capture, Side
<1>3. /\ buf_valid[0] \/ source_done_seen[0] \/ src = 0
      /\ buf_valid[1] \/ source_done_seen[1] \/ src = 1
           \/ (src = 0 /\ (prefetched[1] \/ Taken(1) = 0))
      /\ ~prefetched[0]
      /\ prefetched[1] => Taken(1) = 1 /\ ~buf_valid[1] /\ src = 0
  BY <1>1, TickEffects DEF PhaseInv
<1>4. ~CanPrefetch(0) /\ (CanPrefetch(1) => ~buf_valid[1] /\ ~source_done_seen[1] /\ src = 0)
  BY <1>1, <1>3 DEF CanPrefetch
<1>5. \A s \in Side : source_done_seen[s] => source_done_seen'[s]
  BY TickEffects
<1>6. ~prefetched'[0]
  BY <1>3, <1>4, TickEffects DEF Side
<1>7. Accepts(1) => CanPrefetch(1) /\ ~prefetched[1]
  BY <1>1, TickEffects DEF Side, CanPrefetch
<1>8. prefetched'[1] => /\ src = 0 /\ Taken(1)' = 1 /\ ~buf_valid[1] /\ ~source_done_seen[1]
  <2>1. CASE prefetched[1]
    <3>1. src = 0 /\ Taken(1)' = 1 /\ ~buf_valid[1]
      BY <2>1, <1>3, <1>7, TickEffects DEF Side
    <3>2. ~source_done_seen[1]
      BY <2>1, <1>3, TickEffects DEF Side
    <3> QED BY <3>1, <3>2
  <2>2. CASE ~prefetched[1] /\ Accepts(1) /\ CanPrefetch(1)
    <3>1. Taken(1) = 0
      BY <2>2, <1>3, <1>4
    <3>2. Taken(1)' = 1
      BY <3>1, <2>2, TickEffects DEF Side
    <3> QED BY <2>2, <3>2, <1>4
  <2> QED BY <2>1, <2>2, TickEffects DEF Side
<1>9. \/ /\ state' = "CMP_SETUP" /\ src' = src
         /\ buf_valid[Other(src)] \/ source_done_seen[Other(src)]
      \/ /\ state' = "WAIT_HEADER" /\ src' = Other(src)
         /\ ~buf_valid[Other(src)] /\ ~source_done_seen[Other(src)]
  BY DEF Capture, GoOn
<1>10. prefetched'[1] => /\ Taken(1)' = 1 /\ ~buf_valid'[1]
                         /\ state' = "WAIT_HEADER" /\ src' = 1
  BY <1>1, <1>2, <1>8, <1>9
<1>11. /\ state' \in {"WAIT_HEADER", "CAPTURE"} => ~buf_valid'[src']
       /\ state' \in {"CMP_SETUP", "EMIT", "DROP"} => buf_valid'[0] \/ buf_valid'[1]
       /\ state' \notin {"EMIT", "DROP"}
  BY <1>1, <1>2, <1>9
<1>12. /\ buf_valid'[0] \/ source_done_seen'[0]
            \/ (state' \in {"WAIT_HEADER", "CAPTURE"} /\ src' = 0)
       /\ buf_valid'[1] \/ source_done_seen'[1]
            \/ (state' \in {"WAIT_HEADER", "CAPTURE"} /\ src' = 1)
  BY <1>1, <1>2, <1>3, <1>5, <1>9 DEF Side
<1> QED BY <1>6, <1>10, <1>11, <1>12 DEF PhaseInv

\* The selection does not change while its record is emitted or dropped.
LEMMA SelectionKept ==
    ASSUME \A s \in Side : (buf_valid'[s] <=> buf_valid[s]) /\ rec'[s] = rec[s],
           prev_user_key' = prev_user_key
    PROVE  next_sel_src' = next_sel_src /\ (next_keep' <=> next_keep)
<1>1. next_sel_src' = next_sel_src
  BY DEF next_sel_src, Side
<1>2. next_sel_src \in Side
  BY DEF next_sel_src, Side
<1>3. rec'[next_sel_src'] = rec[next_sel_src]
  BY <1>1, <1>2
<1> QED BY <1>1, <1>3 DEF next_keep

LEMMA PhaseStall ==
    ASSUME TypeInv, FrontInv, PhaseInv, Stall, busy',
           NEW go0 \in BOOLEAN, NEW go1 \in BOOLEAN, NEW go \in BOOLEAN, Tick(go0, go1, go)
    PROVE  PhaseInv'
<1>1. /\ state \in {"CAPTURE", "CMP_SETUP", "EMIT", "DROP"} /\ state' = state /\ src' = src
      /\ buf_valid' = buf_valid /\ selected_source' = selected_source
      /\ prev_user_key' = prev_user_key
      /\ Other(0) = 1 /\ Other(1) = 0 /\ src \in {0, 1} /\ busy
  BY TickEffects DEF Stall, GoOn, TypeInv, TypeOK, Side, Other
<1>2. \A s \in Side : source_done_seen[s] => source_done_seen'[s]
  BY TickEffects
<1>3. CASE state = "CAPTURE"
  <2>1. /\ buf_valid[0] \/ source_done_seen[0] \/ src = 0
        /\ buf_valid[1] \/ source_done_seen[1] \/ src = 1
             \/ (src = 0 /\ (prefetched[1] \/ Taken(1) = 0))
        /\ ~prefetched[0] /\ ~buf_valid[src]
        /\ prefetched[1] => Taken(1) = 1 /\ ~buf_valid[1] /\ src = 0
    BY <1>1, <1>3 DEF PhaseInv
  <2>2. ~CanPrefetch(0) /\ (CanPrefetch(1) => ~buf_valid[1] /\ ~source_done_seen[1] /\ src = 0)
    BY <1>1, <1>3, <2>1 DEF CanPrefetch
  <2>3. ~prefetched'[0]
    BY <2>1, <2>2, TickEffects DEF Side
  <2>4. Accepts(1) => CanPrefetch(1) /\ ~prefetched[1] /\ Taken(1)' = Taken(1) + 1
    BY <1>3, TickEffects DEF Side, CanPrefetch
  <2>5. prefetched'[1] <=> prefetched[1] \/ Accepts(1)
    BY <1>3, <2>4, TickEffects DEF Side
  <2>6. ~Accepts(1) => Taken(1)' = Taken(1)
    BY TickEffects DEF Side
  <2>7. prefetched'[1] => Taken(1)' = 1 /\ ~buf_valid'[1] /\ src' = 0
    <3>1. Accepts(1) => Taken(1) = 0
      BY <2>1, <2>2, <2>4
    <3> QED BY <3>1, <1>1, <2>1, <2>2, <2>4, <2>5, <2>6
  <2>8. src = 0 /\ (prefetched[1] \/ Taken(1) = 0) => prefetched'[1] \/ Taken(1)' = 0
    BY <2>5, <2>6
  <2>9. /\ buf_valid'[0] \/ source_done_seen'[0] \/ src' = 0
        /\ buf_valid'[1] \/ source_done_seen'[1] \/ src' = 1
             \/ (src' = 0 /\ (prefetched'[1] \/ Taken(1)' = 0))
    BY <1>1, <1>2, <2>1, <2>8 DEF Side
  <2>10. state' = "CAPTURE" /\ ~buf_valid'[src']
    BY <1>1, <1>3, <2>1
  <2> QED BY <2>3, <2>7, <2>9, <2>10 DEF PhaseInv
<1>4. CASE state \in {"CMP_SETUP", "EMIT", "DROP"}
  <2>1. /\ \A s \in Side : (buf_valid'[s] <=> buf_valid[s]) /\ rec'[s] = rec[s]
        /\ \A s \in Side : ~prefetched'[s] /\ (buf_valid[s] \/ source_done_seen[s])
    BY <1>1, <1>4, NothingTaken
  <2>2. next_sel_src' = next_sel_src /\ (next_keep' <=> next_keep)
    BY <1>1, <2>1, SelectionKept
  <2>3. ~prefetched'[0] /\ ~prefetched'[1]
    BY <1>1, <1>2, <2>1 DEF Side
  <2>4. /\ buf_valid'[0] \/ source_done_seen'[0]
        /\ buf_valid'[1] \/ source_done_seen'[1]
    BY <1>1, <1>2, <2>1 DEF Side
  <2>5. /\ state' \in {"CMP_SETUP", "EMIT", "DROP"}
        /\ buf_valid'[0] \/ buf_valid'[1]
        /\ state' \in {"EMIT", "DROP"} => selected_source' = next_sel_src'
        /\ state' = "EMIT" => next_keep'
        /\ state' = "DROP" => ~next_keep'
    BY <1>1, <1>4, <2>2 DEF PhaseInv
  <2> QED BY <2>3, <2>4, <2>5 DEF PhaseInv
<1> QED BY <1>1, <1>3, <1>4

LEMMA PhaseCmp ==
    ASSUME TypeInv, FrontInv, PhaseInv, CmpSetup, busy',
           NEW go0 \in BOOLEAN, NEW go1 \in BOOLEAN, NEW go \in BOOLEAN, Tick(go0, go1, go)
    PROVE  PhaseInv'
<1>1. /\ state = "CMP_SETUP" /\ state' = (IF next_keep THEN "EMIT" ELSE "DROP")
      /\ buf_valid' = buf_valid /\ selected_source' = next_sel_src
      /\ prev_user_key' = prev_user_key /\ busy
  BY TickEffects DEF CmpSetup, GoOn
<1>2. \A s \in Side : source_done_seen[s] => source_done_seen'[s]
  BY TickEffects
<1>3. /\ \A s \in Side : (buf_valid'[s] <=> buf_valid[s]) /\ rec'[s] = rec[s]
      /\ \A s \in Side : ~prefetched'[s] /\ (buf_valid[s] \/ source_done_seen[s])
  BY <1>1, NothingTaken
<1>4. next_sel_src' = next_sel_src /\ (next_keep' <=> next_keep)
  BY <1>1, <1>3, SelectionKept
<1>5. /\ ~prefetched'[0] /\ ~prefetched'[1]
      /\ buf_valid'[0] \/ source_done_seen'[0]
      /\ buf_valid'[1] \/ source_done_seen'[1]
  BY <1>1, <1>2, <1>3 DEF Side
<1>6. /\ state' \in {"EMIT", "DROP"} /\ selected_source' = next_sel_src'
      /\ buf_valid'[0] \/ buf_valid'[1]
      /\ state' = "EMIT" => next_keep'
      /\ state' = "DROP" => ~next_keep'
  BY <1>1, <1>4 DEF PhaseInv
<1> QED BY <1>5, <1>6 DEF PhaseInv

LEMMA PhaseRefill ==
    ASSUME TypeInv, FrontInv, PhaseInv, Emit \/ Drop, busy',
           NEW go0 \in BOOLEAN, NEW go1 \in BOOLEAN, NEW go \in BOOLEAN, Tick(go0, go1, go)
    PROVE  PhaseInv'
<1> DEFINE s == selected_source
<1>1. /\ state \in {"EMIT", "DROP"} /\ Refill(s) /\ s \in {0, 1}
      /\ Other(0) = 1 /\ Other(1) = 0 /\ busy
  BY TickEffects DEF Emit, Drop, TypeInv, TypeOK, Side, Other
<1>2. \A r \in Side : source_done_seen[r] => source_done_seen'[r]
  BY TickEffects
<1>3. \A r \in Side : ~prefetched'[r] /\ (buf_valid[r] \/ source_done_seen[r])
  BY <1>1, NothingTaken
<1>4. ~buf_valid'[s] /\ (buf_valid'[Other(s)] <=> buf_valid[Other(s)])
  BY <1>1, BufEffects DEF Refill, Side
<1>5. \/ ~source_done_seen[s] /\ state' = "WAIT_HEADER" /\ src' = s
      \/ source_done_seen[s] /\ buf_valid[Other(s)] /\ state' = "CMP_SETUP"
      \/ /\ source_done_seen[s] /\ ~buf_valid[Other(s)] /\ ~source_done_seen[Other(s)]
         /\ state' = "WAIT_HEADER" /\ src' = Other(s)
  <2>1. ~Finish
    BY DEF Finish
  <2> QED BY <1>1, <2>1 DEF Refill, GoOn
<1> HIDE DEF s
<1>6. /\ ~prefetched'[0] /\ ~prefetched'[1]
      /\ state' \in {"WAIT_HEADER", "CMP_SETUP"}
      /\ state' = "WAIT_HEADER" => ~buf_valid'[src']
      /\ state' = "CMP_SETUP" => buf_valid'[0] \/ buf_valid'[1]
  BY <1>1, <1>3, <1>4, <1>5 DEF Side
<1>7. /\ buf_valid'[0] \/ source_done_seen'[0] \/ (state' = "WAIT_HEADER" /\ src' = 0)
      /\ buf_valid'[1] \/ source_done_seen'[1] \/ (state' = "WAIT_HEADER" /\ src' = 1)
  BY <1>1, <1>2, <1>3, <1>4, <1>5 DEF Side
<1> QED BY <1>6, <1>7 DEF PhaseInv

\* What the inputs say about the pair being merged.
PairInputs ==
    pair > 0 => /\ SortedBlock(Block(0)) /\ SortedBlock(Block(1))
                /\ DifferentTags(Block(0), Block(1))
                /\ Len(Block(1)) /= 1

LEMMA InputsOfPair ==
    ASSUME MergeInputs, TypeInv
    PROVE  PairInputs
<1>1. pair > 0 => pair \in 1..Len(blocks[0]) /\ blocks \in Inputs
  BY MergerAssumption DEF TypeInv, TypeOK, Side
<1> QED BY <1>1 DEF MergeInputs, PairInputs, Block

LEMMA PhaseTick ==
    ASSUME TypeInv, FrontInv, PhaseInv, PairInputs,
           NEW go0 \in BOOLEAN, NEW go1 \in BOOLEAN, NEW go \in BOOLEAN, Tick(go0, go1, go)
    PROVE  PhaseInv'
<1>1. CASE ~busy'
  BY <1>1 DEF PhaseInv
<1>2. CASE busy'
  <2>1. ~HeaderError
    BY <1>2 DEF HeaderError
  <2>2. WaitHeader \/ Capture \/ CmpSetup \/ Emit \/ Drop \/ Stall
    BY <2>1 DEF Tick, MergerClock
  <2>3. Len(Block(1)) /= 1
    BY TickEffects DEF PairInputs
  <2> QED BY <1>2, <2>2, <2>3, PhaseWait, PhaseCapture, PhaseCmp, PhaseRefill, PhaseStall
<1> QED BY <1>1, <1>2

LEMMA PhaseStart ==
    ASSUME TypeInv, NEW p \in 1..Len(blocks[0]), NEW seed, StartOn(p, seed)
    PROVE  PhaseInv'
<1>1. /\ state' = "WAIT_HEADER" /\ src' = 0
      /\ \A s \in Side : ~buf_valid'[s] /\ ~prefetched'[s] /\ Taken(s)' = 0
  BY StartFacts
<1> QED BY <1>1 DEF PhaseInv, Side

LEMMA PhaseNext ==
    ASSUME TypeInv, FrontInv, PhaseInv, PairInputs, [Next]_vars
    PROVE  PhaseInv'
<1>1. ASSUME NEW go0 \in BOOLEAN, NEW go1 \in BOOLEAN, NEW go \in BOOLEAN, Tick(go0, go1, go)
      PROVE  PhaseInv'
  BY <1>1, PhaseTick
<1>2. CASE StartRun \/ NextPair
  BY <1>2, PairsStarted, PhaseStart
<1>3. CASE Idle
  BY <1>3 DEF Idle, PhaseInv
<1>4. CASE UNCHANGED vars
  <2>1. /\ UNCHANGED <<blocks, pair, frontVars, source_done_seen, state, src, prefetched, buf_valid>>
        /\ UNCHANGED <<busy, rec, prev_user_key, selected_source, buf_valid>>
    BY <1>4 DEF vars, mergerVars
  <2>2. Taken(1)' = Taken(1)
    BY <2>1, FrontKept DEF Side
  <2>3. next_sel_src' = next_sel_src /\ (next_keep' <=> next_keep)
    BY <2>1, SelectionKept
  <2> QED BY <2>1, <2>2, <2>3 DEF PhaseInv
<1> QED BY <1>1, <1>2, <1>3, <1>4 DEF Next

-----------------------------------------------------------------------------
(* The records held, and the progress of the merge.                        *)

\* Except when a record is used up, an edge only adds what it takes.
LEMMA HeldKept ==
    ASSUME TypeInv, FrontInv, PhaseInv, WaitHeader \/ Capture \/ CmpSetup \/ Stall,
           NEW go0 \in BOOLEAN, NEW go1 \in BOOLEAN, NEW go \in BOOLEAN, Tick(go0, go1, go),
           NEW s \in Side
    PROVE  /\ Held(s)' <=> Held(s) \/ Accepts(s)
           /\ Accepts(s) => ~Held(s)
<1>1. /\ busy /\ src \in Side /\ selected_source \in Side /\ Other(s) /= s
      /\ Other(src) \in Side /\ Other(src) /= src
      /\ \A r \in Side : r = src \/ r = Other(src)
  BY TickEffects DEF TypeInv, TypeOK, Side, Other
<1>2. /\ ~prefetched[0]
      /\ prefetched[s] => /\ ~buf_valid[s]
                          /\ (state = "CAPTURE" /\ src = Other(s)) \/ (state = "WAIT_HEADER" /\ src = s)
      /\ state \in {"WAIT_HEADER", "CAPTURE"} => ~buf_valid[src]
  BY <1>1 DEF PhaseInv, Side, Other
<1>3. /\ prefetched'[s] <=> /\ ~(state = "WAIT_HEADER" /\ src = s)
                            /\ prefetched[s] \/ (Accepts(s) /\ CanPrefetch(s))
      /\ Accepts(s) <=> /\ hdr_fifo[s] /= <<>>
                        /\ \/ state = "WAIT_HEADER" /\ src = s /\ ~prefetched[s]
                           \/ CanPrefetch(s)
  BY TickEffects
<1>4. Accepts(s) => ~Held(s)
  BY <1>1, <1>2, <1>3 DEF Held, CanPrefetch
<1>5. CASE WaitHeader
  <2>1. /\ state = "WAIT_HEADER" /\ (buf_valid'[s] <=> buf_valid[s]) /\ ~CanPrefetch(s)
        /\ state' = "CAPTURE" /\ src' = src <=> prefetched[src] \/ hdr_fifo[src] /= <<>>
        /\ state' = "CAPTURE" => src' = src
    BY <1>5 DEF WaitHeader, GoOn, Finish, CanPrefetch
  <2>2. CASE src = s
    BY <2>1, <2>2, <1>2, <1>3 DEF Held
  <2>3. CASE src /= s
    BY <2>1, <2>3, <1>2, <1>3 DEF Held
  <2> QED BY <2>2, <2>3, <1>4
<1>6. CASE Capture
  <2>1. state = "CAPTURE" /\ state' /= "CAPTURE"
    BY <1>6 DEF Capture, GoOn
  <2>2. buf_valid'[src] /\ (buf_valid'[Other(src)] <=> buf_valid[Other(src)])
    BY <1>1, <1>6, BufEffects DEF Capture
  <2>3. CASE src = s
    BY <2>1, <2>2, <2>3, <1>4 DEF Held
  <2>4. CASE s = Other(src)
    <3>1. Held(s)' <=> buf_valid[s] \/ prefetched'[s]
      BY <2>1, <2>2, <2>4 DEF Held
    <3>2. Held(s) <=> buf_valid[s] \/ prefetched[s]
      BY <1>1, <2>4 DEF Held
    <3>3. Accepts(s) => CanPrefetch(s)
      BY <2>1, <1>3
    <3>4. prefetched'[s] <=> prefetched[s] \/ Accepts(s)
      BY <2>1, <3>3, <1>3
    <3> QED BY <3>1, <3>2, <3>4, <1>4
  <2> QED BY <1>1, <1>4, <2>3, <2>4
<1>7. CASE CmpSetup \/ Stall
  <2>1. /\ (buf_valid'[s] <=> buf_valid[s]) /\ state \in {"CAPTURE", "CMP_SETUP", "EMIT", "DROP"}
        /\ src' = src /\ (state' = "CAPTURE" <=> state = "CAPTURE")
    BY <1>7 DEF CmpSetup, Stall, GoOn
  <2>2. Accepts(s) => CanPrefetch(s)
    BY <2>1, <1>3
  <2>3. prefetched'[s] <=> prefetched[s] \/ Accepts(s)
    BY <2>1, <2>2, <1>3
  <2>4. Held(s)' <=> Held(s) \/ Accepts(s)
    BY <2>1, <2>3 DEF Held
  <2> QED BY <2>4, <1>4
<1> QED BY <1>5, <1>6, <1>7

LEMMA HeldUsed ==
    ASSUME TypeInv, FrontInv, PhaseInv, Emit \/ Drop,
           NEW go0 \in BOOLEAN, NEW go1 \in BOOLEAN, NEW go \in BOOLEAN, Tick(go0, go1, go)
    PROVE  \A s \in Side : /\ Taken(s)' = Taken(s) /\ rec'[s] = rec[s] /\ Block(s)' = Block(s)
                           /\ Held(s) <=> buf_valid[s]
                           /\ s = selected_source => buf_valid[s] /\ ~Held(s)'
                           /\ s /= selected_source => (Held(s)' <=> Held(s))
<1> DEFINE t == selected_source
<1>1. /\ busy /\ state \in {"EMIT", "DROP"} /\ Refill(t) /\ t \in Side
      /\ \A s \in Side : s = t \/ s = Other(t)
  BY TickEffects DEF Emit, Drop, TypeInv, TypeOK, Side, Other
<1>2. /\ \A s \in Side : ~prefetched[s] /\ ~prefetched'[s] /\ Taken(s)' = Taken(s)
      /\ \A s \in Side : rec'[s] = rec[s] /\ Block(s)' = Block(s)
  BY <1>1, NothingTaken, TickEffects
<1>3. ~buf_valid'[t] /\ (buf_valid'[Other(t)] <=> buf_valid[Other(t)])
  BY <1>1, BufEffects DEF Refill
<1>4. state' /= "CAPTURE" /\ state /= "CAPTURE"
  BY <1>1 DEF Refill, GoOn, Finish
<1>5. \A s \in Side : (Held(s) <=> buf_valid[s]) /\ (Held(s)' <=> buf_valid'[s])
  BY <1>2, <1>4 DEF Held
<1>6. buf_valid[t]
  <2>1. t = next_sel_src /\ (buf_valid[0] \/ buf_valid[1])
    BY <1>1 DEF PhaseInv
  <2> QED BY <2>1 DEF next_sel_src
<1> QED BY <1>1, <1>2, <1>3, <1>5, <1>6

LEMMA HeldTick ==
    ASSUME TypeInv, FrontInv, PhaseInv, HeldInv,
           NEW go0 \in BOOLEAN, NEW go1 \in BOOLEAN, NEW go \in BOOLEAN, Tick(go0, go1, go)
    PROVE  HeldInv'
<1> SUFFICES ASSUME ~error'
             PROVE  /\ \A s \in Side : Held(s)' => Taken(s)' >= 1 /\ rec'[s] = Block(s)'[Taken(s)']
                    /\ ~busy' => \A s \in Side : ~Held(s)'
  BY DEF HeldInv
<1>1. pair > 0 /\ ~error /\ busy
  BY TickEffects
<1>2. WaitHeader \/ Capture \/ CmpSetup \/ Emit \/ Drop \/ Stall
  <2>1. ~HeaderError
    BY DEF HeaderError
  <2> QED BY <2>1 DEF Tick, MergerClock
<1>3. ASSUME NEW s \in Side, Held(s)'
      PROVE  Taken(s)' >= 1 /\ rec'[s] = Block(s)'[Taken(s)']
  <2>1. Held(s) => Taken(s) >= 1 /\ rec[s] = Block(s)[Taken(s)]
    BY <1>1 DEF HeldInv
  <2>2. CASE WaitHeader \/ Capture \/ CmpSetup \/ Stall
    <3>1. Held(s) \/ Accepts(s)
      BY <1>3, <2>2, HeldKept
    <3>2. /\ Block(s)' = Block(s) /\ Taken(s) \in Int
          /\ Accepts(s) => /\ Taken(s)' = Taken(s) + 1 /\ Taken(s) + 1 \in 1..Len(Block(s))
                           /\ rec'[s] = Block(s)[Taken(s) + 1]
          /\ ~Accepts(s) => Taken(s)' = Taken(s) /\ rec'[s] = rec[s]
      BY <1>1, TickEffects, FrontTypes
    <3>3. CASE Accepts(s)
      <4>1. Taken(s) + 1 >= 1
        BY <3>2, <3>3
      <4> QED BY <4>1, <3>2, <3>3
    <3>4. CASE ~Accepts(s)
      BY <3>1, <3>2, <3>4, <2>1
    <3> QED BY <3>3, <3>4
  <2>3. CASE Emit \/ Drop
    <3>1. /\ Taken(s)' = Taken(s) /\ rec'[s] = rec[s] /\ Block(s)' = Block(s)
          /\ s = selected_source => ~Held(s)'
          /\ s /= selected_source => (Held(s)' <=> Held(s))
      BY <2>3, HeldUsed
    <3> QED BY <3>1, <2>1, <1>3
  <2> QED BY <1>2, <2>2, <2>3
<1>4. ASSUME ~busy', NEW s \in Side
      PROVE  ~Held(s)'
  <2>1. \A st, r : ~GoOn(st, r)
    BY <1>1, <1>4 DEF GoOn
  <2>2. CASE WaitHeader
    <3>1. /\ state = "WAIT_HEADER" /\ ~prefetched[src] /\ hdr_fifo[src] = <<>>
          /\ source_done_seen[src] /\ ~buf_valid[Other(src)] /\ source_done_seen[Other(src)]
          /\ s = src \/ s = Other(src)
      BY <2>1, <2>2 DEF WaitHeader, TypeInv, TypeOK, Side, Other
    <3>2. ~buf_valid[src] /\ ~prefetched[0] /\ (prefetched[1] => src = 1)
      BY <1>1, <3>1 DEF PhaseInv
    <3>3. ~buf_valid[s] /\ ~prefetched[s] /\ ~(state = "CAPTURE" /\ src = s)
      BY <3>1, <3>2 DEF Side
    <3>4. ~Accepts(s)
      BY <3>1, TickEffects
    <3> QED BY <2>2, <3>3, <3>4, HeldKept DEF Held
  <2>3. CASE Emit \/ Drop
    <3>1. selected_source \in Side /\ Refill(selected_source)
      BY <2>3 DEF Emit, Drop, TypeInv, TypeOK
    <3>2. ~buf_valid[Other(selected_source)]
      BY <2>1, <3>1 DEF Refill
    <3>3. s = selected_source \/ s = Other(selected_source)
      BY <3>1 DEF Side, Other
    <3> QED BY <2>3, <3>2, <3>3, HeldUsed
  <2> QED BY <1>2, <2>1, <2>2, <2>3 DEF Capture, CmpSetup, Stall
<1> QED BY <1>3, <1>4

LEMMA HeldStart ==
    ASSUME TypeInv, NEW p \in 1..Len(blocks[0]), NEW seed, StartOn(p, seed)
    PROVE  HeldInv' /\ \A s \in Side : Used(s)' = 0
<1>1. /\ state' = "WAIT_HEADER" /\ busy'
      /\ \A s \in Side : ~buf_valid'[s] /\ ~prefetched'[s] /\ Taken(s)' = 0
  BY StartFacts
<1>2. \A s \in Side : ~Held(s)'
  BY <1>1 DEF Held
<1> QED BY <1>1, <1>2 DEF HeldInv, Used

LEMMA HeldNext ==
    ASSUME TypeInv, FrontInv, PhaseInv, HeldInv, [Next]_vars
    PROVE  HeldInv'
<1>1. ASSUME NEW go0 \in BOOLEAN, NEW go1 \in BOOLEAN, NEW go \in BOOLEAN, Tick(go0, go1, go)
      PROVE  HeldInv'
  BY <1>1, HeldTick
<1>2. CASE StartRun \/ NextPair
  BY <1>2, PairsStarted, HeldStart
<1>3. CASE Idle \/ UNCHANGED vars
  <2>1. /\ UNCHANGED <<blocks, pair, frontVars, source_done_seen, state, src, prefetched, buf_valid>>
        /\ UNCHANGED <<pair, error, busy, rec>>
    BY <1>3 DEF Idle, vars, mergerVars
  <2>2. \A s \in Side : Block(s)' = Block(s) /\ Taken(s)' = Taken(s) /\ Held(s)' = Held(s)
    BY <2>1, FrontKept
  <2> QED BY <2>1, <2>2 DEF HeldInv
<1> QED BY <1>1, <1>2, <1>3 DEF Next

\* Records used, a count from 0 to the length of the block.
LEMMA UsedRange ==
    ASSUME TypeInv, FrontInv, HeldInv, pair > 0, ~error, NEW s \in Side
    PROVE  /\ Used(s) \in 0..Len(Block(s)) /\ Block(s) \in Seq(Record) /\ Len(Block(s)) \in Nat
           /\ Held(s) => Used(s) + 1 = Taken(s) /\ Taken(s) \in 1..Len(Block(s))
           /\ ~Held(s) => Used(s) = Taken(s)
           /\ ~busy => Used(s) = Len(Block(s))
<1>1. SourceInv(s) /\ (~busy => Taken(s) = Len(Block(s)))
  BY DEF FrontInv
<1>2. Taken(s) \in 0..Len(Block(s)) /\ Len(Block(s)) \in Nat /\ Block(s) \in Seq(Record)
  BY <1>1, TakenRange, FrontTypes
<1>3. (Held(s) => Taken(s) >= 1) /\ (~busy => ~Held(s))
  BY DEF HeldInv
<1> QED BY <1>1, <1>2, <1>3 DEF Used

LEMMA UsedKept ==
    ASSUME TypeInv, FrontInv, PhaseInv, HeldInv, WaitHeader \/ Capture \/ CmpSetup \/ Stall,
           NEW go0 \in BOOLEAN, NEW go1 \in BOOLEAN, NEW go \in BOOLEAN, Tick(go0, go1, go),
           NEW s \in Side
    PROVE  Used(s)' = Used(s) /\ Block(s)' = Block(s)
<1>1. /\ Held(s)' <=> Held(s) \/ Accepts(s)
      /\ Accepts(s) => ~Held(s)
  BY HeldKept
<1>2. /\ Taken(s) \in Int /\ Block(s)' = Block(s)
      /\ Accepts(s) => Taken(s)' = Taken(s) + 1
      /\ ~Accepts(s) => Taken(s)' = Taken(s)
  BY TickEffects, FrontTypes
<1>3. Used(s) = (IF Held(s) THEN Taken(s) - 1 ELSE Taken(s))
  BY DEF Used
<1>4. Used(s)' = (IF Held(s)' THEN Taken(s)' - 1 ELSE Taken(s)')
  BY DEF Used
<1>5. CASE Accepts(s)
  BY <1>1, <1>2, <1>3, <1>4, <1>5
<1>6. CASE ~Accepts(s)
  BY <1>1, <1>2, <1>3, <1>4, <1>6
<1> QED BY <1>2, <1>5, <1>6

-----------------------------------------------------------------------------
(* Merging sets of records.                                                *)

LEMMA Fields ==
    ASSUME NEW r \in Record
    PROVE  r.k \in Nat /\ r.tag \in Nat
BY DEF Record

LEMMA BlockSplit ==
    ASSUME NEW b \in Seq(Record), NEW n \in Nat, n < Len(b)
    PROVE  /\ FirstOf(b, n + 1) = FirstOf(b, n) \cup {b[n + 1]}
           /\ RestOf(b, n) = RestOf(b, n + 1) \cup {b[n + 1]}
           /\ SortedBlock(b) => \A x \in RestOf(b, n + 1) : Before(b[n + 1], x)
<1>1. Len(b) \in Nat
  OBVIOUS
<1>2. 1..n + 1 = 1..n \cup {n + 1} /\ (n + 1)..Len(b) = ((n + 1) + 1)..Len(b) \cup {n + 1}
  BY <1>1
<1>3. FirstOf(b, n + 1) = FirstOf(b, n) \cup {b[n + 1]}
  BY <1>2 DEF FirstOf
<1>4. RestOf(b, n) = RestOf(b, n + 1) \cup {b[n + 1]}
  BY <1>2 DEF RestOf
<1>5. ASSUME SortedBlock(b), NEW x \in RestOf(b, n + 1)
      PROVE  Before(b[n + 1], x)
  <2>1. PICK i \in (n + 1) + 1..Len(b) : x = b[i]
    BY <1>5 DEF RestOf
  <2>2. n + 1 \in 1..Len(b) /\ i \in 1..Len(b) /\ n + 1 < i
    BY <1>1, <2>1
  <2> QED BY <1>5, <2>1, <2>2 DEF SortedBlock
<1> QED BY <1>3, <1>4, <1>5

LEMMA BlockEnds ==
    ASSUME NEW b \in Seq(Record)
    PROVE  /\ FirstOf(b, 0) = {} /\ RestOf(b, 0) = RecordsOf(b)
           /\ FirstOf(b, Len(b)) = RecordsOf(b) /\ RestOf(b, Len(b)) = {}
           /\ \A n \in 0..Len(b) : /\ FirstOf(b, n) \subseteq RecordsOf(b)
                                   /\ RestOf(b, n) \subseteq RecordsOf(b)
           /\ RecordsOf(b) \subseteq Record
<1>1. Len(b) \in Nat
  OBVIOUS
<1>2. 1..0 = {} /\ (Len(b) + 1)..Len(b) = {} /\ (0 + 1)..Len(b) = 1..Len(b)
  BY <1>1
<1>3. /\ FirstOf(b, 0) = {} /\ RestOf(b, 0) = RecordsOf(b)
      /\ FirstOf(b, Len(b)) = RecordsOf(b) /\ RestOf(b, Len(b)) = {}
  BY <1>2 DEF FirstOf, RestOf, RecordsOf
<1>4. ASSUME NEW n \in 0..Len(b)
      PROVE  FirstOf(b, n) \subseteq RecordsOf(b) /\ RestOf(b, n) \subseteq RecordsOf(b)
  <2>1. 1..n \subseteq 1..Len(b) /\ (n + 1)..Len(b) \subseteq 1..Len(b)
    BY <1>1
  <2> QED BY <2>1 DEF FirstOf, RestOf, RecordsOf
<1>5. RecordsOf(b) \subseteq Record
  BY DEF RecordsOf
<1> QED BY <1>3, <1>4, <1>5

\* A record after all others, with a new key, survives and becomes the last.
LEMMA KeepOne ==
    ASSUME NEW U \in SUBSET Record, NEW r \in Record, NEW seed \in Nat \cup {NoKey}, NEW prev,
           LastKey(U, seed, prev), \A u \in U : Before(u, r), r.k /= prev,
           seed \in Nat => \A u \in U \cup {r} : seed <= u.k
    PROVE  /\ Survivors(U \cup {r}, seed) = Survivors(U, seed) \cup {r}
           /\ LastKey(U \cup {r}, seed, r.k)
           /\ \A u \in U : u.k < r.k
<1>1. r.k \in Nat /\ r.tag \in Nat /\ \A u \in U : u.k \in Nat /\ u.tag \in Nat
  BY Fields
<1>2. \A u \in U : u.k < r.k
  <2>1. \A u \in U : u.k <= r.k
    BY <1>1 DEF Before
  <2>2. U /= {} => \E u \in U : u.k = prev /\ \A q \in U : q.k <= prev
    BY DEF LastKey
  <2> QED BY <1>1, <2>1, <2>2
<1>3. r.k /= seed
  <2>1. CASE U = {}
    BY <2>1 DEF LastKey
  <2>2. CASE U /= {}
    BY <2>2, <1>1, <1>2, MergerAssumption
  <2> QED BY <2>1, <2>2
<1>4. Survivors(U \cup {r}, seed) = Survivors(U, seed) \cup {r}
  <2>1. \A q \in U : q.k /= r.k
    BY <1>1, <1>2
  <2>2. r.tag <= r.tag
    BY <1>1
  <2> QED BY <1>3, <2>1, <2>2 DEF Survivors
<1>5. LastKey(U \cup {r}, seed, r.k)
  <2>1. \A q \in U \cup {r} : q.k <= r.k
    BY <1>1, <1>2
  <2> QED BY <2>1 DEF LastKey
<1> QED BY <1>2, <1>4, <1>5

\* A record after all others, with the last key, does not survive.
LEMMA DropOne ==
    ASSUME NEW U \in SUBSET Record, NEW r \in Record, NEW seed \in Nat \cup {NoKey},
           LastKey(U, seed, r.k), \A u \in U : Before(u, r)
    PROVE  /\ Survivors(U \cup {r}, seed) = Survivors(U, seed)
           /\ LastKey(U \cup {r}, seed, r.k)
<1>1. r.k \in Nat /\ r.tag \in Nat /\ \A u \in U : u.k \in Nat /\ u.tag \in Nat
  BY Fields
<1>2. r.k = seed \/ \E u \in U : u.k = r.k /\ ~(u.tag <= r.tag)
  <2>1. CASE U = {}
    BY <2>1 DEF LastKey
  <2>2. CASE U /= {}
    <3>1. PICK u \in U : u.k = r.k
      BY <2>2 DEF LastKey
    <3>2. ~(u.tag <= r.tag)
      BY <3>1, <1>1 DEF Before
    <3> QED BY <3>1, <3>2
  <2> QED BY <2>1, <2>2
<1>3. \A u \in U : u.k = r.k => r.tag <= u.tag
  BY <1>1 DEF Before
<1>4. Survivors(U \cup {r}, seed) = Survivors(U, seed)
  BY <1>2, <1>3 DEF Survivors
<1>5. LastKey(U \cup {r}, seed, r.k)
  <2>1. \A q \in U \cup {r} : q.k <= r.k
    BY <1>1 DEF Before
  <2> QED BY <2>1 DEF LastKey
<1> QED BY <1>4, <1>5

\* The merge of two sets, one after the other, is the merge of the first and
\* the merge of the second seeded with the last key of the first.
LEMMA JoinPairs ==
    ASSUME NEW A \in SUBSET Record, NEW P \in SUBSET Record, NEW seed, NEW prev,
           \A a \in A, p \in P : Before(a, p),
           LastKey(A, NoKey, seed), LastKey(P, seed, prev)
    PROVE  /\ Survivors(A \cup P, NoKey) = Survivors(A, NoKey) \cup Survivors(P, seed)
           /\ LastKey(A \cup P, NoKey, prev)
           /\ \A a \in Survivors(A, NoKey), p \in Survivors(P, seed) : a.k < p.k
<1>1. /\ \A a \in A : a.k \in Nat /\ a.tag \in Nat
      /\ \A p \in P : p.k \in Nat /\ p.tag \in Nat
  BY Fields
<1>2. CASE A = {}
  <2>1. seed = NoKey
    BY <1>2 DEF LastKey
  <2>2. A \cup P = P /\ Survivors(A, NoKey) = {}
    BY <1>2 DEF Survivors
  <2> QED BY <2>1, <2>2
<1>3. CASE A /= {}
  <2>1. PICK z \in A : z.k = seed /\ \A a \in A : a.k <= seed
    BY <1>3 DEF LastKey
  <2>2. \A p \in P : seed <= p.k /\ (p.k = seed => p.tag < z.tag)
    BY <1>1, <2>1 DEF Before
  <2>3. \A a \in A, p \in P : p.k /= seed => a.k < p.k
    BY <1>1, <2>1, <2>2
  <2>4. \A a \in A, p \in P : a.k = p.k => p.tag <= a.tag
    BY <1>1 DEF Before
  <2>5. \A a \in A : a.k /= NoKey
    BY <1>1, MergerAssumption
  <2>6. \A p \in P : p.k /= NoKey
    BY <1>1, MergerAssumption
  <2>7. ASSUME NEW r \in Survivors(A \cup P, NoKey)
        PROVE  r \in Survivors(A, NoKey) \cup Survivors(P, seed)
    <3>1. r \in A \cup P /\ \A q \in A \cup P : q.k = r.k => q.tag <= r.tag
      BY <2>7 DEF Survivors
    <3>2. CASE r \in A
      BY <3>1, <3>2, <2>5 DEF Survivors
    <3>3. CASE r \in P
      <4>1. r.k /= seed
        BY <1>1, <2>1, <2>2, <3>1, <3>3
      <4> QED BY <3>1, <3>3, <4>1 DEF Survivors
    <3> QED BY <3>1, <3>2, <3>3
  <2>8. ASSUME NEW r \in Survivors(A, NoKey)
        PROVE  r \in Survivors(A \cup P, NoKey)
    BY <2>8, <2>4 DEF Survivors
  <2>9. ASSUME NEW r \in Survivors(P, seed)
        PROVE  r \in Survivors(A \cup P, NoKey)
    <3>1. r \in P /\ r.k /= seed /\ \A q \in P : q.k = r.k => q.tag <= r.tag
      BY <2>9 DEF Survivors
    <3>2. \A a \in A : a.k /= r.k
      BY <3>1, <2>3, <1>1
    <3> QED BY <3>1, <3>2, <2>6 DEF Survivors
  <2>10. Survivors(A \cup P, NoKey) = Survivors(A, NoKey) \cup Survivors(P, seed)
    BY <2>7, <2>8, <2>9
  <2>11. LastKey(A \cup P, NoKey, prev)
    <3>1. CASE P = {}
      BY <3>1, <2>1 DEF LastKey
    <3>2. CASE P /= {}
      <4>1. PICK y \in P : y.k = prev /\ \A p \in P : p.k <= prev
        BY <3>2 DEF LastKey
      <4>2. \A a \in A : a.k <= prev
        BY <4>1, <1>1, <2>1, <2>2
      <4> QED BY <4>1, <4>2 DEF LastKey
    <3> QED BY <3>1, <3>2
  <2>12. \A a \in Survivors(A, NoKey), p \in Survivors(P, seed) : a.k < p.k
    BY <2>3 DEF Survivors
  <2> QED BY <2>10, <2>11, <2>12
<1> QED BY <1>2, <1>3

LEMMA AppendRecord ==
    ASSUME NEW o \in Seq(Record), NEW r \in Record
    PROVE  /\ RecordsOf(Append(o, r)) = RecordsOf(o) \cup {r}
           /\ (StrictlyIncreasing(o) /\ \A q \in RecordsOf(o) : q.k < r.k) =>
                StrictlyIncreasing(Append(o, r))
<1> DEFINE o2 == Append(o, r)
           n == Len(o)
<1>1. /\ n \in Nat /\ Len(o2) = n + 1 /\ o2[n + 1] = r
      /\ \A i \in 1..n : o2[i] = o[i]
  OBVIOUS
<1> HIDE DEF o2
<1>2. \A i \in 1..n + 1 : i \in 1..n \/ i = n + 1
  BY <1>1
<1>3. \A i \in 1..n : i \in 1..n + 1
  BY <1>1
<1>4. n + 1 \in 1..n + 1
  BY <1>1
<1>5. RecordsOf(o2) = RecordsOf(o) \cup {r}
  BY <1>1, <1>2, <1>3, <1>4 DEF RecordsOf
<1>6. ASSUME StrictlyIncreasing(o), \A q \in RecordsOf(o) : q.k < r.k
      PROVE  StrictlyIncreasing(o2)
  <2> SUFFICES ASSUME NEW i \in 1..n + 1, NEW j \in 1..n + 1, i < j
               PROVE  o2[i].k < o2[j].k
    BY <1>1 DEF StrictlyIncreasing
  <2>1. i \in 1..n /\ o2[i] = o[i] /\ o[i] \in RecordsOf(o)
    BY <1>1 DEF RecordsOf
  <2>2. CASE j \in 1..n
    BY <2>1, <2>2, <1>1, <1>6 DEF StrictlyIncreasing
  <2>3. CASE j = n + 1
    BY <2>1, <2>3, <1>1, <1>6
  <2> QED BY <2>2, <2>3, <1>2
<1> QED BY <1>5, <1>6 DEF o2

LEMMA ConcatRecords ==
    ASSUME NEW m \in Seq(Record), NEW o \in Seq(Record)
    PROVE  /\ RecordsOf(m \o o) = RecordsOf(m) \cup RecordsOf(o)
           /\ (/\ StrictlyIncreasing(m) /\ StrictlyIncreasing(o)
               /\ \A a \in RecordsOf(m), p \in RecordsOf(o) : a.k < p.k) =>
                StrictlyIncreasing(m \o o)
<1> DEFINE c == m \o o
           x == Len(m)
           y == Len(o)
<1>1. /\ x \in Nat /\ y \in Nat /\ Len(c) = x + y
      /\ \A i \in 1..x : c[i] = m[i]
      /\ \A i \in x + 1..x + y : c[i] = o[i - x]
  OBVIOUS
<1> HIDE DEF c
<1>2. \A i \in 1..x + y : i \in 1..x \/ (i \in x + 1..x + y /\ i - x \in 1..y)
  BY <1>1
<1>3. \A i \in 1..x : i \in 1..x + y
  BY <1>1
<1>4. ASSUME NEW i \in 1..y
      PROVE  x + i \in 1..x + y /\ c[x + i] = o[i]
  <2>1. x + i \in x + 1..x + y /\ x + i \in 1..x + y /\ (x + i) - x = i
    BY <1>1
  <2> QED BY <1>1, <2>1
<1>5. RecordsOf(c) = RecordsOf(m) \cup RecordsOf(o)
  <2>1. ASSUME NEW r \in RecordsOf(c)
        PROVE  r \in RecordsOf(m) \cup RecordsOf(o)
    <3>1. PICK i \in 1..x + y : r = c[i]
      BY <1>1, <2>1 DEF RecordsOf
    <3> QED BY <3>1, <1>1, <1>2 DEF RecordsOf
  <2>2. RecordsOf(m) \subseteq RecordsOf(c)
    BY <1>1, <1>3 DEF RecordsOf
  <2>3. RecordsOf(o) \subseteq RecordsOf(c)
    BY <1>1, <1>4 DEF RecordsOf
  <2> QED BY <2>1, <2>2, <2>3
<1>6. ASSUME StrictlyIncreasing(m), StrictlyIncreasing(o),
             \A a \in RecordsOf(m), p \in RecordsOf(o) : a.k < p.k
      PROVE  StrictlyIncreasing(c)
  <2> SUFFICES ASSUME NEW i \in 1..x + y, NEW j \in 1..x + y, i < j
               PROVE  c[i].k < c[j].k
    BY <1>1 DEF StrictlyIncreasing
  <2>1. CASE j \in 1..x
    <3>1. i \in 1..x
      BY <2>1, <1>1
    <3> QED BY <2>1, <3>1, <1>1, <1>6 DEF StrictlyIncreasing
  <2>2. CASE i \in 1..x /\ j \in x + 1..x + y /\ j - x \in 1..y
    <3>1. c[i] \in RecordsOf(m) /\ c[j] \in RecordsOf(o)
      BY <2>2, <1>1 DEF RecordsOf
    <3> QED BY <3>1, <1>6
  <2>3. CASE i \in x + 1..x + y /\ i - x \in 1..y /\ j \in x + 1..x + y /\ j - x \in 1..y
    <3>1. i - x < j - x
      BY <1>1
    <3> QED BY <2>3, <3>1, <1>1, <1>6 DEF StrictlyIncreasing
  <2> QED BY <2>1, <2>2, <2>3, <1>2
<1> QED BY <1>5, <1>6 DEF c

-----------------------------------------------------------------------------
(* The output of the pair.                                                 *)

\* Both sources together, whichever is named first.
LEMMA BothSources ==
    ASSUME NEW t \in Side, NEW o \in Side, t /= o
    PROVE  /\ UsedRecords = FirstOf(Block(t), Used(t)) \cup FirstOf(Block(o), Used(o))
           /\ UnusedRecords = RestOf(Block(t), Used(t)) \cup RestOf(Block(o), Used(o))
<1>1. (t = 0 /\ o = 1) \/ (t = 1 /\ o = 0)
  BY DEF Side
<1> QED BY <1>1 DEF UsedRecords, UnusedRecords

\* The record that is emitted or dropped is the first of those not used yet.
LEMMA ChosenFirst ==
    ASSUME TypeInv, FrontInv, PhaseInv, HeldInv, PairInputs, Emit \/ Drop,
           NEW go0 \in BOOLEAN, NEW go1 \in BOOLEAN, NEW go \in BOOLEAN, Tick(go0, go1, go),
           NEW t \in Side, t = selected_source
    PROVE  /\ rec[t] \in Record
           /\ UsedRecords' = UsedRecords \cup {rec[t]}
           /\ UnusedRecords = UnusedRecords' \cup {rec[t]}
           /\ \A q \in UnusedRecords' : Before(rec[t], q)
<1> DEFINE o == Other(t)
<1>1. o \in Side /\ o /= t /\ ((t = 0 /\ o = 1) \/ (t = 1 /\ o = 0))
  BY DEF Side, Other
<1>2. pair > 0 /\ ~error /\ busy /\ state \in {"EMIT", "DROP"}
  BY TickEffects DEF Emit, Drop
<1>3. /\ SortedBlock(Block(0)) /\ SortedBlock(Block(1)) /\ DifferentTags(Block(0), Block(1))
  BY <1>2 DEF PairInputs
<1>4. \A s \in Side : /\ Taken(s)' = Taken(s) /\ Block(s)' = Block(s)
                      /\ Held(s) <=> buf_valid[s]
                      /\ s = t => buf_valid[s] /\ ~Held(s)'
                      /\ s /= t => (Held(s)' <=> Held(s))
  BY HeldUsed
<1>5. \A s \in Side : /\ Used(s) \in 0..Len(Block(s)) /\ Block(s) \in Seq(Record)
                      /\ Held(s) => Used(s) + 1 = Taken(s) /\ Taken(s) \in 1..Len(Block(s))
                      /\ ~Held(s) => Used(s) = Taken(s)
                      /\ Len(Block(s)) \in Nat
  BY <1>2, UsedRange
<1>6. \A s \in Side : Held(s) => rec[s] = Block(s)[Taken(s)]
  BY <1>2 DEF HeldInv
<1>7. Used(t)' = Used(t) + 1 /\ rec[t] = Block(t)[Used(t) + 1] /\ Used(t) < Len(Block(t))
  <2>1. Held(t) /\ ~Held(t)' /\ Taken(t)' = Taken(t)
    BY <1>4
  <2>2. Used(t)' = Taken(t)
    BY <2>1 DEF Used
  <2> QED BY <2>1, <2>2, <1>5, <1>6
<1>8. Used(o)' = Used(o)
  BY <1>1, <1>4 DEF Used
<1>9. /\ Block(t) \in Seq(Record) /\ Block(o) \in Seq(Record) /\ Used(t) \in Nat
      /\ Block(t)' = Block(t) /\ Block(o)' = Block(o) /\ SortedBlock(Block(t)) /\ SortedBlock(Block(o))
  BY <1>1, <1>3, <1>4, <1>5
<1>10. /\ FirstOf(Block(t), Used(t) + 1) = FirstOf(Block(t), Used(t)) \cup {rec[t]}
       /\ RestOf(Block(t), Used(t)) = RestOf(Block(t), Used(t) + 1) \cup {rec[t]}
       /\ \A x \in RestOf(Block(t), Used(t) + 1) : Before(rec[t], x)
  <2> DEFINE b == Block(t)
             n == Used(t)
  <2>1. b \in Seq(Record) /\ n \in Nat /\ n < Len(b) /\ SortedBlock(b) /\ rec[t] = b[n + 1]
    BY <1>7, <1>9
  <2> HIDE DEF b, n
  <2>2. /\ FirstOf(b, n + 1) = FirstOf(b, n) \cup {b[n + 1]}
        /\ RestOf(b, n) = RestOf(b, n + 1) \cup {b[n + 1]}
        /\ \A x \in RestOf(b, n + 1) : Before(b[n + 1], x)
    BY <2>1, BlockSplit
  <2> QED BY <2>1, <2>2 DEF b, n
<1>11. /\ UsedRecords = FirstOf(Block(t), Used(t)) \cup FirstOf(Block(o), Used(o))
       /\ UnusedRecords = RestOf(Block(t), Used(t)) \cup RestOf(Block(o), Used(o))
       /\ UsedRecords' = FirstOf(Block(t), Used(t) + 1) \cup FirstOf(Block(o), Used(o))
       /\ UnusedRecords' = RestOf(Block(t), Used(t) + 1) \cup RestOf(Block(o), Used(o))
  <2>1. /\ UsedRecords = FirstOf(Block(t), Used(t)) \cup FirstOf(Block(o), Used(o))
        /\ UnusedRecords = RestOf(Block(t), Used(t)) \cup RestOf(Block(o), Used(o))
    BY <1>1, BothSources
  <2>2. /\ UsedRecords' = FirstOf(Block(0)', Used(0)') \cup FirstOf(Block(1)', Used(1)')
        /\ UnusedRecords' = RestOf(Block(0)', Used(0)') \cup RestOf(Block(1)', Used(1)')
    BY DEF UsedRecords, UnusedRecords, FirstOf, RestOf
  <2> QED BY <2>1, <2>2, <1>1, <1>7, <1>8, <1>9
<1>12. rec[t] \in Record
  BY DEF TypeInv, TypeOK
<1>13. ASSUME NEW x \in RestOf(Block(o), Used(o))
       PROVE  Before(rec[t], x)
  <2>1. buf_valid[o]
    <3>1. buf_valid[o] \/ source_done_seen[o]
      BY <1>1, <1>2, NothingTaken
    <3>2. CASE ~buf_valid[o]
      <4>1. Used(o) = Len(Block(o))
        BY <3>1, <3>2, <1>1, <1>4, <1>5, TickEffects
      <4> QED BY <4>1, <1>9, <1>13, BlockEnds
    <3> QED BY <3>2
  <2>2. /\ rec[o] = Block(o)[Used(o) + 1] /\ Used(o) \in Nat /\ Used(o) < Len(Block(o))
        /\ Used(o) + 1 \in 1..Len(Block(o))
    BY <2>1, <1>1, <1>4, <1>5, <1>6
  <2>3. x = rec[o] \/ Before(rec[o], x)
    BY <2>2, <1>9, <1>13, BlockSplit
  <2>4. rec[0].k = rec[1].k => rec[0].tag /= rec[1].tag
    <3>1. Used(t) + 1 \in 1..Len(Block(t))
      BY <1>1, <1>5, <1>7
    <3>2. CASE t = 0
      BY <3>1, <3>2, <2>2, <1>1, <1>3, <1>7 DEF DifferentTags
    <3>3. CASE t = 1
      BY <3>1, <3>3, <2>2, <1>1, <1>3, <1>7 DEF DifferentTags
    <3> QED BY <3>2, <3>3, <1>1
  <2>5. /\ rec[t].k \in Nat /\ rec[t].tag \in Nat /\ rec[o].k \in Nat /\ rec[o].tag \in Nat
    <3>1. rec[o] \in Record
      BY <1>1 DEF TypeInv, TypeOK
    <3> QED BY <3>1, <1>12, Fields
  <2>6. Before(rec[t], rec[o])
    <3>1. t = next_sel_src /\ buf_valid[0] /\ buf_valid[1]
      BY <1>1, <1>2, <1>4, <2>1 DEF PhaseInv
    <3>2. CASE t = 0
      <4>1. rec[0].k < rec[1].k \/ (rec[0].k = rec[1].k /\ rec[0].tag >= rec[1].tag)
        BY <3>1, <3>2 DEF next_sel_src
      <4> QED BY <4>1, <3>2, <1>1, <2>4, <2>5 DEF Before
    <3>3. CASE t = 1
      <4>1. ~(rec[0].k < rec[1].k \/ (rec[0].k = rec[1].k /\ rec[0].tag >= rec[1].tag))
        BY <3>1, <3>3 DEF next_sel_src
      <4> QED BY <4>1, <3>3, <1>1, <2>4, <2>5 DEF Before
    <3> QED BY <3>2, <3>3, <1>1
  <2>7. x \in Record
    <3>1. RestOf(Block(o), Used(o)) \subseteq Record
      BY <1>1, <1>5, BlockEnds
    <3> QED BY <3>1, <1>13
  <2> QED BY <2>3, <2>5, <2>6, <2>7, Fields DEF Before
<1> QED BY <1>10, <1>11, <1>12, <1>13

\* All pairs before this one come before it.
LEMMA EarlierBefore ==
    ASSUME MergeInputs, TypeInv, pair > 0
    PROVE  /\ \A a \in Earlier(pair), q \in PairRecords(pair) : Before(a, q)
           /\ Earlier(pair) \subseteq Record /\ PairRecords(pair) \subseteq Record
<1>1. /\ blocks \in Inputs /\ blocks \in [Side -> Seq(Seq(Record))]
      /\ Len(blocks[0]) = Len(blocks[1]) /\ Len(blocks[0]) \in Nat
      /\ pair \in 1..Len(blocks[0])
  BY MergerAssumption DEF TypeInv, TypeOK, Side
<1>2. \A p : PairRecords(p) = RecordsOfPair(blocks, p)
  BY DEF PairRecords
<1>3. \A p \in 1..Len(blocks[0]) : PairRecords(p) \subseteq Record
  <2> SUFFICES ASSUME NEW p \in 1..Len(blocks[0])
               PROVE  PairRecords(p) \subseteq Record
    OBVIOUS
  <2>1. blocks[0][p] \in Seq(Record) /\ blocks[1][p] \in Seq(Record)
    BY <1>1 DEF Side
  <2> QED BY <2>1, BlockEnds DEF PairRecords, RecordsOfPair
<1>4. ASSUME NEW a \in Earlier(pair)
      PROVE  \E p \in 1..Len(blocks[0]) : p < pair /\ a \in PairRecords(p)
  <2>1. PICK p \in 1..pair - 1 : a \in PairRecords(p)
    BY <1>4 DEF Earlier
  <2>2. p \in 1..Len(blocks[0]) /\ p < pair
    BY <1>1
  <2> QED BY <2>1, <2>2
<1>5. ASSUME NEW a \in Earlier(pair), NEW q \in PairRecords(pair)
      PROVE  Before(a, q)
  <2>1. PICK p \in 1..Len(blocks[0]) : p < pair /\ a \in PairRecords(p)
    BY <1>4, <1>5
  <2> QED BY <2>1, <1>1, <1>2, <1>5 DEF MergeInputs
<1>6. Earlier(pair) \subseteq Record
  BY <1>3, <1>4
<1> QED BY <1>1, <1>3, <1>5, <1>6

\* No key of the pair is less than its seed.
LEMMA SeedBelow ==
    ASSUME MergeInputs, TypeInv, FileInv, pair > 0, ~error, seed_prev_user_key \in Nat
    PROVE  \A q \in PairRecords(pair) : seed_prev_user_key <= q.k
<1>1. LastKey(Earlier(pair), NoKey, seed_prev_user_key)
  BY DEF FileInv
<1>2. PICK a \in Earlier(pair) : a.k = seed_prev_user_key
  BY <1>1, MergerAssumption DEF LastKey
<1>3. \A q \in PairRecords(pair) : Before(a, q) /\ q.k \in Nat
  BY EarlierBefore, Fields
<1> QED BY <1>2, <1>3 DEF Before

LEMMA UsedOfPair ==
    ASSUME TypeInv, FrontInv, HeldInv, pair > 0, ~error
    PROVE  /\ UsedRecords \subseteq PairRecords(pair) /\ UnusedRecords \subseteq PairRecords(pair)
           /\ UsedRecords \subseteq Record /\ UnusedRecords \subseteq Record
           /\ ~busy => UsedRecords = PairRecords(pair)
<1>1. \A s \in Side : /\ Used(s) \in 0..Len(Block(s)) /\ Block(s) \in Seq(Record)
                      /\ ~busy => Used(s) = Len(Block(s))
  BY UsedRange
<1>2. \A s \in Side : /\ FirstOf(Block(s), Used(s)) \subseteq RecordsOf(Block(s))
                      /\ RestOf(Block(s), Used(s)) \subseteq RecordsOf(Block(s))
                      /\ ~busy => FirstOf(Block(s), Used(s)) = RecordsOf(Block(s))
                      /\ RecordsOf(Block(s)) \subseteq Record
  BY <1>1, BlockEnds
<1>3. PairRecords(pair) = RecordsOf(Block(0)) \cup RecordsOf(Block(1))
  BY DEF PairRecords, RecordsOfPair, Block
<1> QED BY <1>2, <1>3 DEF UsedRecords, UnusedRecords, Side

LEMMA OutTick ==
    ASSUME MergeInputs, TypeInv, FrontInv, PhaseInv, HeldInv, FileInv, OutInv,
           NEW go0 \in BOOLEAN, NEW go1 \in BOOLEAN, NEW go \in BOOLEAN, Tick(go0, go1, go)
    PROVE  OutInv'
<1> SUFFICES ASSUME ~error'
             PROVE  OutInv'
  BY DEF OutInv
<1>1. /\ pair > 0 /\ ~error /\ seed_prev_user_key' = seed_prev_user_key /\ PairInputs
  BY TickEffects, InputsOfPair
<1>2. WaitHeader \/ Capture \/ CmpSetup \/ Emit \/ Drop \/ Stall
  <2>1. ~HeaderError
    BY DEF HeaderError
  <2> QED BY <2>1 DEF Tick, MergerClock
<1>3. /\ \A u \in UsedRecords, q \in UnusedRecords : Before(u, q)
      /\ RecordsOf(out) = Survivors(UsedRecords, seed_prev_user_key)
      /\ StrictlyIncreasing(out)
      /\ LastKey(UsedRecords, seed_prev_user_key, prev_user_key)
  BY <1>1 DEF OutInv
<1>4. CASE WaitHeader \/ Capture \/ CmpSetup \/ Stall
  <2>1. out' = out /\ prev_user_key' = prev_user_key
    BY <1>4 DEF WaitHeader, Capture, CmpSetup, Stall
  <2>2. \A s \in Side : Used(s)' = Used(s) /\ Block(s)' = Block(s)
    BY <1>4, UsedKept
  <2>3. UsedRecords' = UsedRecords /\ UnusedRecords' = UnusedRecords
    BY <2>2 DEF UsedRecords, UnusedRecords, FirstOf, RestOf, Side
  <2> QED BY <1>1, <1>3, <2>1, <2>3 DEF OutInv, RecordsOf, Survivors, StrictlyIncreasing, LastKey
<1>5. CASE Emit \/ Drop
  <2> DEFINE t == selected_source
             r == rec[t]
             U == UsedRecords
             seed == seed_prev_user_key
             prev == prev_user_key
  <2>1. t \in Side /\ state \in {"EMIT", "DROP"} /\ t = next_sel_src /\ busy
    BY <1>5, TickEffects DEF Emit, Drop, TypeInv, TypeOK, PhaseInv
  <2>2. /\ r \in Record /\ UsedRecords' = U \cup {r}
        /\ UnusedRecords = UnusedRecords' \cup {r}
        /\ \A q \in UnusedRecords' : Before(r, q)
    BY <1>1, <1>5, <2>1, ChosenFirst
  <2>3. /\ U \subseteq Record /\ seed \in Nat \cup {NoKey} /\ out \in Seq(Record)
        /\ seed \in Nat => \A u \in U \cup {r} : seed <= u.k
    <3>1. U \subseteq PairRecords(pair) /\ r \in PairRecords(pair) /\ U \subseteq Record
      BY <1>1, <2>2, UsedOfPair
    <3>2. seed \in Nat \cup {NoKey} /\ out \in Seq(Record)
      BY DEF TypeInv, TypeOK
    <3> QED BY <1>1, <3>1, <3>2, SeedBelow
  <2>4. \A u \in U : Before(u, r)
    BY <1>3, <2>2
  <2>5. prev_user_key' = r.k
    BY <1>5 DEF Emit, Drop
  <2>6. \A u \in UsedRecords', q \in UnusedRecords' : Before(u, q)
    BY <1>3, <2>2
  <2>7. next_keep <=> r.k /= prev
    BY <2>1 DEF next_keep
  <2>8. /\ RecordsOf(out') = Survivors(U \cup {r}, seed)
        /\ StrictlyIncreasing(out')
        /\ LastKey(U \cup {r}, seed, r.k)
    <3>1. CASE Emit
      <4>1. r.k /= prev /\ out' = Append(out, r)
        BY <3>1, <2>1, <2>7 DEF Emit, PhaseInv
      <4> HIDE DEF r, U, seed, prev
      <4>2. /\ Survivors(U \cup {r}, seed) = Survivors(U, seed) \cup {r}
            /\ LastKey(U \cup {r}, seed, r.k)
            /\ \A u \in U : u.k < r.k
        BY <4>1, <1>3, <2>2, <2>3, <2>4, KeepOne DEF U, seed, prev
      <4>3. \A q \in RecordsOf(out) : q.k < r.k
        BY <4>2, <1>3 DEF Survivors, U
      <4>4. RecordsOf(Append(out, r)) = RecordsOf(out) \cup {r} /\ StrictlyIncreasing(Append(out, r))
        BY <4>3, <1>3, <2>2, <2>3, AppendRecord
      <4> QED BY <4>1, <4>2, <4>4, <1>3 DEF U, seed
    <3>2. CASE Drop
      <4>1. r.k = prev /\ out' = out
        BY <3>2, <2>1, <2>7 DEF Drop, PhaseInv
      <4> HIDE DEF r, U, seed, prev
      <4>2. LastKey(U, seed, r.k)
        BY <4>1, <1>3 DEF U, seed, prev
      <4>3. /\ Survivors(U \cup {r}, seed) = Survivors(U, seed)
            /\ LastKey(U \cup {r}, seed, r.k)
        BY <4>2, <2>2, <2>3, <2>4, DropOne
      <4> QED BY <4>1, <4>3, <1>3 DEF U, seed
    <3> QED BY <1>5, <3>1, <3>2
  <2> HIDE DEF r, U, seed, prev
  <2>9. RecordsOf(out') = RecordsOf(out)' /\ StrictlyIncreasing(out') = StrictlyIncreasing(out)'
    BY DEF RecordsOf, StrictlyIncreasing
  <2>10. /\ Survivors(UsedRecords, seed_prev_user_key)' = Survivors(UsedRecords', seed_prev_user_key')
         /\ LastKey(UsedRecords, seed_prev_user_key, prev_user_key)'
              <=> LastKey(UsedRecords', seed_prev_user_key', prev_user_key')
    BY DEF Survivors, LastKey
  <2> QED BY <1>1, <2>2, <2>5, <2>6, <2>8, <2>9, <2>10 DEF OutInv, seed
<1> QED BY <1>2, <1>4, <1>5

LEMMA NoRecords ==
    /\ RecordsOf(<<>>) = {} /\ StrictlyIncreasing(<<>>)
    /\ \A seed : Survivors({}, seed) = {} /\ LastKey({}, seed, seed)
<1>1. 1..Len(<<>>) = {}
  OBVIOUS
<1> QED BY <1>1 DEF RecordsOf, StrictlyIncreasing, Survivors, LastKey

LEMMA OutStart ==
    ASSUME TypeInv, NEW p \in 1..Len(blocks[0]), NEW seed, StartOn(p, seed), out' = <<>>
    PROVE  OutInv'
<1>1. Used(0)' = 0 /\ Used(1)' = 0
  BY HeldStart DEF Side
<1>2. UsedRecords' = {}
  BY <1>1 DEF UsedRecords, FirstOf
<1>3. seed_prev_user_key' = seed /\ prev_user_key' = seed
  BY StartFacts
<1>4. RecordsOf(out') = RecordsOf(out)' /\ StrictlyIncreasing(out') = StrictlyIncreasing(out)'
  BY DEF RecordsOf, StrictlyIncreasing
<1>5. /\ Survivors(UsedRecords, seed_prev_user_key)' = Survivors(UsedRecords', seed_prev_user_key')
      /\ LastKey(UsedRecords, seed_prev_user_key, prev_user_key)'
           <=> LastKey(UsedRecords', seed_prev_user_key', prev_user_key')
  BY DEF Survivors, LastKey
<1> QED BY <1>2, <1>3, <1>4, <1>5, NoRecords DEF OutInv

LEMMA OutNext ==
    ASSUME MergeInputs, TypeInv, FrontInv, PhaseInv, HeldInv, FileInv, OutInv, [Next]_vars
    PROVE  OutInv'
<1>1. ASSUME NEW go0 \in BOOLEAN, NEW go1 \in BOOLEAN, NEW go \in BOOLEAN, Tick(go0, go1, go)
      PROVE  OutInv'
  BY <1>1, OutTick
<1>2. CASE StartRun \/ NextPair
  <2>1. out' = <<>>
    BY <1>2 DEF StartRun, NextPair
  <2> QED BY <1>2, <2>1, PairsStarted, OutStart
<1>3. CASE Idle \/ UNCHANGED vars
  <2>1. /\ UNCHANGED <<blocks, pair, frontVars, source_done_seen, state, src, prefetched, buf_valid>>
        /\ UNCHANGED <<pair, error, out, seed_prev_user_key, prev_user_key>>
    BY <1>3 DEF Idle, vars, mergerVars
  <2>2. \A s \in Side : Block(s)' = Block(s) /\ Used(s)' = Used(s)
    BY <2>1, FrontKept
  <2>3. UsedRecords' = UsedRecords /\ UnusedRecords' = UnusedRecords
    BY <2>2 DEF UsedRecords, UnusedRecords, FirstOf, RestOf, Side
  <2> QED BY <2>1, <2>3 DEF OutInv, RecordsOf, Survivors, StrictlyIncreasing, LastKey
<1> QED BY <1>1, <1>2, <1>3 DEF Next

-----------------------------------------------------------------------------
(* The output of the run.                                                  *)

LEMMA EarlierStep ==
    ASSUME NEW p \in Nat \ {0}
    PROVE  Earlier(p + 1) = Earlier(p) \cup PairRecords(p)
<1>1. 1..(p + 1) - 1 = (1..p - 1) \cup {p}
  OBVIOUS
<1> QED BY <1>1 DEF Earlier

\* When a pair is done, the output so far is the merge of all pairs so far.
LEMMA DoneSoFar ==
    ASSUME MergeInputs, TypeInv, FrontInv, HeldInv, FileInv, OutInv, pair > 0, ~error, ~busy
    PROVE  /\ RecordsOf(merged \o out) = Survivors(Earlier(pair + 1), NoKey)
           /\ StrictlyIncreasing(merged \o out)
           /\ LastKey(Earlier(pair + 1), NoKey, prev_user_key)
           /\ RecordsOf(out) = Survivors(PairRecords(pair), seed_prev_user_key)
           /\ StrictlyIncreasing(out)
<1> DEFINE A == Earlier(pair)
           P == PairRecords(pair)
<1>1. /\ RecordsOf(out) = Survivors(P, seed_prev_user_key) /\ StrictlyIncreasing(out)
      /\ LastKey(P, seed_prev_user_key, prev_user_key)
  <2>1. UsedRecords = P
    BY UsedOfPair
  <2> QED BY <2>1 DEF OutInv
<1>2. /\ RecordsOf(merged) = Survivors(A, NoKey) /\ StrictlyIncreasing(merged)
      /\ LastKey(A, NoKey, seed_prev_user_key)
  BY DEF FileInv
<1>3. /\ \A a \in A, q \in P : Before(a, q)
      /\ A \subseteq Record /\ P \subseteq Record
  BY EarlierBefore
<1>4. Earlier(pair + 1) = A \cup P
  <2>1. pair \in Nat \ {0}
    BY MergerAssumption DEF TypeInv, TypeOK, Side
  <2> QED BY <2>1, EarlierStep
<1>5. merged \in Seq(Record) /\ out \in Seq(Record)
  BY DEF TypeInv, TypeOK
<1> HIDE DEF A, P
<1>6. /\ Survivors(A \cup P, NoKey) = Survivors(A, NoKey) \cup Survivors(P, seed_prev_user_key)
      /\ LastKey(A \cup P, NoKey, prev_user_key)
      /\ \A a \in Survivors(A, NoKey), q \in Survivors(P, seed_prev_user_key) : a.k < q.k
  BY <1>1, <1>2, <1>3, JoinPairs
<1>7. /\ RecordsOf(merged \o out) = RecordsOf(merged) \cup RecordsOf(out)
      /\ StrictlyIncreasing(merged \o out)
  BY <1>1, <1>2, <1>5, <1>6, ConcatRecords
<1> QED BY <1>1, <1>2, <1>4, <1>6, <1>7 DEF P

LEMMA FileNext ==
    ASSUME MergeInputs, TypeInv, FrontInv, HeldInv, FileInv, OutInv, [Next]_vars
    PROVE  FileInv'
<1> DEFINE FileOf(m, p, seed) == /\ RecordsOf(m) = Survivors(Earlier(p), NoKey)
                                 /\ StrictlyIncreasing(m)
                                 /\ LastKey(Earlier(p), NoKey, seed)
<1>1. ASSUME blocks' = blocks, FileOf(merged', pair', seed_prev_user_key')
      PROVE  FileInv'
  <2>1. Earlier(pair)' = Earlier(pair')
    BY <1>1 DEF Earlier, PairRecords, RecordsOfPair, RecordsOf
  <2>2. RecordsOf(merged') = RecordsOf(merged)' /\ StrictlyIncreasing(merged') = StrictlyIncreasing(merged)'
    BY DEF RecordsOf, StrictlyIncreasing
  <2>3. /\ Survivors(Earlier(pair), NoKey)' = Survivors(Earlier(pair)', NoKey)
        /\ LastKey(Earlier(pair), NoKey, seed_prev_user_key)'
             <=> LastKey(Earlier(pair)', NoKey, seed_prev_user_key')
    BY DEF Survivors, LastKey
  <2> QED BY <1>1, <2>1, <2>2, <2>3 DEF FileInv
<1>2. CASE StartRun
  <2>1. merged' = <<>> /\ StartOn(1, NoKey) /\ 1 \in 1..Len(blocks[0])
    BY <1>2, MergerAssumption DEF StartRun, TypeInv, Side
  <2>2. pair' = 1 /\ seed_prev_user_key' = NoKey /\ blocks' = blocks
    BY <2>1, StartFacts
  <2>3. Earlier(1) = {}
    BY DEF Earlier
  <2>4. FileOf(<<>>, 1, NoKey)
    BY <2>3, NoRecords
  <2> QED BY <1>1, <2>1, <2>2, <2>4
<1>3. CASE NextPair
  <2>1. /\ merged' = merged \o out /\ StartOn(pair + 1, prev_user_key) /\ ~busy /\ ~error /\ pair > 0
        /\ pair + 1 \in 1..Len(blocks[0])
    BY <1>3, MergerAssumption DEF NextPair, TypeInv, Side
  <2>2. pair' = pair + 1 /\ seed_prev_user_key' = prev_user_key /\ blocks' = blocks
    BY <2>1, StartFacts
  <2>3. FileOf(merged \o out, pair + 1, prev_user_key)
    BY <2>1, DoneSoFar
  <2> QED BY <1>1, <2>1, <2>2, <2>3
<1>4. CASE /\ UNCHANGED <<blocks, pair, merged, seed_prev_user_key>>
           /\ pair > 0 /\ ~error' => ~error
  <2>1. pair' > 0 /\ ~error' => FileOf(merged', pair', seed_prev_user_key')
    BY <1>4 DEF FileInv
  <2> QED BY <1>1, <1>4, <2>1 DEF FileInv
<1>5. ASSUME NEW go0 \in BOOLEAN, NEW go1 \in BOOLEAN, NEW go \in BOOLEAN, Tick(go0, go1, go)
      PROVE  UNCHANGED <<blocks, pair, merged, seed_prev_user_key>> /\ ~error
  BY <1>5, TickEffects
<1>6. ASSUME Idle \/ UNCHANGED vars
      PROVE  UNCHANGED <<blocks, pair, merged, seed_prev_user_key, error>>
  BY <1>6 DEF Idle, vars, mergerVars
<1> QED BY <1>2, <1>3, <1>4, <1>5, <1>6 DEF Next

-----------------------------------------------------------------------------
(* The theorems for inputs in order.                                       *)

IInv == TypeInv /\ FrontInv /\ PhaseInv /\ HeldInv /\ OutInv /\ FileInv

LEMMA IInvHolds ==
    ASSUME MergeInputs
    PROVE  Spec => []IInv
<1>1. Init => IInv
  <2> SUFFICES ASSUME Init PROVE IInv
    OBVIOUS
  <2>1. TypeInv /\ FrontInv
    BY TypeInit
  <2>2. pair = 0 /\ ~busy
    BY DEF Init
  <2>3. PhaseInv /\ HeldInv /\ OutInv /\ FileInv
    BY <2>2 DEF PhaseInv, HeldInv, OutInv, FileInv
  <2> QED BY <2>1, <2>3 DEF IInv
<1>2. IInv /\ [Next]_vars => IInv'
  <2> SUFFICES ASSUME IInv, [Next]_vars PROVE IInv'
    OBVIOUS
  <2>1. TypeInv /\ FrontInv /\ PhaseInv /\ HeldInv /\ OutInv /\ FileInv
    BY DEF IInv
  <2>2. PairInputs
    BY <2>1, InputsOfPair
  <2>3. TypeInv' /\ FrontInv'
    BY <2>1, TypeNext, FrontNext
  <2>4. PhaseInv' /\ HeldInv'
    BY <2>1, <2>2, PhaseNext, HeldNext
  <2>5. OutInv' /\ FileInv'
    BY <2>1, OutNext, FileNext
  <2> QED BY <2>3, <2>4, <2>5 DEF IInv
<1> QED BY <1>1, <1>2, PTL DEF Spec

\* done comes only after the last record of a pair without a bad header.
LEMMA DoneFacts ==
    ASSUME IInv, done
    PROVE  pair > 0 /\ ~error /\ ~busy
BY MergerAssumption DEF IInv, FrontInv, TypeInv, TypeOK, Side

\* At done the output of a pair is, in key order and once each, the newest
\* record of every user key of the two blocks except the seed's, for blocks
\* of any length, FIFOs of any depth and however decoders and encoder stall.
THEOREM PairCorrect ==
    ASSUME MergeInputs
    PROVE  Spec => []PairMerged
<1>1. IInv => PairMerged
  <2> SUFFICES ASSUME IInv, done
               PROVE  /\ RecordsOf(out) = Survivors(PairRecords(pair), seed_prev_user_key)
                      /\ StrictlyIncreasing(out)
    BY DEF PairMerged
  <2>1. pair > 0 /\ ~error /\ ~busy
    BY DoneFacts
  <2> QED BY <2>1, DoneSoFar DEF IInv
<1> QED BY <1>1, IInvHolds, PTL

\* At the end of a run the outputs of its pairs together are the merge of the
\* two tables, although no pair knows more of the earlier ones than one key,
\* for any number of pairs and after any number of aborted runs.
THEOREM FileCorrect ==
    ASSUME MergeInputs
    PROVE  Spec => []FileMerged
<1>1. IInv => FileMerged
  <2> SUFFICES ASSUME IInv, done, pair = Len(blocks[0])
               PROVE  /\ RecordsOf(merged \o out) = Survivors(AllRecords, NoKey)
                      /\ StrictlyIncreasing(merged \o out)
    BY DEF FileMerged
  <2>1. pair > 0 /\ ~error /\ ~busy
    BY DoneFacts
  <2>2. /\ RecordsOf(merged \o out) = Survivors(Earlier(pair + 1), NoKey)
        /\ StrictlyIncreasing(merged \o out)
    BY <2>1, DoneSoFar DEF IInv
  <2>3. Earlier(pair + 1) = AllRecords
    <3>1. Len(blocks[0]) \in Nat
      BY MergerAssumption DEF IInv, TypeInv, Side
    <3>2. 1..(pair + 1) - 1 = 1..Len(blocks[0])
      BY <3>1
    <3> QED BY <3>2 DEF Earlier, AllRecords
  <2> QED BY <2>2, <2>3
<1> QED BY <1>1, IInvHolds, PTL
=============================================================================
