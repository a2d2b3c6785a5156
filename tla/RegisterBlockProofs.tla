------------------------- MODULE RegisterBlockProofs -------------------------
(***************************************************************************)
(* Theorems about RegisterBlock, for any number of calls and array entries *)
(* and any ratio of the two clocks, provided that the settle after a clear *)
(* lasts ten alternations of the clocks (the driver's 10 ms are about a    *)
(* million cycles; with nine, ClearTakesEffect does not hold).             *)
(***************************************************************************)
EXTENDS RegisterBlock, TLAPS, SequenceTheorems

LongSettle == SettleEdges >= 10

Bits(n) == {c \in Seq(BOOLEAN) : Len(c) = n}
Value == Nat \cup {Torn}
Words == {c \in Seq(Value) : Len(c) = 2}

-----------------------------------------------------------------------------
(* The inductive invariant.                                                *)

\* Where the driver is, and CTRL with it.
BusInv ==
    /\ pc \in WriteSteps \cup ReadSteps \cup {"settle", "end"}
    /\ bus \in {"idle", "addr", "resp", "rvalid", "rd_fsm_wait"}
    /\ call \in 1..MaxCalls /\ entry \in 0..Entries - 1 /\ settle \in 0..SettleEdges
    /\ bus \in {"addr", "resp"} => pc \in WriteSteps
    /\ bus = "rvalid" => pc \in ReadSteps
    /\ bus = "rd_fsm_wait" => pc = "sizes"
    /\ r_ctrl \in {0, 1, 2} /\ r_ctrl_d \in {0, 1, 2}
    /\ bus = "resp" /\ pc /= "cfg" => r_ctrl = CtrlValue[pc]
    /\ bus /= "resp" \/ pc = "cfg" => r_ctrl_d = r_ctrl
    /\ pc = "clear" => r_ctrl_d /= 2 \/ bus = "resp"
    /\ pc = "settle" => r_ctrl = 2
    /\ pc = "clear_off" => r_ctrl_d \in {0, 2} /\ (bus /= "resp" => r_ctrl = 2)
    /\ pc = "cfg" => r_ctrl = 0
    /\ pc = "start" => r_ctrl_d \in {0, 1} /\ (bus /= "resp" => r_ctrl = 0)
    /\ pc \in ReadSteps \cup {"end"} => r_ctrl = 1

ChainType ==
    /\ start_toggle_axil \in BOOLEAN /\ clear_toggle_axil \in BOOLEAN
    /\ done_toggle_ui \in BOOLEAN /\ error_toggle_ui \in BOOLEAN
    /\ arr_req_toggle_axil \in BOOLEAN /\ arr_resp_toggle_ui \in BOOLEAN
    /\ top_done_ui \in BOOLEAN /\ top_error_ui \in BOOLEAN
    /\ done_ui_d \in BOOLEAN /\ error_ui_d \in BOOLEAN
    /\ start_ui \in Bits(3) /\ clear_ui \in Bits(3) /\ arr_req_ui \in Bits(3)
    /\ arr_resp_axil \in Bits(3) /\ done_axil \in Bits(2) /\ error_axil \in Bits(2)
    /\ count_axil \in Words /\ arr_data_axil \in Words /\ cfg_ui \in Words /\ arr_idx_ui \in Words
    /\ r_cfg \in 0..MaxCalls /\ cfg_axil \in 0..MaxCalls /\ eng_cfg \in 0..MaxCalls
    /\ sstable_count_ui \in 0..MaxCalls
    /\ arr_req_idx_axil \in Nat /\ arr_resp_data_ui \in Value
    /\ engine \in {"idle", "run", "nb_done"}
    /\ r_status \subseteq {"done", "error"}

\* What is new in a chain has come from its beginning.
InOrder(chain, t) ==
    /\ chain[3] = t => chain[2] = t
    /\ chain[2] = t => chain[1] = t

Started == start_ui[3] = start_toggle_axil
Cleared == clear_ui[3] = clear_toggle_axil

CrossInv ==
    /\ InOrder(start_ui, start_toggle_axil)
    /\ "start" \in edge => start_ui[1] /= start_toggle_axil
    /\ InOrder(clear_ui, clear_toggle_axil)
    /\ "clear" \in edge => clear_ui[1] /= clear_toggle_axil

\* The configuration of a run is ahead of its start.
CfgInv ==
    /\ (pc = "cfg" /\ bus = "resp") \/ pc \in {"start"} \cup ReadSteps => r_cfg = call
    /\ pc = "start" => cfg_axil = r_cfg
    /\ ~Started =>
         /\ cfg_axil = r_cfg /\ "cfg" \notin edge
         /\ start_ui[1] = start_toggle_axil => cfg_ui[1] = r_cfg
         /\ start_ui[2] = start_toggle_axil => cfg_ui[2] = r_cfg
    /\ engine /= "idle" => eng_cfg = r_cfg
    /\ engine = "nb_done" => sstable_count_ui = r_cfg

\* The phases of a call: a clear crosses, nothing happens, a run is awaited.
Clearing == pc = "settle" \/ (pc = "clear" /\ r_ctrl_d = 2)
Waiting == pc \in {"clear_off", "cfg"} \/ (pc = "start" /\ r_ctrl_d /= 1)
Running == pc \in ReadSteps \/ (pc = "start" /\ r_ctrl_d = 1)

Idle == engine = "idle" /\ ~top_done_ui /\ ~top_error_ui

\* No start passes the clear, and the settle outlasts it and the last answer.
ClearInv ==
    /\ ~Clearing => Cleared
    /\ Clearing =>
         /\ "start" \notin edge
         /\ clear_ui[1] = clear_toggle_axil => start_ui[1] = start_toggle_axil
         /\ clear_ui[2] = clear_toggle_axil => start_ui[2] = start_toggle_axil
         /\ Cleared => Started /\ Idle

SettleInv ==
    pc = "settle" =>
         /\ settle >= 1 => "clear" \notin edge
         /\ settle >= 3 => clear_ui[1] = clear_toggle_axil
         /\ settle >= 5 => clear_ui[2] = clear_toggle_axil
         /\ settle >= 7 => Cleared
         /\ settle >= 8 => "done" \notin edge /\ "error" \notin edge
         /\ settle >= 10 => done_axil[1] = done_toggle_ui /\ error_axil[1] = error_toggle_ui

\* No answer is on its way.
NoAnswer ==
    /\ done_axil[1] = done_toggle_ui /\ done_axil[2] = done_axil[1] /\ "done" \notin edge
    /\ error_axil[1] = error_toggle_ui /\ error_axil[2] = error_axil[1] /\ "error" \notin edge

WaitInv == Waiting => Started /\ Idle /\ NoAnswer

\* From the engine to STATUS, done and error are those of the run that was
\* started last; SSTABLE_COUNT is ahead of done.
DoneOnWay ==
    \/ top_done_ui \/ "done" \in edge
    \/ done_axil[1] /= done_toggle_ui \/ done_axil[2] /= done_axil[1] \/ "done" \in r_status

ErrorOnWay ==
    \/ top_error_ui \/ "error" \in edge
    \/ error_axil[1] /= error_toggle_ui \/ error_axil[2] /= error_axil[1] \/ "error" \in r_status

RunInv ==
    Running =>
      /\ engine /= "idle" => Started
      /\ DoneOnWay => /\ Started /\ engine = "idle" /\ outcome = <<r_cfg, "done">>
                      /\ sstable_count_ui = r_cfg /\ "count" \notin edge
      /\ ErrorOnWay => Started /\ engine = "idle" /\ outcome = <<r_cfg, "error">>
      /\ done_axil[2] /= done_axil[1] => count_axil[1] = r_cfg
      /\ "done" \in r_status => count_axil[1] = r_cfg /\ count_axil[2] = r_cfg

\* What the driver has read, and may read next.
ReadInv ==
    /\ bus /= "rvalid" \/ pc = "poll" => rdata = 0
    /\ pc = "poll" /\ bus = "rvalid" => status_reg \subseteq r_status
    /\ pc \in {"count", "sizes"} => "done" \in r_status
    /\ ResultsCoherent

\* The request for an array entry goes to the UI clock and its answer comes
\* back along one chain of seven flip-flops, index and word beside it.
Answer == {call * Entries + entry, Torn}

NoRequest ==
    /\ \A i \in 1..3 : /\ arr_req_ui[i] = arr_req_toggle_axil
                       /\ arr_resp_axil[i] = arr_req_toggle_axil
    /\ "req" \notin edge /\ "resp" \notin edge

Request ==
    /\ arr_resp_axil[3] /= arr_req_toggle_axil
    /\ InOrder(arr_req_ui, arr_req_toggle_axil)
    /\ arr_resp_axil[1] = arr_req_toggle_axil => arr_req_ui[3] = arr_req_toggle_axil
    /\ arr_resp_axil[2] = arr_req_toggle_axil => arr_resp_axil[1] = arr_req_toggle_axil
    /\ "req" \in edge => arr_req_ui[1] /= arr_req_toggle_axil
    /\ "resp" \in edge => /\ arr_resp_axil[1] /= arr_req_toggle_axil
                          /\ arr_req_ui[3] = arr_req_toggle_axil
    /\ arr_req_idx_axil = entry

RequestData ==
    /\ arr_req_ui[3] /= arr_req_toggle_axil =>
         /\ arr_req_ui[1] = arr_req_toggle_axil => arr_idx_ui[1] \in {entry, Torn}
         /\ arr_req_ui[2] = arr_req_toggle_axil => arr_idx_ui[2] \in {entry, Torn}
    /\ arr_req_ui[3] = arr_req_toggle_axil => arr_resp_data_ui \in Answer
    /\ arr_resp_axil[1] = arr_req_toggle_axil => arr_data_axil[1] \in Answer
    /\ arr_resp_axil[2] = arr_req_toggle_axil => arr_data_axil[2] \in Answer

ArrayInv ==
    /\ arr_resp_toggle_ui = arr_req_ui[3]
    /\ bus /= "rd_fsm_wait" => NoRequest
    /\ bus = "rd_fsm_wait" => Request /\ RequestData

IInv ==
    /\ BusInv /\ ChainType /\ CrossInv /\ CfgInv /\ ClearInv /\ SettleInv /\ WaitInv
    /\ RunInv /\ ReadInv /\ ArrayInv

-----------------------------------------------------------------------------
(* Chains of flip-flops.                                                   *)

LEMMA ShiftPair ==
    ASSUME NEW S, NEW c \in Seq(S), Len(c) = 2, NEW x \in S
    PROVE  /\ Shift(c, x) \in Seq(S) /\ Len(Shift(c, x)) = 2
           /\ Shift(c, x)[1] = x /\ Shift(c, x)[2] = c[1]
<1>1. /\ SubSeq(c, 1, 1) \in Seq(S) /\ Len(SubSeq(c, 1, 1)) = 1
      /\ SubSeq(c, 1, 1)[1] = c[1]
  BY SubSeqProperties
<1>2. Shift(c, x) = <<x>> \o SubSeq(c, 1, 1)
  BY DEF Shift
<1> QED BY <1>1, <1>2

LEMMA ShiftTriple ==
    ASSUME NEW S, NEW c \in Seq(S), Len(c) = 3, NEW x \in S
    PROVE  /\ Shift(c, x) \in Seq(S) /\ Len(Shift(c, x)) = 3
           /\ Shift(c, x)[1] = x /\ Shift(c, x)[2] = c[1] /\ Shift(c, x)[3] = c[2]
<1>1. /\ SubSeq(c, 1, 2) \in Seq(S) /\ Len(SubSeq(c, 1, 2)) = 2
      /\ SubSeq(c, 1, 2)[1] = c[1] /\ SubSeq(c, 1, 2)[2] = c[2]
  <2>1. \A i \in 1..2 : c[i] \in S
    <3>1. \A i \in 1..Len(c) : c[i] \in S
      OBVIOUS
    <3>2. \A i \in 1..2 : i \in 1..Len(c)
      BY Len(c) = 3
    <3> QED BY ONLY <3>1, <3>2
  <2> DEFINE h == SubSeq(c, 1, 2)
  <2>2. /\ h \in Seq(S) /\ Len(h) = (IF 1 <= 2 THEN 2 - 1 + 1 ELSE 0)
        /\ \A i \in 1..2 - 1 + 1 : h[i] = c[1 + i - 1]
    BY ONLY <2>1, SubSeqProperties, 1 \in Int, 2 \in Int
  <2> HIDE DEF h
  <2>3. Len(h) = 2 /\ h[1] = c[1] /\ h[2] = c[2]
    BY ONLY <2>2
  <2> QED BY ONLY <2>2, <2>3 DEF h
<1>2. Shift(c, x) = <<x>> \o SubSeq(c, 1, 2)
  BY DEF Shift
<1> QED BY <1>1, <1>2

\* A toggle flips with its pulse and with nothing else.
LEMMA Toggle ==
    ASSUME NEW x \in BOOLEAN, NEW p \in BOOLEAN
    PROVE  /\ (x /= p) \in BOOLEAN
           /\ p => (x /= p) /= x
           /\ ~p => (x /= p) = x
  BY Zenon

\* A chain of flip-flops that samples a toggle.
LEMMA SampleTriple ==
    ASSUME NEW sig, NEW t \in BOOLEAN, NEW c \in Bits(3), NEW d \in Bit(sig, t)
    PROVE  /\ Shift(c, d) \in Bits(3)
           /\ Shift(c, d)[2] = c[1] /\ Shift(c, d)[3] = c[2]
           /\ sig \notin edge => Shift(c, d)[1] = t
<1>1. d \in BOOLEAN /\ (sig \notin edge => d = t)
  BY DEF Bit
<1>2. c \in Seq(BOOLEAN) /\ Len(c) = 3
  BY DEF Bits
<1> QED BY <1>1, <1>2, ShiftTriple DEF Bits

LEMMA SamplePair ==
    ASSUME NEW sig, NEW t \in BOOLEAN, NEW c \in Bits(2), NEW d \in Bit(sig, t)
    PROVE  /\ Shift(c, d) \in Bits(2)
           /\ Shift(c, d)[2] = c[1]
           /\ sig \notin edge => Shift(c, d)[1] = t
<1>1. d \in BOOLEAN /\ (sig \notin edge => d = t)
  BY DEF Bit
<1>2. c \in Seq(BOOLEAN) /\ Len(c) = 2
  BY DEF Bits
<1> QED BY <1>1, <1>2, ShiftPair DEF Bits

\* A chain that samples a word.
LEMMA SampleWord ==
    ASSUME NEW sig, NEW w \in Value, NEW c \in Words, NEW d \in Word(sig, w)
    PROVE  /\ Shift(c, d) \in Words
           /\ Shift(c, d)[2] = c[1]
           /\ Shift(c, d)[1] \in {w, Torn}
           /\ sig \notin edge => Shift(c, d)[1] = w
<1>1. d \in {w, Torn} /\ (sig \notin edge => d = w)
  BY DEF Word
<1>2. c \in Seq(Value) /\ Len(c) = 2
  BY DEF Words
<1>3. d \in Value
  BY <1>1 DEF Value
<1> DEFINE s == Shift(c, d)
<1>4. s \in Seq(Value) /\ Len(s) = 2 /\ s[1] = d /\ s[2] = c[1]
  BY <1>2, <1>3, ShiftPair
<1> QED BY <1>1, <1>4 DEF Words

\* Bits that differ from the same bit are equal.
LEMMA TwoValued ==
    ASSUME NEW a \in BOOLEAN, NEW b \in BOOLEAN, NEW c \in BOOLEAN, a /= c, b /= c
    PROVE  a = b
  OBVIOUS

-----------------------------------------------------------------------------
(* An edge of the AXI-Lite clock.                                          *)

LEMMA AxilCtrl ==
    ASSUME ChainType, AxilClock
    PROVE  /\ r_ctrl_d' = r_ctrl /\ cfg_axil' = r_cfg
           /\ start_toggle_axil' \in BOOLEAN /\ clear_toggle_axil' \in BOOLEAN
           /\ ctrl_start_pulse => start_toggle_axil' /= start_toggle_axil
           /\ ~ctrl_start_pulse => start_toggle_axil' = start_toggle_axil
           /\ ctrl_clear_pulse => clear_toggle_axil' /= clear_toggle_axil
           /\ ~ctrl_clear_pulse => clear_toggle_axil' = clear_toggle_axil
<1>1. /\ start_toggle_axil \in BOOLEAN /\ clear_toggle_axil \in BOOLEAN
      /\ ctrl_start_pulse \in BOOLEAN /\ ctrl_clear_pulse \in BOOLEAN
  BY DEF ChainType, ctrl_start_pulse, ctrl_clear_pulse
<1>2. /\ start_toggle_axil' = (start_toggle_axil /= ctrl_start_pulse)
      /\ clear_toggle_axil' = (clear_toggle_axil /= ctrl_clear_pulse)
  BY Zenon DEF AxilClock
<1>3. /\ start_toggle_axil' \in BOOLEAN
      /\ ctrl_start_pulse => start_toggle_axil' /= start_toggle_axil
      /\ ~ctrl_start_pulse => start_toggle_axil' = start_toggle_axil
  BY <1>1, <1>2, Toggle, Zenon
<1>4. /\ clear_toggle_axil' \in BOOLEAN
      /\ ctrl_clear_pulse => clear_toggle_axil' /= clear_toggle_axil
      /\ ~ctrl_clear_pulse => clear_toggle_axil' = clear_toggle_axil
  BY <1>1, <1>2, Toggle, Zenon
<1> QED BY <1>3, <1>4 DEF AxilClock

\* What an edge of this clock may have changed.
LEMMA AxilEdge ==
    ASSUME AxilClock
    PROVE  /\ "start" \in edge' => start_toggle_axil' /= start_toggle_axil
           /\ "clear" \in edge' => clear_toggle_axil' /= clear_toggle_axil
           /\ "cfg" \in edge' => cfg_axil' /= cfg_axil
           /\ "req" \in edge' => arr_req_toggle_axil' /= arr_req_toggle_axil
           /\ "done" \notin edge' /\ "error" \notin edge' /\ "count" \notin edge'
           /\ "resp" \notin edge' /\ "data" \notin edge'
  BY DEF AxilClock, Changed

LEMMA AxilSamples ==
    ASSUME ChainType, MaxCalls \in Nat, AxilClock
    PROVE  /\ done_axil' \in Bits(2) /\ done_axil'[2] = done_axil[1]
           /\ "done" \notin edge => done_axil'[1] = done_toggle_ui
           /\ error_axil' \in Bits(2) /\ error_axil'[2] = error_axil[1]
           /\ "error" \notin edge => error_axil'[1] = error_toggle_ui
           /\ count_axil' \in Words /\ count_axil'[2] = count_axil[1]
           /\ "count" \notin edge => count_axil'[1] = sstable_count_ui
           /\ arr_resp_axil' \in Bits(3)
           /\ arr_resp_axil'[2] = arr_resp_axil[1] /\ arr_resp_axil'[3] = arr_resp_axil[2]
           /\ "resp" \notin edge => arr_resp_axil'[1] = arr_resp_toggle_ui
           /\ arr_data_axil' \in Words /\ arr_data_axil'[2] = arr_data_axil[1]
           /\ arr_data_axil'[1] \in {arr_resp_data_ui, Torn}
<1>1. PICK d \in Bit("done", done_toggle_ui) : done_axil' = Shift(done_axil, d)
  BY DEF AxilClock
<1>2. PICK e \in Bit("error", error_toggle_ui) : error_axil' = Shift(error_axil, e)
  BY DEF AxilClock
<1>3. PICK n \in Word("count", sstable_count_ui) : count_axil' = Shift(count_axil, n)
  BY DEF AxilClock
<1>4. PICK p \in Bit("resp", arr_resp_toggle_ui) : arr_resp_axil' = Shift(arr_resp_axil, p)
  BY DEF AxilClock
<1>5. PICK x \in Word("data", arr_resp_data_ui) : arr_data_axil' = Shift(arr_data_axil, x)
  BY DEF AxilClock
<1>6. /\ done_toggle_ui \in BOOLEAN /\ error_toggle_ui \in BOOLEAN
      /\ arr_resp_toggle_ui \in BOOLEAN
      /\ done_axil \in Bits(2) /\ error_axil \in Bits(2) /\ arr_resp_axil \in Bits(3)
      /\ count_axil \in Words /\ arr_data_axil \in Words
      /\ arr_resp_data_ui \in Value /\ sstable_count_ui \in 0..MaxCalls
  BY DEF ChainType
<1>7. sstable_count_ui \in Value
  BY <1>6 DEF Value
<1>8. done_axil' \in Bits(2) /\ done_axil'[2] = done_axil[1]
      /\ ("done" \notin edge => done_axil'[1] = done_toggle_ui)
  <2>1. done_toggle_ui \in BOOLEAN /\ done_axil \in Bits(2)
    BY ONLY <1>6
  <2> QED BY ONLY <1>1, <2>1, SamplePair
<1>9. error_axil' \in Bits(2) /\ error_axil'[2] = error_axil[1]
      /\ ("error" \notin edge => error_axil'[1] = error_toggle_ui)
  <2>1. error_toggle_ui \in BOOLEAN /\ error_axil \in Bits(2)
    BY ONLY <1>6
  <2> QED BY ONLY <1>2, <2>1, SamplePair
<1>10. count_axil' \in Words /\ count_axil'[2] = count_axil[1]
       /\ ("count" \notin edge => count_axil'[1] = sstable_count_ui)
  BY <1>3, <1>6, <1>7, SampleWord
<1>11. /\ arr_resp_axil' \in Bits(3)
       /\ arr_resp_axil'[2] = arr_resp_axil[1] /\ arr_resp_axil'[3] = arr_resp_axil[2]
       /\ "resp" \notin edge => arr_resp_axil'[1] = arr_resp_toggle_ui
  <2>1. arr_resp_toggle_ui \in BOOLEAN /\ arr_resp_axil \in Bits(3)
    BY ONLY <1>6
  <2> QED BY ONLY <1>4, <2>1, SampleTriple
<1>12. arr_data_axil' \in Words /\ arr_data_axil'[2] = arr_data_axil[1]
       /\ arr_data_axil'[1] \in {arr_resp_data_ui, Torn}
  BY <1>5, <1>6, SampleWord
<1> QED BY <1>8, <1>9, <1>10, <1>11, <1>12

-----------------------------------------------------------------------------
(* An edge of the UI clock.                                                *)

LEMMA UiSamples ==
    ASSUME ChainType, MaxCalls \in Nat, NEW end, UiClock(end)
    PROVE  /\ start_ui' \in Bits(3)
           /\ start_ui'[2] = start_ui[1] /\ start_ui'[3] = start_ui[2]
           /\ "start" \notin edge => start_ui'[1] = start_toggle_axil
           /\ clear_ui' \in Bits(3)
           /\ clear_ui'[2] = clear_ui[1] /\ clear_ui'[3] = clear_ui[2]
           /\ "clear" \notin edge => clear_ui'[1] = clear_toggle_axil
           /\ cfg_ui' \in Words /\ cfg_ui'[2] = cfg_ui[1]
           /\ "cfg" \notin edge => cfg_ui'[1] = cfg_axil
           /\ arr_req_ui' \in Bits(3)
           /\ arr_req_ui'[2] = arr_req_ui[1] /\ arr_req_ui'[3] = arr_req_ui[2]
           /\ "req" \notin edge => arr_req_ui'[1] = arr_req_toggle_axil
           /\ arr_idx_ui' \in Words /\ arr_idx_ui'[2] = arr_idx_ui[1]
           /\ arr_idx_ui'[1] \in {arr_req_idx_axil, Torn}
<1>1. PICK s \in Bit("start", start_toggle_axil) : start_ui' = Shift(start_ui, s)
  BY DEF UiClock
<1>2. PICK c \in Bit("clear", clear_toggle_axil) : clear_ui' = Shift(clear_ui, c)
  BY DEF UiClock
<1>3. PICK w \in Word("cfg", cfg_axil) : cfg_ui' = Shift(cfg_ui, w)
  BY DEF UiClock
<1>4. PICK r \in Bit("req", arr_req_toggle_axil) : arr_req_ui' = Shift(arr_req_ui, r)
  BY DEF UiClock
<1>5. PICK i \in Word("idx", arr_req_idx_axil) : arr_idx_ui' = Shift(arr_idx_ui, i)
  BY DEF UiClock
<1>6. /\ start_toggle_axil \in BOOLEAN /\ clear_toggle_axil \in BOOLEAN
      /\ arr_req_toggle_axil \in BOOLEAN
      /\ start_ui \in Bits(3) /\ clear_ui \in Bits(3) /\ arr_req_ui \in Bits(3)
      /\ cfg_ui \in Words /\ arr_idx_ui \in Words
      /\ arr_req_idx_axil \in Nat /\ cfg_axil \in 0..MaxCalls
  BY DEF ChainType
<1>7. cfg_axil \in Value /\ arr_req_idx_axil \in Value
  BY <1>6 DEF Value
<1>8. /\ start_ui' \in Bits(3)
      /\ start_ui'[2] = start_ui[1] /\ start_ui'[3] = start_ui[2]
      /\ "start" \notin edge => start_ui'[1] = start_toggle_axil
  <2>1. start_toggle_axil \in BOOLEAN /\ start_ui \in Bits(3)
    BY <1>6
  <2> QED BY ONLY <1>1, <2>1, SampleTriple
<1>9. /\ clear_ui' \in Bits(3)
      /\ clear_ui'[2] = clear_ui[1] /\ clear_ui'[3] = clear_ui[2]
      /\ "clear" \notin edge => clear_ui'[1] = clear_toggle_axil
  <2>1. clear_toggle_axil \in BOOLEAN /\ clear_ui \in Bits(3)
    BY <1>6
  <2> QED BY ONLY <1>2, <2>1, SampleTriple
<1>10. /\ cfg_ui' \in Words /\ cfg_ui'[2] = cfg_ui[1]
       /\ "cfg" \notin edge => cfg_ui'[1] = cfg_axil
  BY <1>3, <1>6, <1>7, SampleWord
<1>11. /\ arr_req_ui' \in Bits(3)
       /\ arr_req_ui'[2] = arr_req_ui[1] /\ arr_req_ui'[3] = arr_req_ui[2]
       /\ "req" \notin edge => arr_req_ui'[1] = arr_req_toggle_axil
  <2>1. arr_req_toggle_axil \in BOOLEAN /\ arr_req_ui \in Bits(3)
    BY ONLY <1>6
  <2> QED BY ONLY <1>4, <2>1, SampleTriple
<1>12. /\ arr_idx_ui' \in Words /\ arr_idx_ui'[2] = arr_idx_ui[1]
       /\ arr_idx_ui'[1] \in {arr_req_idx_axil, Torn}
  BY <1>5, <1>6, <1>7, SampleWord
<1> QED BY <1>8, <1>9, <1>10, <1>11, <1>12

\* done and error toggle only if the engine raises them.
LEMMA UiToggles ==
    ASSUME ChainType, NEW end, UiClock(end)
    PROVE  /\ done_toggle_ui' \in BOOLEAN /\ error_toggle_ui' \in BOOLEAN
           /\ ~top_done_ui => done_toggle_ui' = done_toggle_ui
           /\ ~top_error_ui => error_toggle_ui' = error_toggle_ui
           /\ done_ui_d' \in BOOLEAN /\ error_ui_d' \in BOOLEAN
<1> DEFINE D == top_done_ui /\ ~done_ui_d
           E == top_error_ui /\ ~error_ui_d
<1>1. /\ done_toggle_ui \in BOOLEAN /\ error_toggle_ui \in BOOLEAN
      /\ D \in BOOLEAN /\ E \in BOOLEAN
  BY DEF ChainType
<1>2. done_toggle_ui' = (done_toggle_ui /= D) /\ error_toggle_ui' = (error_toggle_ui /= E)
  BY Zenon DEF UiClock, Flip
<1>3. (~top_done_ui => ~D) /\ (~top_error_ui => ~E)
  OBVIOUS
<1> HIDE DEF D, E
<1>4. /\ done_toggle_ui' \in BOOLEAN
      /\ ~D => done_toggle_ui' = done_toggle_ui
  BY <1>1, <1>2, Toggle, Zenon
<1>5. /\ error_toggle_ui' \in BOOLEAN
      /\ ~E => error_toggle_ui' = error_toggle_ui
  BY <1>1, <1>2, Toggle, Zenon
<1>6. done_ui_d' \in BOOLEAN /\ error_ui_d' \in BOOLEAN
  BY DEF UiClock, ChainType
<1> QED BY <1>3, <1>4, <1>5, <1>6

LEMMA UiEdge ==
    ASSUME NEW end, UiClock(end)
    PROVE  /\ "done" \in edge' => done_toggle_ui' /= done_toggle_ui
           /\ "error" \in edge' => error_toggle_ui' /= error_toggle_ui
           /\ "count" \in edge' => sstable_count_ui' /= sstable_count_ui
           /\ "resp" \in edge' => arr_resp_toggle_ui' /= arr_resp_toggle_ui
           /\ "start" \notin edge' /\ "clear" \notin edge' /\ "cfg" \notin edge'
           /\ "req" \notin edge' /\ "idx" \notin edge'
  BY DEF UiClock, Changed

LEMMA UiResponder ==
    ASSUME ChainType, NEW end, UiClock(end)
    PROVE  /\ arr_resp_toggle_ui' \in BOOLEAN
           /\ arr_req_pulse_ui => arr_resp_toggle_ui' /= arr_resp_toggle_ui
           /\ ~arr_req_pulse_ui => arr_resp_toggle_ui' = arr_resp_toggle_ui
                                   /\ arr_resp_data_ui' = arr_resp_data_ui
           /\ arr_req_pulse_ui =>
                arr_resp_data_ui' = IF arr_idx_ui[2] = Torn THEN Torn
                                    ELSE sstable_count_ui * Entries + arr_idx_ui[2]
<1>1. arr_resp_toggle_ui \in BOOLEAN /\ arr_req_pulse_ui \in BOOLEAN
  BY DEF ChainType, arr_req_pulse_ui
<1>2. arr_resp_toggle_ui' = (arr_resp_toggle_ui /= arr_req_pulse_ui)
  BY Zenon DEF UiClock, ArrayResponder, Flip
<1>3. /\ arr_resp_toggle_ui' \in BOOLEAN
      /\ arr_req_pulse_ui => arr_resp_toggle_ui' /= arr_resp_toggle_ui
      /\ ~arr_req_pulse_ui => arr_resp_toggle_ui' = arr_resp_toggle_ui
  BY <1>1, <1>2, Toggle, Zenon
<1> QED BY <1>3 DEF UiClock, ArrayResponder

\* A run starts with a start pulse and ends with its outcome.
LEMMA UiEngine ==
    ASSUME ChainType, MaxCalls \in Nat, NEW end, UiClock(end), cfg_ui[2] \in 0..MaxCalls \/ ~start_pulse_ui
    PROVE  /\ engine' \in {"idle", "run", "nb_done"}
           /\ top_done_ui' \in BOOLEAN /\ top_error_ui' \in BOOLEAN
           /\ eng_cfg' \in 0..MaxCalls /\ sstable_count_ui' \in 0..MaxCalls
           /\ clear_pulse_ui => Idle'
           /\ ~clear_pulse_ui /\ engine = "idle" /\ start_pulse_ui =>
                engine' = "run" /\ ~top_done_ui' /\ ~top_error_ui' /\ eng_cfg' = cfg_ui[2]
           /\ ~clear_pulse_ui /\ engine = "idle" /\ ~start_pulse_ui =>
                /\ engine' = "idle" /\ ~top_done_ui'
                /\ UNCHANGED <<top_error_ui, eng_cfg, sstable_count_ui, outcome>>
           /\ ~clear_pulse_ui /\ engine = "run" =>
                /\ eng_cfg' = eng_cfg /\ ~top_done_ui'
                /\ \/ engine' = "run" /\ top_error_ui' = top_error_ui
                   \/ engine' = "idle" /\ outcome' = <<eng_cfg, "error">>
                   \/ engine' = "nb_done" /\ sstable_count_ui' = eng_cfg /\ top_error_ui' = top_error_ui
           /\ ~clear_pulse_ui /\ engine = "nb_done" =>
                /\ engine' = "idle" /\ outcome' = <<eng_cfg, "done">>
                /\ UNCHANGED <<eng_cfg, top_error_ui, sstable_count_ui>>
<1>1. Engine(end) /\ ChainType
  BY DEF UiClock
<1>2. /\ engine \in {"idle", "run", "nb_done"} /\ top_error_ui \in BOOLEAN
      /\ eng_cfg \in 0..MaxCalls /\ sstable_count_ui \in 0..MaxCalls /\ 0 \in 0..MaxCalls
  BY DEF ChainType
<1>3. CASE clear_pulse_ui
  <2>1. /\ engine' = "idle" /\ top_done_ui' = FALSE /\ top_error_ui' = FALSE
        /\ sstable_count_ui' = 0 /\ eng_cfg' = eng_cfg
    BY <1>1, <1>3 DEF Engine
  <2>2. ~top_done_ui' /\ ~top_error_ui'
    BY <2>1, Zenon
  <2> QED BY <1>2, <1>3, <2>1, <2>2 DEF Idle
<1>4. CASE ~clear_pulse_ui /\ engine = "idle" /\ start_pulse_ui
  <2>1. /\ engine' = "run" /\ top_done_ui' = FALSE /\ top_error_ui' = FALSE
        /\ sstable_count_ui' = 0 /\ eng_cfg' = cfg_ui[2]
    BY <1>1, <1>4 DEF Engine
  <2>2. ~top_done_ui' /\ ~top_error_ui'
    BY <2>1, Zenon
  <2> QED BY <1>2, <1>4, <2>1, <2>2
<1>5. CASE ~clear_pulse_ui /\ engine = "idle" /\ ~start_pulse_ui
  <2>1. /\ engine' = engine /\ top_done_ui' = FALSE
        /\ UNCHANGED <<top_error_ui, eng_cfg, sstable_count_ui, outcome>>
    BY <1>1, <1>5 DEF Engine
  <2>2. ~top_done_ui'
    BY <2>1, Zenon
  <2> QED BY <1>2, <1>5, <2>1, <2>2
<1>6. CASE ~clear_pulse_ui /\ engine = "run"
  <2>1. /\ top_done_ui' = FALSE /\ eng_cfg' = eng_cfg
        /\ \/ engine' = "run" /\ UNCHANGED <<top_error_ui, sstable_count_ui>>
           \/ /\ engine' = "idle" /\ outcome' = <<eng_cfg, "error">>
              /\ top_error_ui' = TRUE /\ UNCHANGED sstable_count_ui
           \/ engine' = "nb_done" /\ sstable_count_ui' = eng_cfg /\ UNCHANGED top_error_ui
    BY <1>1, <1>6 DEF Engine
  <2>2. ~top_done_ui' /\ top_error_ui' \in BOOLEAN
    BY <1>2, <2>1, Zenon
  <2> QED BY <1>2, <1>6, <2>1, <2>2
<1>7. CASE ~clear_pulse_ui /\ engine = "nb_done"
  <2>1. /\ engine' = "idle" /\ top_done_ui' = TRUE /\ outcome' = <<eng_cfg, "done">>
        /\ UNCHANGED <<eng_cfg, top_error_ui, sstable_count_ui>>
    BY <1>1, <1>7 DEF Engine
  <2> QED BY <1>2, <1>7, <2>1
<1> QED BY <1>2, <1>3, <1>4, <1>5, <1>6, <1>7

-----------------------------------------------------------------------------
(* The driver's steps.                                                     *)

LEMMA SettleCounts ==
    ASSUME settle \in 0..SettleEdges, NEW clock \in {0, 1}, CountSettle(clock)
    PROVE  /\ settle' \in 0..SettleEdges
           /\ pc /= "settle" => settle' = 0
           /\ settle' /= settle /\ settle' /= 0 =>
                pc = "settle" /\ settle' = settle + 1 /\ settle % 2 = clock
<1>1. settle \in Nat /\ SettleEdges \in Nat /\ settle <= SettleEdges
  BY RegisterAssumption
<1>2. CASE pc /= "settle"
  BY <1>1, <1>2 DEF CountSettle
<1>3. CASE pc = "settle" /\ settle < SettleEdges /\ settle % 2 = clock
  BY <1>1, <1>3 DEF CountSettle
<1>4. CASE pc = "settle" /\ ~(settle < SettleEdges /\ settle % 2 = clock)
  BY <1>1, <1>4 DEF CountSettle
<1> QED BY <1>2, <1>3, <1>4

LEMMA NextCallEffect ==
    ASSUME call \in 1..MaxCalls, NextCall
    PROVE  /\ call' \in 1..MaxCalls /\ entry' = 0 /\ entry' \in 0..Entries - 1
           /\ pc' \in {"clear", "end"}
<1>1. MaxCalls \in Nat /\ Entries \in Nat /\ Entries > 0 /\ call \in Nat /\ call >= 1 /\ call <= MaxCalls
  BY RegisterAssumption
<1> QED BY <1>1 DEF NextCall

LEMMA BusStep ==
    ASSUME BusInv, Bus \/ BusWait, AxilClock
    PROVE  BusInv'
<1>1. r_ctrl_d' = r_ctrl /\ settle' \in 0..SettleEdges
  BY SettleCounts DEF AxilClock, BusInv
<1>2. MaxCalls \in Nat /\ Entries \in Nat /\ Entries > 0
  BY RegisterAssumption
<1> USE DEF WriteSteps, ReadSteps
<1>3. CASE BusWait
  <2>1. pc' = pc /\ bus' = bus /\ call' = call /\ entry' = entry /\ r_ctrl' = r_ctrl
    BY <1>3 DEF BusWait, noWrite, hostVars
  <2>2. CASE bus = "resp" /\ pc /= "cfg"
    <3>1. pc \in {"clear", "clear_off", "start"} /\ r_ctrl = CtrlValue[pc]
      BY <2>2 DEF BusInv
    <3> QED BY <1>1, <2>1, <2>2, <3>1 DEF BusInv, CtrlValue
  <2>3. CASE bus /= "resp" \/ pc = "cfg"
    BY <1>1, <2>1, <2>3 DEF BusInv
  <2> QED BY <2>2, <2>3
<1>4. CASE WriteAddress
  BY <1>1, <1>4 DEF BusInv, WriteAddress, noWrite
<1>5. CASE WriteData
  <2>1. CASE pc = "cfg"
    BY <1>1, <1>5, <2>1 DEF BusInv, WriteData
  <2>2. CASE pc /= "cfg"
    <3>1. pc \in {"clear", "clear_off", "start"}
      BY <1>5, <2>2 DEF WriteData, BusInv
    <3> QED BY <1>1, <1>5, <2>2, <3>1 DEF BusInv, WriteData, CtrlValue
  <2> QED BY <2>1, <2>2
<1>6. CASE WriteResponse
  <2>1. pc \in WriteSteps /\ bus' = "idle" /\ pc' = AfterWrite[pc] /\ r_ctrl' = r_ctrl
        /\ call' = call /\ entry' = entry /\ bus = "resp"
    BY <1>6 DEF WriteResponse, BusInv, noWrite
  <2>2. CASE pc = "clear"
    BY <1>1, <2>1, <2>2 DEF BusInv, AfterWrite, CtrlValue
  <2>3. CASE pc = "clear_off"
    BY <1>1, <2>1, <2>3 DEF BusInv, AfterWrite, CtrlValue
  <2>4. CASE pc = "cfg"
    BY <1>1, <2>1, <2>4 DEF BusInv, AfterWrite
  <2>5. CASE pc = "start"
    BY <1>1, <2>1, <2>5 DEF BusInv, AfterWrite, CtrlValue
  <2> QED BY <2>1, <2>2, <2>3, <2>4, <2>5
<1>7. CASE ReadScalar
  BY <1>1, <1>7 DEF BusInv, ReadScalar, noWrite
<1>8. CASE ReadArray
  BY <1>1, <1>8 DEF BusInv, ReadArray, noWrite
<1>9. CASE ArrayAnswer
  BY <1>1, <1>9 DEF BusInv, ArrayAnswer, noWrite
<1>10. CASE ReadResponse
  <2>1. bus = "rvalid" /\ bus' = "idle" /\ r_ctrl' = r_ctrl /\ pc \in ReadSteps
    BY <1>10 DEF ReadResponse, noWrite, BusInv
  <2>2. r_ctrl = 1 /\ call \in 1..MaxCalls /\ entry \in 0..Entries - 1
    BY <2>1 DEF BusInv
  <2>3. /\ call' \in 1..MaxCalls /\ entry' \in 0..Entries - 1
        /\ pc' \in {"poll", "count", "sizes", "clear", "end"}
    <3>1. CASE NextCall
      BY <2>2, <3>1, NextCallEffect
    <3>2. CASE ~NextCall
      BY <1>2, <1>10, <2>1, <2>2, <3>2 DEF ReadResponse
    <3> QED BY <3>1, <3>2
  <2> QED BY <1>1, <2>1, <2>2, <2>3 DEF BusInv
<1>11. CASE SettleOver
  BY <1>1, <1>11 DEF BusInv, SettleOver, noWrite
<1> QED BY <1>3, <1>4, <1>5, <1>6, <1>7, <1>8, <1>9, <1>10, <1>11 DEF Bus

\* The phases of a call follow each other, and the commands fall between them.
LEMMA Phases ==
    ASSUME LongSettle, BusInv, Bus \/ BusWait, AxilClock
    PROVE  \/ /\ Clearing /\ Clearing' /\ (pc' = "settle" => pc = "settle" \/ settle' = 0)
              /\ ~ctrl_start_pulse /\ ~ctrl_clear_pulse
           \/ /\ ~Clearing /\ ~Waiting /\ Clearing' /\ settle' = 0
              /\ ~ctrl_start_pulse /\ ctrl_clear_pulse
           \/ /\ pc = "settle" /\ settle >= 10 /\ Waiting' /\ ~Clearing'
              /\ ~ctrl_start_pulse /\ ~ctrl_clear_pulse
           \/ /\ Waiting /\ Waiting' /\ ~ctrl_start_pulse /\ ~ctrl_clear_pulse
           \/ /\ pc = "start" /\ Waiting /\ Running' /\ ctrl_start_pulse /\ ~ctrl_clear_pulse
           \/ /\ Running /\ Running' /\ ~ctrl_start_pulse /\ ~ctrl_clear_pulse
           \/ /\ ~Clearing /\ ~Waiting /\ ~Clearing' /\ ~Waiting' /\ ~Running'
              /\ ~ctrl_start_pulse /\ ~ctrl_clear_pulse
<1>1. r_ctrl_d' = r_ctrl /\ (pc /= "settle" => settle' = 0)
  BY SettleCounts DEF AxilClock, BusInv
<1> USE DEF WriteSteps, ReadSteps, ctrl_start_pulse, ctrl_clear_pulse, Clearing, Waiting, Running
<1>2. CASE WriteResponse
  <2>1. pc \in WriteSteps /\ pc' = AfterWrite[pc] /\ r_ctrl' = r_ctrl /\ bus = "resp"
    BY <1>2 DEF WriteResponse, BusInv, noWrite
  <2>2. CASE pc = "clear"
    BY <1>1, <2>1, <2>2 DEF BusInv, AfterWrite, CtrlValue
  <2>3. CASE pc = "clear_off"
    BY <1>1, <2>1, <2>3 DEF BusInv, AfterWrite, CtrlValue
  <2>4. CASE pc = "cfg"
    BY <1>1, <2>1, <2>4 DEF BusInv, AfterWrite
  <2>5. CASE pc = "start"
    BY <1>1, <2>1, <2>5 DEF BusInv, AfterWrite, CtrlValue
  <2> QED BY <2>1, <2>2, <2>3, <2>4, <2>5
<1>3. CASE ReadResponse
  <2>1. /\ pc \in ReadSteps /\ r_ctrl = 1 /\ r_ctrl_d = 1
    BY <1>3 DEF ReadResponse, BusInv
  <2>2. pc' \in {"poll", "count", "sizes", "clear", "end"}
    BY <1>3, <2>1 DEF ReadResponse, NextCall
  <2> QED BY <1>1, <2>1, <2>2
<1>4. CASE SettleOver
  <2>1. pc = "settle" /\ settle = SettleEdges /\ pc' = "clear_off" /\ r_ctrl = 2 /\ r_ctrl_d = 2
    BY <1>4 DEF SettleOver, Settled, BusInv
  <2> QED BY <1>1, <2>1, RegisterAssumption DEF LongSettle
<1>5. CASE pc' = pc
  <2>1. CASE bus = "resp" /\ pc /= "cfg"
    <3>1. pc \in {"clear", "clear_off", "start"} /\ r_ctrl = CtrlValue[pc]
      BY <2>1 DEF BusInv
    <3>2. CASE pc = "clear"
      BY <1>1, <1>5, <3>1, <3>2 DEF BusInv, CtrlValue
    <3>3. CASE pc = "clear_off"
      BY <1>1, <1>5, <3>1, <3>3 DEF BusInv, CtrlValue
    <3>4. CASE pc = "start"
      BY <1>1, <1>5, <3>1, <3>4 DEF BusInv, CtrlValue
    <3> QED BY <3>1, <3>2, <3>3, <3>4
  <2>2. CASE bus /= "resp" \/ pc = "cfg"
    <3>1. r_ctrl_d = r_ctrl
      BY <2>2 DEF BusInv
    <3> QED BY <1>1, <1>5, <3>1 DEF BusInv
  <2> QED BY <2>1, <2>2
<1>6. pc' = pc \/ WriteResponse \/ ReadResponse \/ SettleOver
  BY DEF Bus, BusWait, WriteAddress, WriteData, ReadScalar, ReadArray, ArrayAnswer, hostVars
<1> QED BY <1>2, <1>3, <1>4, <1>5, <1>6

-----------------------------------------------------------------------------
(* What each clock leaves alone.                                           *)

LEMMA AxilKeeps ==
    ASSUME AxilClock
    PROVE  /\ UNCHANGED <<start_ui, clear_ui, cfg_ui, arr_req_ui, arr_idx_ui>>
           /\ UNCHANGED <<arr_resp_toggle_ui, arr_resp_data_ui, engine, eng_cfg, top_done_ui>>
           /\ UNCHANGED <<top_error_ui, done_ui_d, error_ui_d, done_toggle_ui, error_toggle_ui>>
           /\ UNCHANGED <<sstable_count_ui, outcome>>
  BY DEF AxilClock, uiVars

LEMMA UiKeeps ==
    ASSUME NEW end, UiClock(end)
    PROVE  /\ UNCHANGED <<pc, call, bus, entry, rdata, status_reg, r_ctrl, r_ctrl_d, r_cfg>>
           /\ UNCHANGED <<cfg_axil, r_status, start_toggle_axil, clear_toggle_axil, done_axil>>
           /\ UNCHANGED <<error_axil, count_axil, arr_req_toggle_axil, arr_req_idx_axil>>
           /\ UNCHANGED <<arr_resp_axil, arr_data_axil>>
  BY DEF UiClock, hostVars, axilVars

LEMMA BitValues ==
    ASSUME NEW c \in Bits(3)
    PROVE  c[1] \in BOOLEAN /\ c[2] \in BOOLEAN /\ c[3] \in BOOLEAN
  BY DEF Bits

LEMMA BitValues2 ==
    ASSUME NEW c \in Bits(2)
    PROVE  c[1] \in BOOLEAN /\ c[2] \in BOOLEAN
<1>1. c \in Seq(BOOLEAN) /\ Len(c) = 2
  BY DEF Bits
<1>2. 1 \in 1..Len(c) /\ 2 \in 1..Len(c)
  BY <1>1
<1> QED BY <1>1, <1>2, ElementOfSeq

\* A pulse comes when a toggle has passed the second flip-flop, once.
LEMMA PulseOf ==
    ASSUME NEW c \in Bits(3), NEW t \in BOOLEAN, InOrder(c, t)
    PROVE  c[3] /= c[2] <=> c[3] /= t /\ c[2] = t
<1>1. c[1] \in BOOLEAN /\ c[2] \in BOOLEAN /\ c[3] \in BOOLEAN
  BY BitValues
<1>2. CASE c[3] = t
  BY <1>2 DEF InOrder
<1>3. CASE c[3] /= t
  BY <1>1, <1>3, TwoValued
<1> QED BY <1>2, <1>3

LEMMA UiPulses ==
    ASSUME ChainType, CrossInv
    PROVE  /\ start_pulse_ui <=> ~Started /\ start_ui[2] = start_toggle_axil
           /\ clear_pulse_ui <=> ~Cleared /\ clear_ui[2] = clear_toggle_axil
<1>1. /\ start_ui \in Bits(3) /\ start_toggle_axil \in BOOLEAN
      /\ clear_ui \in Bits(3) /\ clear_toggle_axil \in BOOLEAN
      /\ InOrder(start_ui, start_toggle_axil) /\ InOrder(clear_ui, clear_toggle_axil)
  BY DEF ChainType, CrossInv
<1>2. start_ui[3] /= start_ui[2] <=> start_ui[3] /= start_toggle_axil /\ start_ui[2] = start_toggle_axil
  BY <1>1, PulseOf
<1>3. clear_ui[3] /= clear_ui[2] <=> clear_ui[3] /= clear_toggle_axil /\ clear_ui[2] = clear_toggle_axil
  BY <1>1, PulseOf
<1> QED BY <1>2, <1>3 DEF start_pulse_ui, clear_pulse_ui, Started, Cleared

-----------------------------------------------------------------------------
(* Start and clear.                                                        *)

LEMMA CrossAxil ==
    ASSUME LongSettle, IInv, Bus \/ BusWait, AxilClock
    PROVE  CrossInv'
<1>1. start_ui' = start_ui /\ clear_ui' = clear_ui
  BY AxilKeeps
<1>2. /\ ~ctrl_start_pulse => start_toggle_axil' = start_toggle_axil /\ "start" \notin edge'
      /\ ~ctrl_clear_pulse => clear_toggle_axil' = clear_toggle_axil /\ "clear" \notin edge'
      /\ ctrl_start_pulse => start_toggle_axil' /= start_toggle_axil
      /\ ctrl_clear_pulse => clear_toggle_axil' /= clear_toggle_axil
  BY AxilCtrl, AxilEdge DEF IInv
<1>3. (ctrl_start_pulse => Started) /\ (ctrl_clear_pulse => Cleared)
  BY Phases DEF IInv, ClearInv, WaitInv
<1>4. InOrder(start_ui', start_toggle_axil') /\ ("start" \in edge' => start_ui'[1] /= start_toggle_axil')
  BY <1>1, <1>2, <1>3 DEF IInv, CrossInv, InOrder, Started
<1>5. InOrder(clear_ui', clear_toggle_axil') /\ ("clear" \in edge' => clear_ui'[1] /= clear_toggle_axil')
  BY <1>1, <1>2, <1>3 DEF IInv, CrossInv, InOrder, Cleared
<1> QED BY <1>4, <1>5 DEF CrossInv, InOrder

LEMMA CrossUi ==
    ASSUME IInv, NEW end, UiClock(end)
    PROVE  CrossInv'
<1>1. start_toggle_axil' = start_toggle_axil /\ clear_toggle_axil' = clear_toggle_axil
  BY UiKeeps
<1>2. "start" \notin edge' /\ "clear" \notin edge'
  BY UiEdge
<1>3. /\ start_ui'[2] = start_ui[1] /\ start_ui'[3] = start_ui[2]
      /\ "start" \notin edge => start_ui'[1] = start_toggle_axil
      /\ clear_ui'[2] = clear_ui[1] /\ clear_ui'[3] = clear_ui[2]
      /\ "clear" \notin edge => clear_ui'[1] = clear_toggle_axil
  BY UiSamples, RegisterAssumption DEF IInv
<1>4. CrossInv
  BY DEF IInv
<1>5. InOrder(start_ui', start_toggle_axil')
  BY <1>1, <1>3, <1>4 DEF CrossInv, InOrder
<1>6. InOrder(clear_ui', clear_toggle_axil')
  BY <1>1, <1>3, <1>4 DEF CrossInv, InOrder
<1> QED BY <1>2, <1>5, <1>6 DEF CrossInv, InOrder

LEMMA CfgAxil ==
    ASSUME LongSettle, IInv, Bus \/ BusWait, AxilClock, BusInv'
    PROVE  CfgInv'
<1>1. /\ start_ui' = start_ui /\ cfg_ui' = cfg_ui /\ engine' = engine /\ eng_cfg' = eng_cfg
      /\ sstable_count_ui' = sstable_count_ui
  BY AxilKeeps
<1>2. /\ ~ctrl_start_pulse => start_toggle_axil' = start_toggle_axil
      /\ ctrl_start_pulse => start_toggle_axil' /= start_toggle_axil
      /\ cfg_axil' = r_cfg
      /\ "cfg" \in edge' => cfg_axil' /= cfg_axil
  BY AxilCtrl, AxilEdge DEF IInv
<1>3. /\ BusInv /\ CrossInv /\ CfgInv
      /\ Waiting => Started /\ engine = "idle"
  BY DEF IInv, WaitInv, Idle
<1>4. CASE WriteData /\ pc = "cfg"
  <2>1. r_cfg' = call /\ call' = call /\ pc' = pc /\ bus' = "resp"
    BY <1>4 DEF WriteData
  <2>2. Waiting /\ ~ctrl_start_pulse
    BY <1>3, <1>4 DEF Waiting, BusInv, ctrl_start_pulse, WriteData
  <2> QED BY <1>1, <1>2, <1>3, <1>4, <2>1, <2>2 DEF CfgInv, Started
<1>5. CASE ~(WriteData /\ pc = "cfg")
  <2>1. r_cfg' = r_cfg
    BY <1>5 DEF Bus, BusWait, WriteAddress, WriteData, WriteResponse, ReadScalar, ReadArray,
                ArrayAnswer, ReadResponse, SettleOver, noWrite
  <2>2. /\ (pc' = "cfg" /\ bus' = "resp") \/ pc' \in {"start"} \cup ReadSteps =>
             /\ (pc = "cfg" /\ bus = "resp") \/ pc \in {"start"} \cup ReadSteps
             /\ call' = call
    <3>1. CASE WriteResponse
      <4>1. pc \in WriteSteps /\ pc' = AfterWrite[pc] /\ bus = "resp" /\ call' = call /\ bus' = "idle"
        BY <1>3, <3>1 DEF WriteResponse, BusInv
      <4> QED BY <4>1 DEF WriteSteps, ReadSteps, AfterWrite
    <3>2. CASE ReadResponse
      BY <1>3, <3>2 DEF ReadResponse, NextCall, BusInv, ReadSteps
    <3>3. CASE SettleOver
      BY <3>3 DEF SettleOver, ReadSteps
    <3>4. CASE WriteData
      BY <1>5, <3>4 DEF WriteData
    <3>5. CASE BusWait \/ WriteAddress \/ ReadScalar \/ ReadArray \/ ArrayAnswer
      BY <3>5 DEF BusWait, WriteAddress, ReadScalar, ReadArray, ArrayAnswer, hostVars
    <3> QED BY <3>1, <3>2, <3>3, <3>4, <3>5 DEF Bus
  <2>3. (pc' = "cfg" /\ bus' = "resp") \/ pc' \in {"start"} \cup ReadSteps => r_cfg' = call'
    BY <1>3, <2>1, <2>2 DEF CfgInv
  <2>4. ~Started' =>
         /\ cfg_axil' = r_cfg' /\ "cfg" \notin edge'
         /\ start_ui'[1] = start_toggle_axil' => cfg_ui'[1] = r_cfg'
         /\ start_ui'[2] = start_toggle_axil' => cfg_ui'[2] = r_cfg'
    <3>1. CASE ctrl_start_pulse
      <4>1. pc = "start" /\ Waiting
        BY <3>1, Phases DEF IInv
      <4>2. Started /\ cfg_axil = r_cfg
        BY <1>3, <4>1 DEF CfgInv
      <4>3. /\ start_ui[1] = start_toggle_axil /\ start_ui[2] = start_toggle_axil
        BY <1>3, <4>2 DEF CrossInv, InOrder, Started
      <4> QED BY <1>1, <1>2, <2>1, <3>1, <4>2, <4>3
    <3>2. CASE ~ctrl_start_pulse
      BY <1>1, <1>2, <1>3, <2>1, <3>2 DEF CfgInv, Started
    <3> QED BY <3>1, <3>2
  <2> QED BY <1>1, <1>2, <1>3, <2>1, <2>3, <2>4 DEF CfgInv
<1> QED BY <1>4, <1>5

LEMMA CfgUi ==
    ASSUME IInv, NEW end, UiClock(end)
    PROVE  CfgInv'
<1>1. /\ UNCHANGED <<pc, bus, call, r_cfg, cfg_axil, start_toggle_axil>>
  BY UiKeeps
<1>2. "cfg" \notin edge'
  BY UiEdge
<1>3. /\ start_ui'[2] = start_ui[1] /\ start_ui'[3] = start_ui[2]
      /\ "start" \notin edge => start_ui'[1] = start_toggle_axil
      /\ cfg_ui'[2] = cfg_ui[1]
      /\ "cfg" \notin edge => cfg_ui'[1] = cfg_axil
  BY UiSamples, RegisterAssumption DEF IInv
<1>4. CrossInv /\ CfgInv /\ ChainType
  BY DEF IInv
<1>5. start_pulse_ui => ~Started /\ start_ui[2] = start_toggle_axil
  BY <1>4, UiPulses
<1>6. start_pulse_ui => cfg_ui[2] = r_cfg
  BY <1>4, <1>5 DEF CfgInv
<1>7. r_cfg \in 0..MaxCalls /\ MaxCalls \in Nat
  BY <1>4, RegisterAssumption DEF ChainType
<1>8. /\ engine' /= "idle" => eng_cfg' = r_cfg'
      /\ engine' = "nb_done" => sstable_count_ui' = r_cfg'
  <2>1. cfg_ui[2] \in 0..MaxCalls \/ ~start_pulse_ui
    BY <1>6, <1>7
  <2>2. CASE clear_pulse_ui
    <3>1. engine' = "idle"
      BY <1>4, <1>7, <2>1, <2>2, UiEngine DEF Idle
    <3> QED BY <3>1
  <2>3. CASE ~clear_pulse_ui /\ engine = "idle" /\ start_pulse_ui
    <3>1. engine' = "run" /\ eng_cfg' = cfg_ui[2]
      BY <1>4, <1>7, <2>1, <2>3, UiEngine
    <3> QED BY <1>1, <1>6, <2>3, <3>1
  <2>4. CASE ~clear_pulse_ui /\ engine = "idle" /\ ~start_pulse_ui
    <3>1. engine' = "idle"
      BY <1>4, <1>7, <2>1, <2>4, UiEngine
    <3> QED BY <3>1
  <2>5. CASE ~clear_pulse_ui /\ engine = "run"
    <3>1. eng_cfg' = eng_cfg /\ (engine' = "nb_done" => sstable_count_ui' = eng_cfg)
      BY <1>4, <1>7, <2>1, <2>5, UiEngine
    <3> QED BY <1>1, <1>4, <2>5, <3>1 DEF CfgInv
  <2>6. CASE ~clear_pulse_ui /\ engine = "nb_done"
    <3>1. engine' = "idle"
      BY <1>4, <1>7, <2>1, <2>6, UiEngine
    <3> QED BY <3>1
  <2> QED BY <1>4, <2>2, <2>3, <2>4, <2>5, <2>6 DEF ChainType
<1>9. ~Started' =>
         /\ cfg_axil' = r_cfg' /\ "cfg" \notin edge'
         /\ start_ui'[1] = start_toggle_axil' => cfg_ui'[1] = r_cfg'
         /\ start_ui'[2] = start_toggle_axil' => cfg_ui'[2] = r_cfg'
  <2>1. ~Started' => ~Started
    BY <1>1, <1>3, <1>4 DEF Started, CrossInv, InOrder
  <2> QED BY <1>1, <1>2, <1>3, <1>4, <2>1 DEF CfgInv
<1> QED BY <1>1, <1>4, <1>8, <1>9 DEF CfgInv

LEMMA ClearAxil ==
    ASSUME LongSettle, IInv, Bus \/ BusWait, AxilClock
    PROVE  ClearInv'
<1>1. /\ start_ui' = start_ui /\ clear_ui' = clear_ui
      /\ UNCHANGED <<engine, top_done_ui, top_error_ui>>
  BY AxilKeeps
<1>2. /\ ~ctrl_start_pulse => start_toggle_axil' = start_toggle_axil /\ "start" \notin edge'
      /\ ~ctrl_clear_pulse => clear_toggle_axil' = clear_toggle_axil
      /\ ctrl_clear_pulse => clear_toggle_axil' /= clear_toggle_axil
  BY AxilCtrl, AxilEdge DEF IInv
<1>3. ClearInv /\ CrossInv
  BY DEF IInv
<1>4. ~Clearing => Cleared
  BY <1>3 DEF ClearInv
<1>5. CASE Clearing /\ Clearing' /\ ~ctrl_start_pulse /\ ~ctrl_clear_pulse
  BY <1>1, <1>2, <1>3, <1>5 DEF ClearInv, Started, Cleared, Idle
<1>6. CASE ~Clearing /\ Clearing' /\ ~ctrl_start_pulse /\ ctrl_clear_pulse
  <2>1. /\ clear_ui[1] = clear_toggle_axil /\ clear_ui[2] = clear_toggle_axil
        /\ clear_ui[3] = clear_toggle_axil
    BY <1>3, <1>4, <1>6 DEF CrossInv, InOrder, Cleared
  <2> QED BY <1>1, <1>2, <1>6, <2>1 DEF ClearInv, Cleared
<1>7. CASE pc = "settle" /\ settle >= 10 /\ ~Clearing' /\ ~ctrl_clear_pulse
  <2>1. Cleared
    <3>1. settle >= 7
      BY <1>7, RegisterAssumption DEF IInv, BusInv
    <3> QED BY <1>7, <3>1 DEF IInv, SettleInv
  <2> QED BY <1>1, <1>2, <1>7, <2>1 DEF ClearInv, Cleared
<1>8. CASE ~Clearing /\ ~Clearing' /\ ~ctrl_clear_pulse
  BY <1>1, <1>2, <1>4, <1>8 DEF ClearInv, Cleared
<1>9. (Waiting => ~Clearing) /\ (Running => ~Clearing) /\ (Waiting' => ~Clearing') /\ (Running' => ~Clearing')
  BY DEF Waiting, Running, Clearing, ReadSteps
<1>10. \/ Clearing /\ Clearing' /\ ~ctrl_start_pulse /\ ~ctrl_clear_pulse
       \/ ~Clearing /\ Clearing' /\ ~ctrl_start_pulse /\ ctrl_clear_pulse
       \/ pc = "settle" /\ settle >= 10 /\ ~Clearing' /\ ~ctrl_clear_pulse
       \/ ~Clearing /\ ~Clearing' /\ ~ctrl_clear_pulse
  BY <1>9, Phases DEF IInv
<1> QED BY <1>5, <1>6, <1>7, <1>8, <1>10

\* An edge of the UI clock on which neither start nor clear is pending.
LEMMA IdleStays ==
    ASSUME IInv, NEW end, UiClock(end), Started, Cleared, engine = "idle"
    PROVE  /\ engine' = "idle" /\ ~top_done_ui' /\ Started'
           /\ UNCHANGED <<top_error_ui, eng_cfg, sstable_count_ui, outcome>>
<1>1. CrossInv /\ ChainType /\ MaxCalls \in Nat
  BY RegisterAssumption DEF IInv
<1>2. ~start_pulse_ui /\ ~clear_pulse_ui
  BY <1>1, UiPulses
<1>3. /\ engine' = "idle" /\ ~top_done_ui'
      /\ UNCHANGED <<top_error_ui, eng_cfg, sstable_count_ui, outcome>>
  BY <1>1, <1>2, UiEngine
<1>4. start_ui'[3] = start_ui[2] /\ start_toggle_axil' = start_toggle_axil
  BY <1>1, UiSamples, UiKeeps
<1>5. start_ui[2] = start_toggle_axil
  BY <1>1 DEF CrossInv, InOrder, Started
<1> QED BY <1>3, <1>4, <1>5 DEF Started

LEMMA ClearUi ==
    ASSUME IInv, NEW end, UiClock(end)
    PROVE  ClearInv'
<1>1. /\ UNCHANGED <<pc, r_ctrl_d, start_toggle_axil, clear_toggle_axil>>
  BY UiKeeps
<1>2. "start" \notin edge'
  BY UiEdge
<1>3. CrossInv /\ ClearInv /\ ChainType /\ MaxCalls \in Nat
  BY RegisterAssumption DEF IInv
<1>4. /\ start_ui'[2] = start_ui[1] /\ start_ui'[3] = start_ui[2]
      /\ "start" \notin edge => start_ui'[1] = start_toggle_axil
      /\ clear_ui'[2] = clear_ui[1] /\ clear_ui'[3] = clear_ui[2]
      /\ "clear" \notin edge => clear_ui'[1] = clear_toggle_axil
  BY <1>3, UiSamples
<1>5. Clearing' = Clearing
  BY <1>1 DEF Clearing
<1>6. Cleared => Cleared'
  BY <1>1, <1>3, <1>4 DEF CrossInv, InOrder, Cleared
<1>7. CASE ~Clearing
  BY <1>3, <1>5, <1>6, <1>7 DEF ClearInv
<1>8. CASE Clearing
  <2>1. /\ "start" \notin edge
        /\ clear_ui[1] = clear_toggle_axil => start_ui[1] = start_toggle_axil
        /\ clear_ui[2] = clear_toggle_axil => start_ui[2] = start_toggle_axil
        /\ Cleared => Started /\ Idle
    BY <1>3, <1>8 DEF ClearInv
  <2>2. Cleared' => Started'
    BY <1>1, <1>4, <2>1 DEF Cleared, Started
  <2>3. Cleared' => Idle'
    <3>1. CASE Cleared
      <4>1. engine' = "idle" /\ ~top_done_ui' /\ top_error_ui' = top_error_ui
        BY <2>1, <3>1, IdleStays DEF Idle
      <4>2. ~top_error_ui'
        BY <2>1, <3>1, <4>1 DEF Idle
      <4> QED BY <4>1, <4>2 DEF Idle
    <3>2. CASE ~Cleared /\ Cleared'
      <4>1. clear_pulse_ui
        BY <1>1, <1>3, <1>4, <3>2, UiPulses DEF Cleared
      <4>2. cfg_ui[2] \in 0..MaxCalls \/ ~start_pulse_ui
        <5>1. start_pulse_ui => cfg_ui[2] = r_cfg
          BY <1>3, UiPulses DEF IInv, CfgInv
        <5> QED BY <1>3, <5>1 DEF ChainType
      <4> QED BY <1>3, <4>1, <4>2, UiEngine
    <3> QED BY <3>1, <3>2
  <2>4. /\ clear_ui'[1] = clear_toggle_axil' => start_ui'[1] = start_toggle_axil'
        /\ clear_ui'[2] = clear_toggle_axil' => start_ui'[2] = start_toggle_axil'
    BY <1>1, <1>4, <2>1
  <2> QED BY <1>2, <1>5, <1>8, <2>2, <2>3, <2>4 DEF ClearInv
<1> QED BY <1>7, <1>8

LEMMA SettleAxil ==
    ASSUME LongSettle, IInv, Bus \/ BusWait, AxilClock
    PROVE  SettleInv'
<1> SUFFICES ASSUME pc' = "settle" PROVE SettleInv'
  BY DEF SettleInv
<1>1. CASE settle' = 0
  BY <1>1 DEF SettleInv
<1>2. CASE settle' /= 0
  <2>1. Clearing' /\ ~Waiting' /\ ~Running'
    BY DEF Clearing, Waiting, Running, ReadSteps
  <2>2. pc = "settle" /\ ~ctrl_start_pulse /\ ~ctrl_clear_pulse
    BY <1>2, <2>1, Phases DEF IInv
  <2>3. /\ clear_ui' = clear_ui
        /\ UNCHANGED <<done_toggle_ui, error_toggle_ui>>
    BY AxilKeeps
  <2>4. clear_toggle_axil' = clear_toggle_axil
        /\ "clear" \notin edge' /\ "done" \notin edge' /\ "error" \notin edge'
    BY <2>2, AxilCtrl, AxilEdge DEF IInv
  <2>5. /\ "done" \notin edge => done_axil'[1] = done_toggle_ui
        /\ "error" \notin edge => error_axil'[1] = error_toggle_ui
    BY AxilSamples, RegisterAssumption DEF IInv
  <2>6. settle \in Nat /\ settle' \in Nat
    BY SettleCounts, RegisterAssumption DEF IInv, BusInv, AxilClock
  <2>7. settle' /= settle => settle' = settle + 1 /\ settle % 2 = 1
    BY <1>2, SettleCounts DEF IInv, BusInv, AxilClock
  <2>8. /\ settle' >= 3 => settle >= 3
        /\ settle' >= 5 => settle >= 5
        /\ settle' >= 7 => settle >= 7
    BY <2>6, <2>7
  <2>9. settle' >= 10 => settle >= 8
    BY <2>6, <2>7
  <2>10. SettleInv
    BY DEF IInv
  <2> QED BY <2>2, <2>3, <2>4, <2>5, <2>8, <2>9, <2>10 DEF SettleInv, Cleared
<1> QED BY <1>1, <1>2

LEMMA SettleUi ==
    ASSUME IInv, NEW end, UiClock(end)
    PROVE  SettleInv'
<1> SUFFICES ASSUME pc' = "settle" PROVE SettleInv'
  BY DEF SettleInv
<1>1. pc = "settle" /\ UNCHANGED <<clear_toggle_axil, done_axil, error_axil>>
  BY UiKeeps
<1>2. /\ clear_ui'[2] = clear_ui[1] /\ clear_ui'[3] = clear_ui[2]
      /\ "clear" \notin edge => clear_ui'[1] = clear_toggle_axil
  BY UiSamples, RegisterAssumption DEF IInv
<1>3. /\ "clear" \notin edge'
      /\ "done" \in edge' => done_toggle_ui' /= done_toggle_ui
      /\ "error" \in edge' => error_toggle_ui' /= error_toggle_ui
  BY UiEdge
<1>4. /\ ~top_done_ui => done_toggle_ui' = done_toggle_ui
      /\ ~top_error_ui => error_toggle_ui' = error_toggle_ui
  BY UiToggles DEF IInv
<1>5. settle \in Nat /\ settle' \in Nat
  BY SettleCounts, RegisterAssumption DEF IInv, BusInv, UiClock
<1>6. settle' /= settle /\ settle' /= 0 => settle' = settle + 1 /\ settle % 2 = 0
  BY SettleCounts DEF IInv, BusInv, UiClock
<1>7. /\ settle' >= 3 => settle >= 1
      /\ settle' >= 5 => settle >= 3
      /\ settle' >= 7 => settle >= 5
      /\ settle' >= 8 => settle >= 7
  BY <1>5, <1>6
<1>8. settle' >= 10 => settle >= 10 /\ settle >= 7
  BY <1>5, <1>6
<1>9. SettleInv /\ (Cleared => Idle)
  BY <1>1 DEF IInv, ClearInv, Clearing
<1>10. settle' >= 8 => ~top_done_ui /\ ~top_error_ui
  BY <1>1, <1>7, <1>9 DEF SettleInv, Idle
<1>11. settle' >= 8 => "done" \notin edge' /\ "error" \notin edge'
  BY <1>3, <1>4, <1>10
<1>12. settle' >= 10 => done_axil'[1] = done_toggle_ui' /\ error_axil'[1] = error_toggle_ui'
  <2> SUFFICES ASSUME settle' >= 10 PROVE done_axil'[1] = done_toggle_ui' /\ error_axil'[1] = error_toggle_ui'
    OBVIOUS
  <2>1. settle >= 10 /\ settle' >= 8
    BY <1>5, <1>8
  <2> QED BY <1>1, <1>4, <1>9, <1>10, <2>1 DEF SettleInv
<1>13. /\ settle' >= 3 => clear_ui'[1] = clear_toggle_axil'
       /\ settle' >= 5 => clear_ui'[2] = clear_toggle_axil'
       /\ settle' >= 7 => Cleared'
  BY <1>1, <1>2, <1>7, <1>9 DEF SettleInv, Cleared
<1> QED BY <1>3, <1>11, <1>12, <1>13 DEF SettleInv

-----------------------------------------------------------------------------
(* Done and error.                                                         *)

LEMMA WaitAxil ==
    ASSUME LongSettle, IInv, Bus \/ BusWait, AxilClock
    PROVE  WaitInv'
<1> SUFFICES ASSUME Waiting' PROVE Started' /\ Idle' /\ NoAnswer'
  BY DEF WaitInv
<1>1. /\ start_ui' = start_ui
      /\ UNCHANGED <<engine, top_done_ui, top_error_ui, done_toggle_ui, error_toggle_ui>>
  BY AxilKeeps
<1>2. "done" \notin edge' /\ "error" \notin edge'
  BY AxilEdge
<1>3. ~ctrl_start_pulse => start_toggle_axil' = start_toggle_axil
  BY AxilCtrl DEF IInv
<1>4. /\ done_axil'[2] = done_axil[1] /\ error_axil'[2] = error_axil[1]
      /\ "done" \notin edge => done_axil'[1] = done_toggle_ui
      /\ "error" \notin edge => error_axil'[1] = error_toggle_ui
  BY AxilSamples, RegisterAssumption DEF IInv
<1>5. ~Clearing' /\ ~Running'
  BY DEF Waiting, Clearing, Running, ReadSteps
<1>6. ~ctrl_start_pulse /\ ((pc = "settle" /\ settle >= 10) \/ Waiting)
  BY <1>5, Phases DEF IInv
<1>7. /\ Started /\ Idle
      /\ done_axil[1] = done_toggle_ui /\ error_axil[1] = error_toggle_ui
      /\ "done" \notin edge /\ "error" \notin edge
  <2>1. CASE pc = "settle" /\ settle >= 10
    <3>1. settle >= 7 /\ settle >= 8
      BY <2>1, RegisterAssumption DEF IInv, BusInv
    <3>2. Cleared /\ Clearing
      BY <2>1, <3>1 DEF IInv, SettleInv, Clearing
    <3> QED BY <2>1, <3>1, <3>2 DEF IInv, SettleInv, ClearInv
  <2>2. CASE Waiting
    BY <2>2 DEF IInv, WaitInv, NoAnswer
  <2> QED BY <1>6, <2>1, <2>2
<1> QED BY <1>1, <1>2, <1>3, <1>4, <1>6, <1>7 DEF Started, Idle, NoAnswer

LEMMA WaitUi ==
    ASSUME IInv, NEW end, UiClock(end)
    PROVE  WaitInv'
<1> SUFFICES ASSUME Waiting' PROVE Started' /\ Idle' /\ NoAnswer'
  BY DEF WaitInv
<1>1. UNCHANGED <<pc, r_ctrl_d, done_axil, error_axil>>
  BY UiKeeps
<1>2. Waiting
  BY <1>1 DEF Waiting
<1>3. Started /\ Idle /\ NoAnswer /\ Cleared
  BY <1>2 DEF IInv, WaitInv, ClearInv, Waiting, Clearing
<1>4. engine' = "idle" /\ ~top_done_ui' /\ Started' /\ top_error_ui' = top_error_ui
  BY <1>3, IdleStays DEF Idle
<1>5. done_toggle_ui' = done_toggle_ui /\ error_toggle_ui' = error_toggle_ui
  BY <1>3, UiToggles DEF IInv, Idle
<1>6. "done" \notin edge' /\ "error" \notin edge'
  BY <1>5, UiEdge
<1>7. ~top_error_ui'
  BY <1>3, <1>4 DEF Idle
<1> QED BY <1>1, <1>3, <1>4, <1>5, <1>6, <1>7 DEF Idle, NoAnswer

LEMMA CfgKept ==
    ASSUME Bus \/ BusWait, pc /= "cfg"
    PROVE  r_cfg' = r_cfg
  BY DEF Bus, BusWait, WriteAddress, WriteData, WriteResponse, ReadScalar, ReadArray,
         ArrayAnswer, ReadResponse, SettleOver, noWrite

LEMMA RunAxil ==
    ASSUME LongSettle, IInv, Bus \/ BusWait, AxilClock
    PROVE  RunInv'
<1> SUFFICES ASSUME Running' PROVE RunInv'
  BY DEF RunInv
<1>1. /\ start_ui' = start_ui /\ engine' = engine /\ outcome' = outcome
      /\ UNCHANGED <<top_done_ui, top_error_ui, done_toggle_ui, error_toggle_ui, sstable_count_ui>>
  BY AxilKeeps
<1>2. "done" \notin edge' /\ "error" \notin edge' /\ "count" \notin edge'
  BY AxilEdge
<1>3. /\ done_axil'[2] = done_axil[1] /\ error_axil'[2] = error_axil[1]
      /\ "done" \notin edge => done_axil'[1] = done_toggle_ui
      /\ "error" \notin edge => error_axil'[1] = error_toggle_ui
      /\ count_axil'[2] = count_axil[1]
      /\ "count" \notin edge => count_axil'[1] = sstable_count_ui
  BY AxilSamples, RegisterAssumption DEF IInv
<1>4. /\ "done" \in r_status' =>
             (~ctrl_start_pulse /\ "done" \in r_status) \/ done_axil[2] /= done_axil[1]
      /\ "error" \in r_status' =>
             (~ctrl_start_pulse /\ "error" \in r_status) \/ error_axil[2] /= error_axil[1]
  BY DEF AxilClock, StatusClock, done_pulse_axil, error_pulse_axil
<1>5. ~Clearing' /\ ~Waiting'
  BY DEF Waiting, Clearing, Running, ReadSteps
<1>6. (pc = "start" /\ Waiting /\ ctrl_start_pulse) \/ (Running /\ ~ctrl_start_pulse)
  BY <1>5, Phases DEF IInv
<1>7. CASE pc = "start" /\ Waiting /\ ctrl_start_pulse
  <2>1. Started /\ Idle /\ NoAnswer
    BY <1>7 DEF IInv, WaitInv
  <2>2. /\ done_axil'[1] = done_toggle_ui' /\ done_axil'[2] = done_axil'[1]
        /\ error_axil'[1] = error_toggle_ui' /\ error_axil'[2] = error_axil'[1]
    BY <1>1, <1>3, <2>1 DEF NoAnswer
  <2>3. "done" \notin r_status' /\ "error" \notin r_status'
    BY <1>4, <1>7, <2>1 DEF NoAnswer
  <2>4. engine' = "idle" /\ ~top_done_ui' /\ ~top_error_ui'
    BY <1>1, <2>1 DEF Idle
  <2> QED BY <1>2, <2>2, <2>3, <2>4 DEF RunInv, DoneOnWay, ErrorOnWay
<1>8. CASE Running /\ ~ctrl_start_pulse
  <2>1. start_toggle_axil' = start_toggle_axil
    BY <1>8, AxilCtrl DEF IInv
  <2>2. r_cfg' = r_cfg
    BY <1>8, CfgKept DEF Running, ReadSteps
  <2>3. RunInv
    BY DEF IInv
  <2>4. /\ engine /= "idle" => Started
        /\ DoneOnWay => /\ Started /\ engine = "idle" /\ outcome = <<r_cfg, "done">>
                        /\ sstable_count_ui = r_cfg /\ "count" \notin edge
        /\ ErrorOnWay => Started /\ engine = "idle" /\ outcome = <<r_cfg, "error">>
        /\ done_axil[2] /= done_axil[1] => count_axil[1] = r_cfg
        /\ "done" \in r_status => count_axil[1] = r_cfg /\ count_axil[2] = r_cfg
    BY <1>8, <2>3 DEF RunInv
  <2>5. Started' = Started
    BY <1>1, <2>1 DEF Started
  <2>6. DoneOnWay' => DoneOnWay
    BY <1>1, <1>2, <1>3, <1>4 DEF DoneOnWay
  <2>7. ErrorOnWay' => ErrorOnWay
    BY <1>1, <1>2, <1>3, <1>4 DEF ErrorOnWay
  <2>8. done_axil'[2] /= done_axil'[1] \/ "done" \in r_status' => count_axil'[1] = r_cfg
    <3>1. done_axil'[2] /= done_axil'[1] \/ "done" \in r_status' => DoneOnWay
      BY <2>6 DEF DoneOnWay
    <3> QED BY <1>3, <2>4, <3>1
  <2>9. "done" \in r_status' => count_axil'[2] = r_cfg
    BY <1>3, <1>4, <2>4
  <2> QED BY <1>1, <1>2, <2>2, <2>4, <2>5, <2>6, <2>7, <2>8, <2>9 DEF RunInv
<1> QED BY <1>6, <1>7, <1>8

LEMMA RunUi ==
    ASSUME IInv, NEW end, UiClock(end)
    PROVE  RunInv'
<1> SUFFICES ASSUME Running' PROVE RunInv'
  BY DEF RunInv
<1>1. /\ UNCHANGED <<pc, r_ctrl_d, r_cfg, r_status, done_axil, error_axil, count_axil>>
      /\ start_toggle_axil' = start_toggle_axil
  BY UiKeeps
<1>2. Running
  BY <1>1 DEF Running
<1>3. /\ engine /= "idle" => Started
      /\ DoneOnWay => /\ Started /\ engine = "idle" /\ outcome = <<r_cfg, "done">>
                      /\ sstable_count_ui = r_cfg /\ "count" \notin edge
      /\ ErrorOnWay => Started /\ engine = "idle" /\ outcome = <<r_cfg, "error">>
      /\ done_axil[2] /= done_axil[1] => count_axil[1] = r_cfg
      /\ "done" \in r_status => count_axil[1] = r_cfg /\ count_axil[2] = r_cfg
  BY <1>2 DEF IInv, RunInv
<1>4. Cleared /\ CrossInv /\ CfgInv /\ ChainType /\ MaxCalls \in Nat
  BY <1>2, RegisterAssumption DEF IInv, ClearInv, Running, Clearing, ReadSteps
<1>5. ~clear_pulse_ui /\ (start_pulse_ui <=> ~Started /\ start_ui[2] = start_toggle_axil)
  BY <1>4, UiPulses
<1>6. /\ "done" \in edge' => done_toggle_ui' /= done_toggle_ui
      /\ "error" \in edge' => error_toggle_ui' /= error_toggle_ui
      /\ "count" \in edge' => sstable_count_ui' /= sstable_count_ui
  BY UiEdge
<1>7. /\ ~top_done_ui => done_toggle_ui' = done_toggle_ui
      /\ ~top_error_ui => error_toggle_ui' = error_toggle_ui
  BY <1>4, UiToggles
<1>8. start_ui'[3] = start_ui[2]
  BY <1>4, UiSamples
<1>9. cfg_ui[2] \in 0..MaxCalls \/ ~start_pulse_ui
  BY <1>4, <1>5 DEF CfgInv, ChainType
<1>10. Started => Started'
  BY <1>1, <1>4, <1>8 DEF Started, CrossInv, InOrder
<1>11. DoneOnWay' => top_done_ui' \/ DoneOnWay
  BY <1>1, <1>6, <1>7 DEF DoneOnWay
<1>12. ErrorOnWay' => top_error_ui' \/ ErrorOnWay
  BY <1>1, <1>6, <1>7 DEF ErrorOnWay
<1>13. CASE engine = "idle" /\ ~start_pulse_ui
  <2>1. /\ engine' = "idle" /\ ~top_done_ui' /\ top_error_ui' = top_error_ui
        /\ sstable_count_ui' = sstable_count_ui /\ outcome' = outcome
    BY <1>4, <1>5, <1>9, <1>13, UiEngine
  <2>2. (DoneOnWay' => DoneOnWay) /\ (ErrorOnWay' => ErrorOnWay) /\ "count" \notin edge'
    BY <1>6, <1>11, <1>12, <2>1 DEF ErrorOnWay
  <2> QED BY <1>1, <1>3, <1>10, <2>1, <2>2 DEF RunInv
<1>14. CASE engine = "idle" /\ start_pulse_ui
  <2>1. engine' = "run" /\ ~top_done_ui' /\ ~top_error_ui'
    BY <1>4, <1>5, <1>9, <1>14, UiEngine
  <2>2. ~DoneOnWay' /\ ~ErrorOnWay'
    BY <1>3, <1>5, <1>11, <1>12, <1>14, <2>1
  <2>3. Started'
    BY <1>1, <1>5, <1>8, <1>14 DEF Started
  <2> QED BY <1>1, <1>3, <2>2, <2>3 DEF RunInv
<1>15. CASE engine = "run"
  <2>1. /\ ~top_done_ui' /\ eng_cfg = r_cfg
        /\ \/ engine' = "run" /\ top_error_ui' = top_error_ui
           \/ engine' = "idle" /\ outcome' = <<eng_cfg, "error">>
           \/ engine' = "nb_done" /\ top_error_ui' = top_error_ui
    BY <1>4, <1>5, <1>9, <1>15, UiEngine DEF CfgInv
  <2>2. ~DoneOnWay /\ ~ErrorOnWay /\ ~top_error_ui
    BY <1>3, <1>15 DEF ErrorOnWay
  <2>3. ~DoneOnWay'
    BY <1>11, <2>1, <2>2
  <2>4. ErrorOnWay' => engine' = "idle" /\ outcome' = <<r_cfg, "error">>
    BY <1>12, <2>1, <2>2
  <2> QED BY <1>1, <1>3, <1>10, <1>15, <2>3, <2>4 DEF RunInv
<1>16. CASE engine = "nb_done"
  <2>1. /\ engine' = "idle" /\ outcome' = <<eng_cfg, "done">> /\ eng_cfg = r_cfg
        /\ top_error_ui' = top_error_ui
        /\ sstable_count_ui' = sstable_count_ui /\ sstable_count_ui = r_cfg
    BY <1>4, <1>5, <1>9, <1>16, UiEngine DEF CfgInv
  <2>2. ~ErrorOnWay /\ ~top_error_ui
    BY <1>3, <1>16 DEF ErrorOnWay
  <2>3. ~ErrorOnWay' /\ "count" \notin edge'
    BY <1>6, <1>12, <2>1, <2>2
  <2> QED BY <1>1, <1>3, <1>10, <1>16, <2>1, <2>3 DEF RunInv
<1> QED BY <1>4, <1>13, <1>14, <1>15, <1>16 DEF ChainType

-----------------------------------------------------------------------------
(* What the driver reads.                                                  *)

\* The answer for an array entry is taken when all of its way is done.
LEMMA AnswerThere ==
    ASSUME ChainType, ArrayInv, bus = "rd_fsm_wait", arr_resp_pulse_axil
    PROVE  /\ \A i \in 1..3 : arr_req_ui[i] = arr_req_toggle_axil
           /\ arr_resp_axil[1] = arr_req_toggle_axil /\ arr_resp_axil[2] = arr_req_toggle_axil
           /\ arr_resp_toggle_ui = arr_req_toggle_axil
           /\ "resp" \notin edge /\ "req" \notin edge
           /\ arr_data_axil[2] \in Answer
<1>1. Request /\ RequestData /\ arr_resp_toggle_ui = arr_req_ui[3]
  BY DEF ArrayInv
<1>2. arr_resp_axil[3] /= arr_resp_axil[2] /\ arr_resp_axil[3] /= arr_req_toggle_axil
  BY <1>1 DEF Request, arr_resp_pulse_axil
<1>3. /\ arr_resp_axil[1] \in BOOLEAN /\ arr_resp_axil[2] \in BOOLEAN /\ arr_resp_axil[3] \in BOOLEAN
      /\ arr_req_toggle_axil \in BOOLEAN
  BY BitValues DEF ChainType
<1>4. arr_resp_axil[2] = arr_req_toggle_axil
  BY <1>2, <1>3, TwoValued
<1>5. arr_resp_axil[1] = arr_req_toggle_axil /\ arr_req_ui[3] = arr_req_toggle_axil
  BY <1>1, <1>4 DEF Request
<1>6. arr_req_ui[2] = arr_req_toggle_axil /\ arr_req_ui[1] = arr_req_toggle_axil
  BY <1>1, <1>5 DEF Request, InOrder
<1>7. "resp" \notin edge /\ "req" \notin edge
  BY <1>1, <1>5, <1>6 DEF Request
<1>8. arr_data_axil[2] \in Answer
  BY <1>1, <1>4 DEF RequestData
<1>9. \A i \in 1..3 : i = 1 \/ i = 2 \/ i = 3
  OBVIOUS
<1> QED BY <1>1, <1>4, <1>5, <1>6, <1>7, <1>8, <1>9

LEMMA ReadAxil ==
    ASSUME LongSettle, IInv, Bus \/ BusWait, AxilClock
    PROVE  ReadInv'
<1>1. BusInv /\ ChainType /\ ReadInv /\ ArrayInv /\ RunInv /\ CfgInv
  BY DEF IInv
<1>2. pc \in ReadSteps => r_status \subseteq r_status' /\ Running /\ r_cfg = call
  <2> SUFFICES ASSUME pc \in ReadSteps PROVE r_status \subseteq r_status' /\ Running /\ r_cfg = call
    OBVIOUS
  <2>1. r_ctrl = 1 /\ r_ctrl_d = 1
    BY <1>1 DEF BusInv, ReadSteps, WriteSteps
  <2>2. ~ctrl_start_pulse /\ ~ctrl_clear_pulse
    BY <2>1 DEF ctrl_start_pulse, ctrl_clear_pulse
  <2>3. r_status \subseteq r_status'
    BY <2>2 DEF AxilClock, StatusClock
  <2> QED BY <1>1, <2>3 DEF Running, CfgInv
<1>3. CASE ReadScalar
  <2>1. /\ pc \in {"poll", "count"} /\ bus = "idle" /\ bus' = "rvalid"
        /\ pc' = pc /\ call' = call /\ entry' = entry
    BY <1>3 DEF ReadScalar
  <2>2. rdata = 0 /\ r_status \subseteq r_status'
    BY <1>1, <1>2, <2>1 DEF ReadInv, ReadSteps
  <2>3. CASE pc = "poll"
    <3>1. status_reg' = r_status /\ rdata' = rdata
      BY <1>3, <2>3 DEF ReadScalar
    <3> QED BY <2>1, <2>2, <2>3, <3>1 DEF ReadInv, ResultsCoherent
  <2>4. CASE pc = "count"
    <3>1. rdata' = count_axil[2] /\ "done" \in r_status
      BY <1>1, <1>3, <2>4 DEF ReadScalar, ReadInv
    <3>2. rdata' = call
      BY <1>1, <1>2, <2>4, <3>1 DEF RunInv, ReadSteps
    <3> QED BY <2>1, <2>2, <2>4, <3>1, <3>2 DEF ReadInv, ResultsCoherent
  <2> QED BY <2>1, <2>3, <2>4
<1>4. CASE ArrayAnswer
  <2>1. /\ bus = "rd_fsm_wait" /\ arr_resp_pulse_axil /\ rdata' = arr_data_axil[2]
        /\ bus' = "rvalid" /\ pc' = pc /\ call' = call /\ entry' = entry
    BY <1>4 DEF ArrayAnswer
  <2>2. pc = "sizes" /\ "done" \in r_status /\ r_status \subseteq r_status'
    BY <1>1, <1>2, <2>1 DEF BusInv, ReadInv, ReadSteps
  <2>3. rdata' \in Answer
    BY <1>1, <2>1, AnswerThere
  <2> QED BY <2>1, <2>2, <2>3 DEF ReadInv, ResultsCoherent, Answer
<1>5. CASE ReadResponse
  <2>1. bus = "rvalid" /\ bus' = "idle" /\ rdata' = 0 /\ pc \in ReadSteps
    BY <1>1, <1>5 DEF ReadResponse, BusInv
  <2>2. pc' \in {"count", "sizes"} => "done" \in r_status
    <3>1. CASE pc = "poll"
      <4>1. status_reg \subseteq r_status
        BY <1>1, <2>1, <3>1 DEF ReadInv
      <4>2. pc' \in {"count", "sizes"} => status_reg = {"done"}
        BY <1>5, <3>1 DEF ReadResponse, NextCall
      <4> QED BY <4>1, <4>2
    <3>2. CASE pc \in {"count", "sizes"}
      BY <1>1, <3>2 DEF ReadInv
    <3> QED BY <2>1, <3>1, <3>2 DEF ReadSteps
  <2> QED BY <1>2, <2>1, <2>2 DEF ReadInv, ResultsCoherent
<1>6. CASE BusWait \/ ReadArray
  <2>1. /\ UNCHANGED <<pc, call, entry, rdata, status_reg>>
        /\ bus' = bus \/ (bus' = "rd_fsm_wait" /\ bus = "idle")
    BY <1>6 DEF BusWait, ReadArray, hostVars
  <2>2. CASE pc \in ReadSteps
    BY <1>1, <1>2, <2>1, <2>2 DEF ReadInv, ResultsCoherent
  <2>3. CASE pc \notin ReadSteps
    BY <1>1, <2>1, <2>3 DEF ReadInv, ResultsCoherent, ReadSteps, BusInv
  <2> QED BY <2>2, <2>3
<1>7. CASE WriteAddress \/ WriteData \/ WriteResponse \/ SettleOver
  <2>1. rdata' = rdata /\ bus /= "rvalid" /\ bus' /= "rvalid"
    BY <1>1, <1>7 DEF WriteAddress, WriteData, WriteResponse, SettleOver, BusInv, ReadSteps
  <2>2. pc' \notin {"count", "sizes"}
    <3>1. CASE WriteResponse
      <4>1. pc \in WriteSteps /\ pc' = AfterWrite[pc]
        BY <1>1, <3>1 DEF WriteResponse, BusInv
      <4> QED BY <4>1 DEF WriteSteps, AfterWrite
    <3>2. CASE SettleOver
      BY <3>2 DEF SettleOver
    <3>3. CASE WriteAddress \/ WriteData
      BY <1>1, <3>3 DEF WriteAddress, WriteData, BusInv, WriteSteps
    <3> QED BY <1>7, <3>1, <3>2, <3>3
  <2> QED BY <1>1, <2>1, <2>2 DEF ReadInv, ResultsCoherent
<1> QED BY <1>3, <1>4, <1>5, <1>6, <1>7 DEF Bus

LEMMA ReadUi ==
    ASSUME IInv, NEW end, UiClock(end)
    PROVE  ReadInv'
<1>1. UNCHANGED <<pc, call, bus, entry, rdata, status_reg, r_status>>
  BY UiKeeps
<1> QED BY <1>1 DEF IInv, ReadInv, ResultsCoherent

\* Steps of the driver that leave the array read alone.
LEMMA ArrayOther ==
    ASSUME BusInv, Bus \/ BusWait, ~ReadArray, ~ArrayAnswer
    PROVE  /\ UNCHANGED <<arr_req_toggle_axil, arr_req_idx_axil>>
           /\ bus' = "rd_fsm_wait" <=> bus = "rd_fsm_wait"
           /\ bus = "rd_fsm_wait" => BusWait /\ entry' = entry /\ call' = call
  BY DEF Bus, BusWait, WriteAddress, WriteData, WriteResponse, ReadScalar, ReadResponse,
         SettleOver, noRequest, hostVars, BusInv

LEMMA ArrayAxil ==
    ASSUME LongSettle, IInv, Bus \/ BusWait, AxilClock
    PROVE  ArrayInv'
<1>1. BusInv /\ ChainType /\ ArrayInv
  BY DEF IInv
<1>2. /\ UNCHANGED <<arr_req_ui, arr_idx_ui, arr_resp_toggle_ui, arr_resp_data_ui>>
  BY AxilKeeps
<1>3. /\ "req" \in edge' => arr_req_toggle_axil' /= arr_req_toggle_axil
      /\ "resp" \notin edge'
  BY AxilEdge
<1>4. /\ arr_resp_axil'[2] = arr_resp_axil[1] /\ arr_resp_axil'[3] = arr_resp_axil[2]
      /\ "resp" \notin edge => arr_resp_axil'[1] = arr_resp_toggle_ui
      /\ arr_data_axil'[2] = arr_data_axil[1]
      /\ arr_data_axil'[1] \in {arr_resp_data_ui, Torn}
  BY <1>1, AxilSamples, RegisterAssumption
<1>5. \A i \in 1..3 : i = 1 \/ i = 2 \/ i = 3
  OBVIOUS
<1>6. arr_resp_toggle_ui' = arr_req_ui'[3]
  BY <1>1, <1>2 DEF ArrayInv
<1>7. CASE ReadArray
  <2>1. /\ bus = "idle" /\ bus' = "rd_fsm_wait" /\ entry' = entry
        /\ arr_req_toggle_axil' = ~arr_req_toggle_axil /\ arr_req_idx_axil' = entry
    BY <1>7 DEF ReadArray
  <2>2. arr_req_toggle_axil' /= arr_req_toggle_axil
    <3>1. arr_req_toggle_axil \in BOOLEAN
      BY <1>1 DEF ChainType
    <3> QED BY <2>1, <3>1, Zenon
  <2>3. NoRequest
    BY <1>1, <2>1 DEF ArrayInv
  <2>4. /\ arr_req_ui[1] = arr_req_toggle_axil /\ arr_req_ui[2] = arr_req_toggle_axil
        /\ arr_req_ui[3] = arr_req_toggle_axil
        /\ arr_resp_axil[1] = arr_req_toggle_axil /\ arr_resp_axil[2] = arr_req_toggle_axil
        /\ arr_resp_toggle_ui = arr_req_toggle_axil /\ "resp" \notin edge
    BY <1>1, <2>3 DEF NoRequest, ArrayInv
  <2>5. /\ arr_resp_axil'[1] /= arr_req_toggle_axil' /\ arr_resp_axil'[2] /= arr_req_toggle_axil'
        /\ arr_resp_axil'[3] /= arr_req_toggle_axil'
        /\ arr_req_ui'[1] /= arr_req_toggle_axil' /\ arr_req_ui'[2] /= arr_req_toggle_axil'
        /\ arr_req_ui'[3] /= arr_req_toggle_axil'
    BY <1>2, <1>4, <2>2, <2>4
  <2>6. Request' /\ RequestData'
    BY <1>3, <2>1, <2>5 DEF Request, RequestData, InOrder
  <2> QED BY <1>6, <2>1, <2>6 DEF ArrayInv
<1>8. CASE ArrayAnswer
  <2>1. /\ bus = "rd_fsm_wait" /\ arr_resp_pulse_axil
        /\ bus' = "rvalid" /\ arr_req_toggle_axil' = arr_req_toggle_axil
    BY <1>8 DEF ArrayAnswer, noRequest
  <2>2. /\ \A i \in 1..3 : arr_req_ui[i] = arr_req_toggle_axil
        /\ arr_resp_axil[1] = arr_req_toggle_axil /\ arr_resp_axil[2] = arr_req_toggle_axil
        /\ arr_resp_toggle_ui = arr_req_toggle_axil /\ "resp" \notin edge
    BY <1>1, <2>1, AnswerThere
  <2>3. /\ arr_resp_axil'[1] = arr_req_toggle_axil' /\ arr_resp_axil'[2] = arr_req_toggle_axil'
        /\ arr_resp_axil'[3] = arr_req_toggle_axil'
    BY <1>4, <2>1, <2>2
  <2>4. NoRequest'
    BY <1>2, <1>3, <1>5, <2>1, <2>2, <2>3 DEF NoRequest
  <2> QED BY <1>6, <2>1, <2>4 DEF ArrayInv
<1>9. CASE ~ReadArray /\ ~ArrayAnswer
  <2>1. /\ arr_req_toggle_axil' = arr_req_toggle_axil /\ arr_req_idx_axil' = arr_req_idx_axil
        /\ bus' = "rd_fsm_wait" <=> bus = "rd_fsm_wait"
        /\ bus = "rd_fsm_wait" => BusWait /\ entry' = entry /\ call' = call
    BY <1>1, <1>9, ArrayOther
  <2>2. CASE bus /= "rd_fsm_wait"
    <3>1. NoRequest
      BY <1>1, <2>2 DEF ArrayInv
    <3>2. /\ arr_resp_axil'[1] = arr_req_toggle_axil /\ arr_resp_axil'[2] = arr_req_toggle_axil
          /\ arr_resp_axil'[3] = arr_req_toggle_axil
      BY <1>1, <1>4, <3>1 DEF NoRequest, ArrayInv
    <3>3. NoRequest'
      BY <1>2, <1>3, <1>5, <2>1, <3>1, <3>2 DEF NoRequest
    <3> QED BY <1>6, <2>1, <2>2, <3>3 DEF ArrayInv
  <2>3. CASE bus = "rd_fsm_wait"
    <3>1. Request /\ RequestData /\ arr_resp_toggle_ui = arr_req_ui[3]
      BY <1>1, <2>3 DEF ArrayInv
    <3>2. ~arr_resp_pulse_axil
      BY <2>1, <2>3 DEF BusWait
    <3>3. arr_resp_axil'[3] /= arr_req_toggle_axil
      BY <1>4, <3>1, <3>2 DEF arr_resp_pulse_axil, Request
    <3>4. arr_resp_axil'[1] = arr_req_toggle_axil => arr_req_ui[3] = arr_req_toggle_axil
      BY <1>4, <3>1 DEF Request
    <3>5. arr_resp_axil'[2] = arr_req_toggle_axil => arr_resp_axil'[1] = arr_req_toggle_axil
      <4>1. arr_resp_axil[1] = arr_req_toggle_axil => "resp" \notin edge /\ arr_req_ui[3] = arr_req_toggle_axil
        BY <3>1 DEF Request
      <4> QED BY <1>4, <3>1, <4>1
    <3>6. Request'
      BY <1>2, <1>3, <2>1, <2>3, <3>1, <3>3, <3>4, <3>5 DEF Request, InOrder
    <3>7. Answer' = Answer /\ Torn \in Answer
      BY <2>1, <2>3 DEF Answer
    <3>8. /\ arr_resp_axil'[1] = arr_req_toggle_axil => arr_data_axil'[1] \in Answer
          /\ arr_resp_axil'[2] = arr_req_toggle_axil => arr_data_axil'[2] \in Answer
      BY <1>4, <3>1, <3>4, <3>7 DEF RequestData
    <3>9. RequestData'
      BY <1>2, <2>1, <2>3, <3>1, <3>7, <3>8 DEF RequestData
    <3> QED BY <1>6, <2>1, <2>3, <3>6, <3>9 DEF ArrayInv
  <2> QED BY <2>2, <2>3
<1> QED BY <1>7, <1>8, <1>9

LEMMA ArrayUi ==
    ASSUME IInv, NEW end, UiClock(end)
    PROVE  ArrayInv'
<1>1. BusInv /\ ChainType /\ ArrayInv /\ ReadInv /\ RunInv /\ CfgInv
  BY DEF IInv
<1>2. /\ UNCHANGED <<bus, call, entry, arr_req_toggle_axil, arr_req_idx_axil>>
      /\ UNCHANGED <<arr_resp_axil, arr_data_axil>>
  BY UiKeeps
<1>3. /\ "req" \notin edge'
      /\ "resp" \in edge' => arr_resp_toggle_ui' /= arr_resp_toggle_ui
  BY UiEdge
<1>4. /\ arr_req_ui'[2] = arr_req_ui[1] /\ arr_req_ui'[3] = arr_req_ui[2]
      /\ "req" \notin edge => arr_req_ui'[1] = arr_req_toggle_axil
      /\ arr_idx_ui'[2] = arr_idx_ui[1]
      /\ arr_idx_ui'[1] \in {arr_req_idx_axil, Torn}
  BY <1>1, UiSamples, RegisterAssumption
<1>5. /\ arr_resp_toggle_ui' \in BOOLEAN
      /\ arr_req_pulse_ui => arr_resp_toggle_ui' /= arr_resp_toggle_ui
      /\ ~arr_req_pulse_ui => arr_resp_toggle_ui' = arr_resp_toggle_ui
                              /\ arr_resp_data_ui' = arr_resp_data_ui
      /\ arr_req_pulse_ui =>
           arr_resp_data_ui' = IF arr_idx_ui[2] = Torn THEN Torn
                               ELSE sstable_count_ui * Entries + arr_idx_ui[2]
  BY <1>1, UiResponder
<1>6. arr_req_ui[2] \in BOOLEAN /\ arr_req_ui[3] \in BOOLEAN /\ arr_resp_toggle_ui = arr_req_ui[3]
  BY <1>1, BitValues DEF ChainType, ArrayInv
<1>7. arr_resp_toggle_ui' = arr_req_ui'[3]
  <2>1. CASE arr_req_pulse_ui
    <3>1. arr_req_ui[3] /= arr_req_ui[2]
      BY <2>1 DEF arr_req_pulse_ui
    <3> QED BY <1>4, <1>5, <1>6, <2>1, <3>1, TwoValued
  <2>2. CASE ~arr_req_pulse_ui
    BY <1>4, <1>5, <1>6, <2>2 DEF arr_req_pulse_ui
  <2> QED BY <2>1, <2>2
<1>8. \A i \in 1..3 : i = 1 \/ i = 2 \/ i = 3
  OBVIOUS
<1>9. CASE bus /= "rd_fsm_wait"
  <2>1. NoRequest
    BY <1>1, <1>9 DEF ArrayInv
  <2>2. /\ arr_req_ui'[1] = arr_req_toggle_axil /\ arr_req_ui'[2] = arr_req_toggle_axil
        /\ arr_req_ui'[3] = arr_req_toggle_axil /\ ~arr_req_pulse_ui
    BY <1>4, <2>1 DEF NoRequest, arr_req_pulse_ui
  <2>3. NoRequest'
    BY <1>2, <1>3, <1>5, <1>8, <2>1, <2>2 DEF NoRequest
  <2> QED BY <1>2, <1>7, <1>9, <2>3 DEF ArrayInv
<1>10. CASE bus = "rd_fsm_wait"
  <2>1. Request /\ RequestData
    BY <1>1, <1>10 DEF ArrayInv
  <2>2. arr_req_pulse_ui <=> arr_req_ui[3] /= arr_req_toggle_axil /\ arr_req_ui[2] = arr_req_toggle_axil
    <3>1. arr_req_ui \in Bits(3) /\ arr_req_toggle_axil \in BOOLEAN /\ InOrder(arr_req_ui, arr_req_toggle_axil)
      BY <1>1, <2>1 DEF ChainType, Request
    <3> QED BY <3>1, PulseOf DEF arr_req_pulse_ui
  <2>3. InOrder(arr_req_ui', arr_req_toggle_axil')
    BY <1>2, <1>4, <2>1 DEF Request, InOrder
  <2>4. arr_req_ui[3] = arr_req_toggle_axil => arr_req_ui'[3] = arr_req_toggle_axil
    BY <1>4, <2>1 DEF Request, InOrder
  <2>5. "resp" \in edge' => arr_resp_axil[1] /= arr_req_toggle_axil /\ arr_req_ui'[3] = arr_req_toggle_axil
    <3> SUFFICES ASSUME "resp" \in edge'
                 PROVE  arr_resp_axil[1] /= arr_req_toggle_axil /\ arr_req_ui'[3] = arr_req_toggle_axil
      OBVIOUS
    <3>1. arr_req_pulse_ui
      BY <1>3, <1>5
    <3> QED BY <1>4, <2>1, <2>2, <3>1 DEF Request
  <2>6. Request'
    BY <1>2, <1>3, <2>1, <2>3, <2>4, <2>5 DEF Request
  <2>7. Answer' = Answer
    BY <1>2 DEF Answer
  <2>8. sstable_count_ui = call
    <3>1. pc = "sizes" /\ "done" \in r_status
      BY <1>1, <1>10 DEF BusInv, ReadInv
    <3>2. Running /\ DoneOnWay /\ r_cfg = call
      BY <1>1, <3>1 DEF Running, ReadSteps, DoneOnWay, CfgInv
    <3> QED BY <1>1, <3>2 DEF RunInv
  <2>9. arr_req_pulse_ui => arr_resp_data_ui' \in Answer
    <3>1. arr_req_pulse_ui => arr_idx_ui[2] \in {entry, Torn}
      BY <2>1, <2>2 DEF RequestData
    <3> QED BY <1>5, <2>8, <3>1 DEF Answer
  <2>10. arr_req_ui'[3] = arr_req_toggle_axil => arr_resp_data_ui' \in Answer
    BY <1>4, <1>5, <2>1, <2>2, <2>9 DEF RequestData
  <2>11. arr_req_ui'[3] /= arr_req_toggle_axil =>
         /\ arr_idx_ui'[1] \in {entry, Torn}
         /\ arr_req_ui'[2] = arr_req_toggle_axil => arr_idx_ui'[2] \in {entry, Torn}
    BY <1>4, <2>1, <2>4 DEF RequestData, Request
  <2>12. RequestData'
    BY <1>2, <2>1, <2>7, <2>10, <2>11 DEF RequestData
  <2> QED BY <1>2, <1>7, <1>10, <2>6, <2>12 DEF ArrayInv
<1> QED BY <1>9, <1>10

-----------------------------------------------------------------------------
(* Types.                                                                  *)

LEMMA TypeAxil ==
    ASSUME IInv, Bus \/ BusWait, AxilClock
    PROVE  ChainType'
<1>1. BusInv /\ ChainType /\ MaxCalls \in Nat /\ Entries \in Nat
  BY RegisterAssumption DEF IInv
<1>2. /\ UNCHANGED <<start_ui, clear_ui, cfg_ui, arr_req_ui, arr_idx_ui>>
      /\ UNCHANGED <<arr_resp_toggle_ui, arr_resp_data_ui, engine, eng_cfg, top_done_ui>>
      /\ UNCHANGED <<top_error_ui, done_ui_d, error_ui_d, done_toggle_ui, error_toggle_ui>>
      /\ UNCHANGED <<sstable_count_ui, outcome>>
  BY AxilKeeps
<1>3. /\ start_toggle_axil' \in BOOLEAN /\ clear_toggle_axil' \in BOOLEAN /\ cfg_axil' = r_cfg
  BY <1>1, AxilCtrl
<1>4. /\ done_axil' \in Bits(2) /\ error_axil' \in Bits(2) /\ count_axil' \in Words
      /\ arr_resp_axil' \in Bits(3) /\ arr_data_axil' \in Words
  BY <1>1, AxilSamples
<1>5. r_status' \subseteq {"done", "error"}
  <2>1. r_status \subseteq {"done", "error"}
    BY <1>1 DEF ChainType
  <2> QED BY <2>1 DEF AxilClock, StatusClock
<1>6. r_cfg' \in 0..MaxCalls
  <2>1. r_cfg' = r_cfg \/ r_cfg' = call
    BY DEF Bus, BusWait, WriteAddress, WriteData, WriteResponse, ReadScalar, ReadArray,
           ArrayAnswer, ReadResponse, SettleOver, noWrite
  <2>2. r_cfg \in 0..MaxCalls /\ call \in 0..MaxCalls
    BY <1>1 DEF ChainType, BusInv
  <2> QED BY <2>1, <2>2
<1>7. arr_req_toggle_axil' \in BOOLEAN /\ arr_req_idx_axil' \in Nat
  <2>1. arr_req_toggle_axil \in BOOLEAN /\ arr_req_idx_axil \in Nat /\ entry \in Nat
    BY <1>1 DEF ChainType, BusInv
  <2>2. CASE ReadArray
    <3>1. arr_req_toggle_axil' = ~arr_req_toggle_axil /\ arr_req_idx_axil' = entry
      BY <2>2 DEF ReadArray
    <3> QED BY <2>1, <3>1
  <2>3. CASE ~ReadArray
    <3>1. UNCHANGED <<arr_req_toggle_axil, arr_req_idx_axil>>
      BY <2>3 DEF Bus, BusWait, WriteAddress, WriteData, WriteResponse, ReadScalar,
             ArrayAnswer, ReadResponse, SettleOver, noRequest
    <3> QED BY <2>1, <3>1
  <2> QED BY <2>2, <2>3
<1> QED BY <1>1, <1>2, <1>3, <1>4, <1>5, <1>6, <1>7 DEF ChainType

LEMMA TypeUi ==
    ASSUME IInv, NEW end, UiClock(end)
    PROVE  ChainType'
<1>1. BusInv /\ ChainType /\ CrossInv /\ CfgInv /\ ArrayInv /\ MaxCalls \in Nat /\ Entries \in Nat
  BY RegisterAssumption DEF IInv
<1>2. /\ UNCHANGED <<r_cfg, cfg_axil, r_status, start_toggle_axil, clear_toggle_axil, done_axil>>
      /\ UNCHANGED <<error_axil, count_axil, arr_req_toggle_axil, arr_req_idx_axil>>
      /\ UNCHANGED <<arr_resp_axil, arr_data_axil>>
  BY UiKeeps
<1>3. /\ start_ui' \in Bits(3) /\ clear_ui' \in Bits(3) /\ cfg_ui' \in Words
      /\ arr_req_ui' \in Bits(3) /\ arr_idx_ui' \in Words
  BY <1>1, UiSamples
<1>4. /\ done_toggle_ui' \in BOOLEAN /\ error_toggle_ui' \in BOOLEAN
      /\ done_ui_d' \in BOOLEAN /\ error_ui_d' \in BOOLEAN
  BY <1>1, UiToggles
<1>5. cfg_ui[2] \in 0..MaxCalls \/ ~start_pulse_ui
  BY <1>1, UiPulses DEF CfgInv, ChainType
<1>6. /\ engine' \in {"idle", "run", "nb_done"}
      /\ top_done_ui' \in BOOLEAN /\ top_error_ui' \in BOOLEAN
      /\ eng_cfg' \in 0..MaxCalls /\ sstable_count_ui' \in 0..MaxCalls
  BY <1>1, <1>5, UiEngine
<1>7. arr_resp_toggle_ui' \in BOOLEAN
  BY <1>1, UiResponder
<1>8. arr_resp_data_ui' \in Value
  <2>1. arr_resp_data_ui \in Value /\ sstable_count_ui \in 0..MaxCalls /\ arr_idx_ui \in Words
    BY <1>1 DEF ChainType
  <2>2. CASE ~arr_req_pulse_ui \/ arr_idx_ui[2] = Torn
    BY <1>1, <2>1, <2>2, UiResponder DEF Value
  <2>3. CASE arr_req_pulse_ui /\ arr_idx_ui[2] /= Torn
    <3>1. arr_resp_data_ui' = sstable_count_ui * Entries + arr_idx_ui[2]
      BY <1>1, <2>3, UiResponder
    <3>2. arr_idx_ui[2] \in Value
      <4>1. arr_idx_ui \in Seq(Value) /\ Len(arr_idx_ui) = 2
        BY <2>1 DEF Words
      <4>2. 2 \in 1..Len(arr_idx_ui)
        BY <4>1
      <4> QED BY <4>1, <4>2, ElementOfSeq
    <3>3. arr_idx_ui[2] \in Nat /\ sstable_count_ui \in Nat
      BY <1>1, <2>1, <2>3, <3>2 DEF Value
    <3>4. \A a, b, c \in Nat : a * b + c \in Nat
      OBVIOUS
    <3>5. sstable_count_ui * Entries + arr_idx_ui[2] \in Nat
      BY <1>1, <3>3, <3>4
    <3> QED BY <3>1, <3>5 DEF Value
  <2> QED BY <2>2, <2>3
<1> QED BY <1>1, <1>2, <1>3, <1>4, <1>6, <1>7, <1>8 DEF ChainType

-----------------------------------------------------------------------------
(* The invariant holds.                                                    *)

LEMMA InitIInv == Init => IInv
<1> SUFFICES ASSUME Init PROVE IInv
  OBVIOUS
<1>1. MaxCalls \in Nat /\ MaxCalls >= 1 /\ Entries \in Nat /\ Entries >= 1 /\ SettleEdges \in Nat
  BY RegisterAssumption
<1>2. BusInv
  BY <1>1 DEF Init, BusInv, WriteSteps, ReadSteps
<1>3. /\ <<FALSE, FALSE, FALSE>> \in Bits(3) /\ <<FALSE, FALSE>> \in Bits(2)
      /\ <<0, 0>> \in Words
  BY DEF Bits, Words, Value
<1>4. ChainType
  <2>1. 0 \in 0..MaxCalls /\ 0 \in Nat /\ 0 \in Value
    BY <1>1 DEF Value
  <2>2. /\ start_toggle_axil \in BOOLEAN /\ clear_toggle_axil \in BOOLEAN
        /\ done_toggle_ui \in BOOLEAN /\ error_toggle_ui \in BOOLEAN
        /\ arr_req_toggle_axil \in BOOLEAN /\ arr_resp_toggle_ui \in BOOLEAN
        /\ top_done_ui \in BOOLEAN /\ top_error_ui \in BOOLEAN
        /\ done_ui_d \in BOOLEAN /\ error_ui_d \in BOOLEAN
    BY DEF Init
  <2> QED BY <1>3, <2>1, <2>2 DEF Init, ChainType
<1>5. /\ \A i \in 1..3 : /\ start_ui[i] = start_toggle_axil /\ clear_ui[i] = clear_toggle_axil
                         /\ arr_req_ui[i] = arr_req_toggle_axil
                         /\ arr_resp_axil[i] = arr_req_toggle_axil
      /\ arr_resp_toggle_ui = arr_req_ui[3] /\ edge = {}
  <2>1. \A i \in 1..3 : i = 1 \/ i = 2 \/ i = 3
    OBVIOUS
  <2>2. \A i \in 1..3 : <<FALSE, FALSE, FALSE>>[i] = FALSE
    <3>1. /\ <<FALSE, FALSE, FALSE>>[1] = FALSE /\ <<FALSE, FALSE, FALSE>>[2] = FALSE
          /\ <<FALSE, FALSE, FALSE>>[3] = FALSE
      OBVIOUS
    <3> QED BY <2>1, <3>1, Zenon
  <2> QED BY <2>2 DEF Init
<1>6. Started /\ Cleared /\ CrossInv
  BY <1>5 DEF Started, Cleared, CrossInv, InOrder
<1>7. CfgInv
  BY <1>6 DEF Init, CfgInv, ReadSteps
<1>8. ClearInv /\ SettleInv /\ WaitInv /\ RunInv
  BY <1>6 DEF Init, ClearInv, SettleInv, WaitInv, RunInv, Clearing, Waiting, Running, ReadSteps
<1>9. ReadInv
  BY DEF Init, ReadInv, ResultsCoherent
<1>10. ArrayInv
  BY <1>5 DEF Init, ArrayInv, NoRequest
<1> QED BY <1>2, <1>4, <1>6, <1>7, <1>8, <1>9, <1>10 DEF IInv

LEMMA BusUi ==
    ASSUME BusInv, NEW end, UiClock(end)
    PROVE  BusInv'
<1>1. UNCHANGED <<pc, call, bus, entry, r_ctrl, r_ctrl_d>>
  BY UiKeeps
<1>2. settle' \in 0..SettleEdges
  BY SettleCounts DEF BusInv, UiClock
<1> QED BY <1>1, <1>2 DEF BusInv

LEMMA Invariant ==
    ASSUME LongSettle
    PROVE  Spec => []IInv
<1>1. IInv /\ [Next]_vars => IInv'
  <2> SUFFICES ASSUME IInv, [Next]_vars PROVE IInv'
    OBVIOUS
  <2>1. CASE (Bus \/ BusWait) /\ AxilClock
    <3>1. BusInv'
      BY <2>1, BusStep DEF IInv
    <3>2. /\ ChainType' /\ CrossInv' /\ ClearInv' /\ SettleInv' /\ WaitInv'
      BY <2>1, TypeAxil, CrossAxil, ClearAxil, SettleAxil, WaitAxil
    <3>3. CfgInv' /\ RunInv' /\ ReadInv' /\ ArrayInv'
      BY <2>1, <3>1, CfgAxil, RunAxil, ReadAxil, ArrayAxil
    <3> QED BY <3>1, <3>2, <3>3 DEF IInv
  <2>2. CASE \E end \in {"none", "done", "error"} : UiClock(end)
    <3>1. PICK end \in {"none", "done", "error"} : UiClock(end)
      BY <2>2
    <3>2. BusInv'
      BY <3>1, BusUi DEF IInv
    <3>3. /\ ChainType' /\ CrossInv' /\ ClearInv' /\ SettleInv' /\ WaitInv'
      BY <3>1, TypeUi, CrossUi, ClearUi, SettleUi, WaitUi
    <3>4. CfgInv' /\ RunInv' /\ ReadInv' /\ ArrayInv'
      BY <3>1, CfgUi, RunUi, ReadUi, ArrayUi
    <3> QED BY <3>2, <3>3, <3>4 DEF IInv
  <2>3. CASE UNCHANGED vars
    <3>1. UNCHANGED <<hostVars, settle, axilVars, uiVars, edge>>
      BY <2>3 DEF vars
    <3>2. BusInv' /\ ChainType' /\ CrossInv'
      BY <3>1 DEF IInv, BusInv, ChainType, CrossInv, InOrder, hostVars, axilVars, uiVars
    <3>3. CfgInv' /\ ClearInv' /\ SettleInv'
      BY <3>1 DEF IInv, CfgInv, ClearInv, SettleInv, Started, Cleared, Idle, Clearing,
                  hostVars, axilVars, uiVars
    <3>4. WaitInv' /\ RunInv'
      BY <3>1 DEF IInv, WaitInv, RunInv, Started, Idle, Waiting, Running, NoAnswer, DoneOnWay,
                  ErrorOnWay, hostVars, axilVars, uiVars
    <3>5. ReadInv'
      BY <3>1 DEF IInv, ReadInv, ResultsCoherent, hostVars, axilVars
    <3>6. ArrayInv'
      BY <3>1 DEF IInv, ArrayInv, NoRequest, Request, RequestData, Answer, InOrder,
                  hostVars, axilVars, uiVars
    <3> QED BY <3>2, <3>3, <3>4, <3>5, <3>6 DEF IInv
  <2> QED BY <2>1, <2>2, <2>3 DEF Next
<1> QED BY <1>1, InitIInv, PTL DEF Spec

\* Registers keep their types; a word caught in the middle of its change never
\* configures the engine, nor is it read as SSTABLE_COUNT.
THEOREM TypeCorrect ==
    ASSUME LongSettle
    PROVE  Spec => []TypeOK
<1>1. IInv => TypeOK
  <2> SUFFICES ASSUME IInv PROVE TypeOK
    OBVIOUS
  <2>1. /\ call \in 1..MaxCalls /\ settle \in 0..SettleEdges
        /\ r_status \subseteq {"done", "error"} /\ engine \in {"idle", "run", "nb_done"}
        /\ eng_cfg \in 0..MaxCalls
    BY DEF IInv, BusInv, ChainType
  <2>2. rdata \in Nat \/ (rdata = Torn /\ pc = "sizes")
    <3>1. CASE bus /= "rvalid" \/ pc = "poll"
      BY <3>1 DEF IInv, ReadInv
    <3>2. CASE bus = "rvalid" /\ pc = "count"
      BY <2>1, <3>2, RegisterAssumption DEF IInv, ReadInv, ResultsCoherent
    <3>3. CASE bus = "rvalid" /\ pc = "sizes"
      <4>1. call \in Nat /\ Entries \in Nat /\ entry \in Nat
        BY RegisterAssumption DEF IInv, BusInv
      <4>2. \A a, b, c \in Nat : a * b + c \in Nat
        OBVIOUS
      <4>3. call * Entries + entry \in Nat
        BY <4>1, <4>2
      <4> QED BY <3>3, <4>3 DEF IInv, ReadInv, ResultsCoherent
    <3> QED BY <3>1, <3>2, <3>3 DEF IInv, BusInv, ReadSteps
  <2> QED BY <2>1, <2>2 DEF TypeOK
<1> QED BY <1>1, Invariant, PTL

\* A run of the engine has got all of the configuration that the driver wrote
\* before its start, at any ratio of the clocks (cmpct_top.v:246-247).
THEOREM StartCorrect ==
    ASSUME LongSettle
    PROVE  Spec => []StartsConfigured
<1>1. IInv => StartsConfigured
  BY DEF IInv, CfgInv, StartsConfigured
<1> QED BY <1>1, Invariant, PTL

\* Done or error read from STATUS is that of the run this call has started,
\* never of one that was given up (cmpct_top.v:633-640).
THEOREM StatusCorrect ==
    ASSUME LongSettle
    PROVE  Spec => []StatusIsOwn
<1>1. IInv => StatusIsOwn
  <2> SUFFICES ASSUME IInv, pc = "poll", bus = "rvalid"
               PROVE  /\ "done" \in status_reg => outcome = <<call, "done">>
                      /\ "error" \in status_reg => outcome = <<call, "error">>
    BY DEF StatusIsOwn
  <2>1. status_reg \subseteq r_status
    BY DEF IInv, ReadInv
  <2>2. Running /\ r_cfg = call
    BY DEF IInv, CfgInv, Running, ReadSteps
  <2> QED BY <2>1, <2>2 DEF IInv, RunInv, DoneOnWay, ErrorOnWay
<1> QED BY <1>1, Invariant, PTL

\* SSTABLE_COUNT and the entries of SSTABLE_SIZES read after done are those of
\* the finished run and of the index asked for, or a word caught in its change.
THEOREM ResultsCorrect ==
    ASSUME LongSettle
    PROVE  Spec => []ResultsCoherent
<1>1. IInv => ResultsCoherent
  BY DEF IInv, ReadInv
<1> QED BY <1>1, Invariant, PTL

\* Behind the settle of a clear the engine is at rest and nothing of the call
\* before is under way.
THEOREM ClearCorrect ==
    ASSUME LongSettle
    PROVE  Spec => []ClearTakesEffect
<1>1. IInv => ClearTakesEffect
  <2> SUFFICES ASSUME IInv, pc \in {"clear_off", "cfg", "start"}, bus = "idle"
               PROVE  /\ engine = "idle"
                      /\ ~start_pulse_ui /\ ~clear_pulse_ui /\ ~done_pulse_axil /\ ~error_pulse_axil
    BY DEF ClearTakesEffect
  <2>1. Waiting
    BY DEF IInv, BusInv, Waiting
  <2>2. Started /\ Idle /\ NoAnswer /\ Cleared
    BY <2>1 DEF IInv, WaitInv, ClearInv, Waiting, Clearing
  <2>3. ~start_pulse_ui /\ ~clear_pulse_ui
    BY <2>2, UiPulses DEF IInv
  <2> QED BY <2>2, <2>3 DEF Idle, NoAnswer, done_pulse_axil, error_pulse_axil
<1> QED BY <1>1, Invariant, PTL
=============================================================================
