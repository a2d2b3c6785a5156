---------------------------- MODULE RegisterBlock ----------------------------
(***************************************************************************)
(* cmpct_top: the AXI-Lite registers and the crossings between their clock *)
(* and the clock of the engine, under the accesses the driver makes.  A    *)
(* step is an edge of one of the two clocks, which run at any ratio.       *)
(*                                                                         *)
(* Start, clear, done, error and the requests and answers of array reads   *)
(* cross as toggles; configuration, counters and array data cross as words *)
(* through two flip-flops.  A signal sampled in the step right after it    *)
(* changed may be caught in the middle of the change: a toggle is then     *)
(* taken as old or new, each by itself, and a word as Torn.                *)
(*                                                                         *)
(* Data abstraction.  The configuration registers are one word, the number *)
(* of the call that wrote them; what the engine counts is the number of    *)
(* the call it worked for.                                                 *)
(***************************************************************************)
EXTENDS Integers, Sequences

CONSTANTS
    MaxCalls,       \* bound on calls of the driver
    Entries,        \* entries of SSTABLE_SIZES the driver reads in a call
    SettleEdges,    \* edges of the two clocks in turn within the 10 ms settle
    Torn

ASSUME RegisterAssumption ==
    /\ MaxCalls \in Nat \ {0} /\ Entries \in Nat \ {0} /\ SettleEdges \in Nat
    /\ Torn \notin Nat

VARIABLES
    \* driver and AXI-Lite bus
    pc, call, bus, entry, settle,
    rdata, status_reg,              \* word read; STATUS when that was read
    \* AXI-Lite clock
    r_ctrl, r_ctrl_d, r_cfg, cfg_axil, r_status,
    start_toggle_axil, clear_toggle_axil,
    done_axil, error_axil,          \* done_toggle_axil_ff1, ff2; likewise error
    count_axil,                     \* sstable_count_axil_ff1, ff2
    arr_req_toggle_axil, arr_req_idx_axil,
    arr_resp_axil, arr_data_axil,   \* arr_resp_toggle_axil_ff1..3, arr_resp_data_axil_ff1, ff2
    \* UI clock
    start_ui, clear_ui, cfg_ui,     \* ff1..ff3, ff1..ff3, ff1 and ff2
    arr_req_ui, arr_idx_ui,         \* ff1..ff3, ff1 and ff2
    arr_resp_toggle_ui, arr_resp_data_ui,
    engine, eng_cfg, top_done_ui, top_error_ui, done_ui_d, error_ui_d,
    done_toggle_ui, error_toggle_ui,
    sstable_count_ui,               \* and sstable_sizes: the call they are of
    outcome,                        \* history: how the run of which call ended
    edge                            \* what the last clock edge has changed

hostVars == <<pc, call, bus, entry, rdata, status_reg>>
axilVars == <<r_ctrl, r_ctrl_d, r_cfg, cfg_axil, r_status, start_toggle_axil, clear_toggle_axil,
              done_axil, error_axil, count_axil, arr_req_toggle_axil, arr_req_idx_axil,
              arr_resp_axil, arr_data_axil>>
uiVars == <<start_ui, clear_ui, cfg_ui, arr_req_ui, arr_idx_ui, arr_resp_toggle_ui,
            arr_resp_data_ui, engine, eng_cfg, top_done_ui, top_error_ui, done_ui_d, error_ui_d,
            done_toggle_ui, error_toggle_ui, sstable_count_ui, outcome>>
vars == <<hostVars, settle, axilVars, uiVars, edge>>

Init ==
    /\ pc = "clear" /\ call = 1 /\ bus = "idle" /\ entry = 0 /\ settle = 0
    /\ rdata = 0 /\ status_reg = {}
    /\ r_ctrl = 0 /\ r_ctrl_d = 0 /\ r_cfg = 0 /\ cfg_axil = 0 /\ r_status = {}
    /\ start_toggle_axil = FALSE /\ clear_toggle_axil = FALSE
    /\ done_axil = <<FALSE, FALSE>> /\ error_axil = <<FALSE, FALSE>> /\ count_axil = <<0, 0>>
    /\ arr_req_toggle_axil = FALSE /\ arr_req_idx_axil = 0
    /\ arr_resp_axil = <<FALSE, FALSE, FALSE>> /\ arr_data_axil = <<0, 0>>
    /\ start_ui = <<FALSE, FALSE, FALSE>> /\ clear_ui = <<FALSE, FALSE, FALSE>> /\ cfg_ui = <<0, 0>>
    /\ arr_req_ui = <<FALSE, FALSE, FALSE>> /\ arr_idx_ui = <<0, 0>>
    /\ arr_resp_toggle_ui = FALSE /\ arr_resp_data_ui = 0
    /\ engine = "idle" /\ eng_cfg = 0 /\ top_done_ui = FALSE /\ top_error_ui = FALSE
    /\ done_ui_d = FALSE /\ error_ui_d = FALSE
    /\ done_toggle_ui = FALSE /\ error_toggle_ui = FALSE /\ sstable_count_ui = 0
    /\ outcome = <<0, "none">> /\ edge = {}

-----------------------------------------------------------------------------
(* Crossing.                                                               *)

Shift(chain, x) == <<x>> \o SubSeq(chain, 1, Len(chain) - 1)
Bit(signal, x) == IF signal \in edge THEN {x, ~x} ELSE {x}
Word(signal, x) == IF signal \in edge THEN {x, Torn} ELSE {x}
Changed(signal, old, new) == IF old = new THEN {} ELSE {signal}

ctrl_start_pulse == r_ctrl = 1 /\ r_ctrl_d /= 1
ctrl_clear_pulse == r_ctrl = 2 /\ r_ctrl_d /= 2
done_pulse_axil == done_axil[2] /= done_axil[1]
error_pulse_axil == error_axil[2] /= error_axil[1]

\* Mutant: the answer is taken a flip-flop too early.
arr_resp_early == arr_resp_axil[2] /= arr_resp_axil[1]

arr_resp_pulse_axil == arr_resp_axil[3] /= arr_resp_axil[2]

\* Mutant: start is taken a flip-flop too early.
start_early_ui == start_ui[2] /= start_ui[1]

start_pulse_ui == start_ui[3] /= start_ui[2]
clear_pulse_ui == clear_ui[3] /= clear_ui[2]
arr_req_pulse_ui == arr_req_ui[3] /= arr_req_ui[2]

-----------------------------------------------------------------------------
(* The driver on the bus.  A register write is an edge that latches the    *)
(* address, one that writes and one that answers; a read is an edge that   *)
(* takes the address and one that hands the data over.                     *)

WriteSteps == {"clear", "clear_off", "cfg", "start"}
ReadSteps == {"poll", "count", "sizes"}
CtrlValue == [s \in {"clear", "clear_off", "start"} |->
                IF s = "clear" THEN 2 ELSE IF s = "clear_off" THEN 0 ELSE 1]
AfterWrite == [s \in WriteSteps |->
                 CASE s = "clear" -> "settle" [] s = "clear_off" -> "cfg"
                   [] s = "cfg" -> "start" [] s = "start" -> "poll"]

noWrite == UNCHANGED <<r_ctrl, r_cfg>>
noRequest == UNCHANGED <<arr_req_toggle_axil, arr_req_idx_axil>>

\* The bus does nothing for a cycle; the answer of an array is taken at once.
BusWait ==
    /\ ~(bus = "rd_fsm_wait" /\ arr_resp_pulse_axil)
    /\ noWrite /\ noRequest
    /\ UNCHANGED hostVars

WriteAddress ==
    /\ pc \in WriteSteps /\ bus = "idle"
    /\ bus' = "addr"
    /\ noWrite /\ noRequest
    /\ UNCHANGED <<pc, call, entry, rdata, status_reg>>

\* Mutant: one write both configures and starts the engine.
WriteDataAtOnce ==
    /\ bus = "addr"
    /\ bus' = "resp"
    /\ r_cfg' = IF pc = "start" THEN call ELSE r_cfg
    /\ r_ctrl' = IF pc = "cfg" THEN r_ctrl ELSE CtrlValue[pc]
    /\ noRequest
    /\ UNCHANGED <<pc, call, entry, rdata, status_reg>>

WriteData ==
    /\ bus = "addr"
    /\ bus' = "resp"
    /\ IF pc = "cfg" THEN r_cfg' = call /\ UNCHANGED r_ctrl
                     ELSE r_ctrl' = CtrlValue[pc] /\ UNCHANGED r_cfg
    /\ noRequest
    /\ UNCHANGED <<pc, call, entry, rdata, status_reg>>

WriteResponse ==
    /\ bus = "resp"
    /\ bus' = "idle"
    /\ pc' = AfterWrite[pc]
    /\ noWrite /\ noRequest
    /\ UNCHANGED <<call, entry, rdata, status_reg>>

ReadScalar ==
    /\ pc \in {"poll", "count"} /\ bus = "idle"
    /\ bus' = "rvalid"
    /\ IF pc = "poll" THEN status_reg' = r_status /\ UNCHANGED rdata
                      ELSE rdata' = count_axil[2] /\ UNCHANGED status_reg
    /\ noWrite /\ noRequest
    /\ UNCHANGED <<pc, call, entry>>

ReadArray ==
    /\ pc = "sizes" /\ bus = "idle"
    /\ bus' = "rd_fsm_wait"
    /\ arr_req_toggle_axil' = ~arr_req_toggle_axil
    /\ arr_req_idx_axil' = entry
    /\ noWrite
    /\ UNCHANGED <<pc, call, entry, rdata, status_reg>>

ArrayAnswer ==
    /\ bus = "rd_fsm_wait" /\ arr_resp_pulse_axil
    /\ bus' = "rvalid"
    /\ rdata' = arr_data_axil[2]
    /\ noWrite /\ noRequest
    /\ UNCHANGED <<pc, call, entry, status_reg>>

NextCall ==
    /\ entry' = 0
    /\ IF call < MaxCalls THEN call' = call + 1 /\ pc' = "clear"
                          ELSE pc' = "end" /\ UNCHANGED call

\* What the driver does with the data read.  STATUS without done and error is
\* read again, or the deadline has passed and the driver gives the run up.
ReadResponse ==
    /\ bus = "rvalid"
    /\ bus' = "idle"
    /\ rdata' = 0 /\ status_reg' = {}
    /\ \/ pc = "poll" /\ status_reg = {} /\ UNCHANGED <<pc, call, entry>>
       \/ pc = "poll" /\ status_reg = {} /\ NextCall
       \/ pc = "poll" /\ "error" \in status_reg /\ NextCall
       \/ pc = "poll" /\ status_reg = {"done"} /\ pc' = "count" /\ UNCHANGED <<call, entry>>
       \/ pc = "count" /\ pc' = "sizes" /\ UNCHANGED <<call, entry>>
       \/ pc = "sizes" /\ entry < Entries - 1 /\ entry' = entry + 1 /\ UNCHANGED <<pc, call>>
       \/ pc = "sizes" /\ entry = Entries - 1 /\ NextCall
    /\ noWrite /\ noRequest

\* Mutant: the driver does not wait after the clear.
SettledAtOnce == TRUE

\* usleep(10000): both clocks have had their edges.
Settled == settle = SettleEdges

SettleOver ==
    /\ pc = "settle" /\ Settled
    /\ pc' = "clear_off"
    /\ noWrite /\ noRequest
    /\ UNCHANGED <<call, bus, entry, rdata, status_reg>>

Bus ==
    \/ WriteAddress \/ WriteData \/ WriteResponse
    \/ ReadScalar \/ ReadArray \/ ArrayAnswer \/ ReadResponse
    \/ SettleOver

\* Edges of the two clocks in turn, from the clear on.
CountSettle(clock) ==
    settle' = IF pc /= "settle" THEN 0
              ELSE IF settle < SettleEdges /\ settle % 2 = clock THEN settle + 1 ELSE settle

-----------------------------------------------------------------------------
(* The two clocks.                                                         *)

\* Mutant: done and error stay until the next reset.
StatusClockSticky ==
    r_status' = r_status \cup (IF done_pulse_axil THEN {"done"} ELSE {})
                         \cup (IF error_pulse_axil THEN {"error"} ELSE {})

\* r_status: both pulses clear it, done and error set it again.
StatusClock ==
    r_status' = (IF ctrl_start_pulse \/ ctrl_clear_pulse THEN {} ELSE r_status)
                  \cup (IF done_pulse_axil THEN {"done"} ELSE {})
                  \cup (IF error_pulse_axil THEN {"error"} ELSE {})

AxilClock ==
    /\ r_ctrl_d' = r_ctrl
    /\ cfg_axil' = r_cfg
    /\ StatusClock
    /\ start_toggle_axil' = (start_toggle_axil /= ctrl_start_pulse)
    /\ clear_toggle_axil' = (clear_toggle_axil /= ctrl_clear_pulse)
    /\ \E d \in Bit("done", done_toggle_ui) : done_axil' = Shift(done_axil, d)
    /\ \E e \in Bit("error", error_toggle_ui) : error_axil' = Shift(error_axil, e)
    /\ \E n \in Word("count", sstable_count_ui) : count_axil' = Shift(count_axil, n)
    /\ \E p \in Bit("resp", arr_resp_toggle_ui) : arr_resp_axil' = Shift(arr_resp_axil, p)
    /\ \E x \in Word("data", arr_resp_data_ui) : arr_data_axil' = Shift(arr_data_axil, x)
    /\ CountSettle(1)
    /\ edge' = Changed("start", start_toggle_axil, start_toggle_axil')
                 \cup Changed("clear", clear_toggle_axil, clear_toggle_axil')
                 \cup Changed("cfg", cfg_axil, cfg_axil')
                 \cup Changed("req", arr_req_toggle_axil, arr_req_toggle_axil')
                 \cup Changed("idx", arr_req_idx_axil, arr_req_idx_axil')
    /\ UNCHANGED uiVars

\* Mutant: the toggle is set, not flipped.
FlipOnce(x, pulse) == x \/ pulse

Flip(x, pulse) == x /= pulse

\* cmpct_engine as cmpct_top sees it: the counters of a run are there a cycle
\* before done, done is a pulse, error is held.
Engine(end) ==
    \/ /\ clear_pulse_ui
       /\ engine' = "idle" /\ top_done_ui' = FALSE /\ top_error_ui' = FALSE
       /\ sstable_count_ui' = 0
       /\ UNCHANGED <<eng_cfg, outcome>>
    \/ /\ ~clear_pulse_ui /\ engine = "idle"
       /\ top_done_ui' = FALSE
       /\ IF start_pulse_ui
          THEN /\ engine' = "run" /\ top_error_ui' = FALSE
               /\ eng_cfg' = cfg_ui[2] /\ sstable_count_ui' = 0
          ELSE UNCHANGED <<engine, top_error_ui, eng_cfg, sstable_count_ui>>
       /\ UNCHANGED outcome
    \/ /\ ~clear_pulse_ui /\ engine = "run" /\ end = "none"
       /\ top_done_ui' = FALSE
       /\ UNCHANGED <<engine, top_error_ui, eng_cfg, sstable_count_ui, outcome>>
    \/ /\ ~clear_pulse_ui /\ engine = "run" /\ end = "error"
       /\ engine' = "idle" /\ top_error_ui' = TRUE /\ top_done_ui' = FALSE
       /\ outcome' = <<eng_cfg, "error">>
       /\ UNCHANGED <<eng_cfg, sstable_count_ui>>
    \/ /\ ~clear_pulse_ui /\ engine = "run" /\ end = "done"
       /\ engine' = "nb_done" /\ sstable_count_ui' = eng_cfg
       /\ top_done_ui' = FALSE
       /\ UNCHANGED <<eng_cfg, top_error_ui, outcome>>
    \/ /\ ~clear_pulse_ui /\ engine = "nb_done"
       /\ engine' = "idle" /\ top_done_ui' = TRUE
       /\ outcome' = <<eng_cfg, "done">>
       /\ UNCHANGED <<eng_cfg, top_error_ui, sstable_count_ui>>

\* One word of the array, answered by a toggle.
ArrayResponder ==
    /\ arr_resp_toggle_ui' = Flip(arr_resp_toggle_ui, arr_req_pulse_ui)
    /\ arr_resp_data_ui' = IF ~arr_req_pulse_ui THEN arr_resp_data_ui
                           ELSE IF arr_idx_ui[2] = Torn THEN Torn
                           ELSE sstable_count_ui * Entries + arr_idx_ui[2]

UiClock(end) ==
    /\ \E s \in Bit("start", start_toggle_axil) : start_ui' = Shift(start_ui, s)
    /\ \E c \in Bit("clear", clear_toggle_axil) : clear_ui' = Shift(clear_ui, c)
    /\ \E w \in Word("cfg", cfg_axil) : cfg_ui' = Shift(cfg_ui, w)
    /\ \E q \in Bit("req", arr_req_toggle_axil) : arr_req_ui' = Shift(arr_req_ui, q)
    /\ \E i \in Word("idx", arr_req_idx_axil) : arr_idx_ui' = Shift(arr_idx_ui, i)
    /\ ArrayResponder
    /\ Engine(end)
    /\ done_ui_d' = top_done_ui /\ error_ui_d' = top_error_ui
    /\ done_toggle_ui' = Flip(done_toggle_ui, top_done_ui /\ ~done_ui_d)
    /\ error_toggle_ui' = Flip(error_toggle_ui, top_error_ui /\ ~error_ui_d)
    /\ CountSettle(0)
    /\ edge' = Changed("done", done_toggle_ui, done_toggle_ui')
                 \cup Changed("error", error_toggle_ui, error_toggle_ui')
                 \cup Changed("count", sstable_count_ui, sstable_count_ui')
                 \cup Changed("resp", arr_resp_toggle_ui, arr_resp_toggle_ui')
                 \cup Changed("data", arr_resp_data_ui, arr_resp_data_ui')
    /\ UNCHANGED <<hostVars, axilVars>>

Next ==
    \/ (Bus \/ BusWait) /\ AxilClock
    \/ \E end \in {"none", "done", "error"} : UiClock(end)

Spec == Init /\ [][Next]_vars

\* Both clocks run and the bus goes on; the engine owes nothing.
FairSpec ==
    /\ Spec
    /\ WF_vars(Bus /\ AxilClock)
    /\ WF_vars(BusWait /\ AxilClock)
    /\ WF_vars(UiClock("none"))

-----------------------------------------------------------------------------
(* Properties.                                                             *)

\* Types; a word caught in the middle of its change never configures the engine
\* nor is read as STATUS or SSTABLE_COUNT (an array word can be: ResultsCoherent).
TypeOK ==
    /\ call \in 1..MaxCalls /\ settle \in 0..SettleEdges
    /\ r_status \subseteq {"done", "error"}
    /\ engine \in {"idle", "run", "nb_done"}
    /\ eng_cfg \in 0..MaxCalls
    /\ rdata \in Nat \/ (rdata = Torn /\ pc = "sizes")

\* cmpct_top.v:246-247: the configuration crosses word by word without a
\* handshake; a run of the engine has nevertheless got all of what the driver
\* wrote before its start.
StartsConfigured == engine /= "idle" => eng_cfg = r_cfg

\* cmpct_top.v:633-640: done or error read from STATUS is that of the run this
\* call has started, not of one the driver gave up, whose end was crossing the
\* clocks when STATUS was cleared.
StatusIsOwn ==
    pc = "poll" /\ bus = "rvalid" =>
        /\ "done" \in status_reg => outcome = <<call, "done">>
        /\ "error" \in status_reg => outcome = <<call, "error">>

\* Once done was read, SSTABLE_COUNT and every entry of SSTABLE_SIZES that is
\* asked for are those of the finished run, although each of them takes another
\* way through the clocks than done did: never the entry read before, never the
\* entry of an earlier run.  What the code does not exclude is Torn: an array
\* word and its toggle change together and pass as many flip-flops, so that on
\* coinciding edges the toggle may be taken new with a word half changed.
ResultsCoherent ==
    bus = "rvalid" =>
        /\ pc = "count" => rdata = call
        /\ pc = "sizes" => rdata \in {call * Entries + entry, Torn}

\* Behind the settle the engine is at rest, and no start, clear or answer of the
\* given up call is under way any more.
ClearTakesEffect ==
    pc \in {"clear_off", "cfg", "start"} /\ bus = "idle" =>
        /\ engine = "idle"
        /\ ~start_pulse_ui /\ ~clear_pulse_ui /\ ~done_pulse_axil /\ ~error_pulse_axil

\* Nothing is lost between the clocks, from one run to the next: the end of a
\* run reaches the polling driver, and a read of an array entry is answered
\* (cmpct_top.v, the toggles of done, error, array request and response).
AnswersArrive ==
    /\ (pc = "poll" /\ outcome[1] = call) ~> pc /= "poll"
    /\ bus = "rd_fsm_wait" ~> bus = "rvalid"
=============================================================================
