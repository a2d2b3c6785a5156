-------------------------- MODULE CompactionEngine --------------------------
(***************************************************************************)
(* cmpct_engine: the top-level FSM, the two SSTable parsers and the        *)
(* descriptor matcher that feeds the nblock engine.  The modules share one *)
(* clock, so a step of the composition (Tick) is a step of every module,   *)
(* each reading the registers the others held before the edge.             *)
(*                                                                         *)
(* The nblock engine (module NBlockEngine) appears here as the consumer of *)
(* the descriptor stream: it takes a descriptor whenever it likes, works   *)
(* on after the last one, and may fail.  start and clear are the pulses    *)
(* cmpct_top derives from CTRL writes; at most MaxCommands of them are     *)
(* issued in a behaviour.                                                  *)
(***************************************************************************)
EXTENDS Integers, Sequences

CONSTANTS
    Tables,         \* SSTables the host may have placed in card memory
    MaxCommands     \* bound on start and clear pulses

ASSUME CommandsAssumption == MaxCommands \in Nat

VARIABLES
    sst0, sst1,
    p0_state, p0_handle_idx, p0_handle_valid, p0_all_done, p0_busy, p0_error, p0_rd_error,
    p1_state, p1_handle_idx, p1_handle_valid, p1_all_done, p1_busy, p1_error, p1_rd_error,
    m_state, s_done_r, cap_got, cap, m_desc_valid, m_desc_last, m_desc, m_busy, m_done,
    pair_count,
    ts, busy, done, error,  \* engine FSM and its status outputs
    sub_clear, sub_start,   \* the eight *_clear_r / *_start_r registers
    nb,                     \* nblock engine: "IDLE", "RUN", "TAIL"
    nb_done, nb_error,      \* its one-cycle status pulses
    emitted,                \* history: descriptors taken since the last clear
    commands                \* start and clear pulses issued so far

P0 == INSTANCE SSTableParser WITH
        sst <- sst0, state <- p0_state, r_handle_idx <- p0_handle_idx,
        r_handle_valid <- p0_handle_valid, all_handles_done <- p0_all_done,
        busy <- p0_busy, error <- p0_error, rd_error <- p0_rd_error
P1 == INSTANCE SSTableParser WITH
        sst <- sst1, state <- p1_state, r_handle_idx <- p1_handle_idx,
        r_handle_valid <- p1_handle_valid, all_handles_done <- p1_all_done,
        busy <- p1_busy, error <- p1_error, rd_error <- p1_rd_error
M == INSTANCE DescMatcher WITH state <- m_state, busy <- m_busy, done <- m_done

engineVars == <<ts, busy, done, error, sub_clear, sub_start>>
nbVars == <<nb, nb_done, nb_error>>
vars == <<sst0, sst1, P0!parserVars, P1!parserVars, M!matcherVars,
          engineVars, nbVars, emitted, commands>>

Side == M!Side
TopStates == {"IDLE", "CLEAR_ALL", "START_ALL", "WAIT_NB"}

Pair(x, y) == [s \in Side |-> IF s = 0 THEN x ELSE y]

ASSUME TablesAssumption == Tables \subseteq P0!SSTable

Init ==
    /\ sst0 \in Tables
    /\ sst1 \in Tables
    /\ P0!ParserInit
    /\ P1!ParserInit
    /\ M!MatcherInit
    /\ ts = "IDLE"
    /\ busy = FALSE
    /\ done = FALSE
    /\ error = FALSE
    /\ sub_clear = FALSE
    /\ sub_start = FALSE
    /\ nb = "IDLE"
    /\ nb_done = FALSE
    /\ nb_error = FALSE
    /\ emitted = <<>>
    /\ commands = 0

-----------------------------------------------------------------------------
(* The top-level FSM.                                                      *)

EngineClear ==
    /\ ts' = "IDLE"
    /\ busy' = FALSE
    /\ done' = FALSE
    /\ error' = FALSE
    /\ sub_clear' = TRUE
    /\ sub_start' = FALSE

\* Mutant: done follows nb_done outside a run as well.
EngineIdleLateDone(start) ==
    /\ ts = "IDLE"
    /\ done' = nb_done
    /\ sub_start' = FALSE
    /\ IF start /\ ~busy
       THEN ts' = "CLEAR_ALL" /\ busy' = TRUE /\ error' = FALSE /\ sub_clear' = TRUE
       ELSE sub_clear' = FALSE /\ UNCHANGED <<ts, busy, error>>

EngineIdle(start) ==
    /\ ts = "IDLE"
    /\ done' = FALSE
    /\ sub_start' = FALSE
    /\ IF start /\ ~busy
       THEN /\ ts' = "CLEAR_ALL"
            /\ busy' = TRUE
            /\ error' = FALSE
            /\ sub_clear' = TRUE
       ELSE /\ sub_clear' = FALSE
            /\ UNCHANGED <<ts, busy, error>>

EngineClearAll ==
    /\ ts = "CLEAR_ALL"
    /\ ts' = "START_ALL"
    /\ done' = FALSE
    /\ sub_clear' = FALSE
    /\ sub_start' = TRUE
    /\ UNCHANGED <<busy, error>>

EngineStartAll ==
    /\ ts = "START_ALL"
    /\ ts' = "WAIT_NB"
    /\ done' = FALSE
    /\ sub_clear' = FALSE
    /\ sub_start' = FALSE
    /\ UNCHANGED <<busy, error>>

\* Mutant: finished when both parsers are, not when the nblock engine is.
EngineWaitParsers ==
    /\ ts = "WAIT_NB"
    /\ sub_clear' = FALSE
    /\ sub_start' = FALSE
    /\ done' = (p0_all_done /\ p1_all_done)
    /\ busy' = ~done'
    /\ ts' = IF done' THEN "IDLE" ELSE ts
    /\ UNCHANGED error

\* An error wins over nb_done.  The sub-modules are not cleared here: they
\* run on until the next start or clear.
EngineWaitNB ==
    /\ ts = "WAIT_NB"
    /\ sub_clear' = FALSE
    /\ sub_start' = FALSE
    /\ \/ /\ p0_error \/ p1_error \/ nb_error
          /\ error' = TRUE
          /\ busy' = FALSE
          /\ ts' = "IDLE"
          /\ done' = FALSE
       \/ /\ ~(p0_error \/ p1_error \/ nb_error)
          /\ nb_done
          /\ busy' = FALSE
          /\ done' = TRUE
          /\ ts' = "IDLE"
          /\ UNCHANGED error
       \/ /\ ~(p0_error \/ p1_error \/ nb_error)
          /\ ~nb_done
          /\ done' = FALSE
          /\ UNCHANGED <<ts, busy, error>>

EngineClock(clear, start) ==
    \/ clear /\ EngineClear
    \/ ~clear /\ (EngineIdle(start) \/ EngineClearAll \/ EngineStartAll \/ EngineWaitNB)

-----------------------------------------------------------------------------
(* The nblock engine as the consumer of the descriptor stream.             *)

\* desc_ready is raised only while it runs.
DescReady(go) == nb = "RUN" /\ go

Handshake(go) == m_desc_valid /\ DescReady(go)

NBClock(go, fails) ==
    \/ /\ sub_clear
       /\ nb' = "IDLE"
       /\ nb_done' = FALSE
       /\ nb_error' = FALSE
    \/ /\ ~sub_clear
       /\ nb = "IDLE"
       /\ nb' = IF sub_start THEN "RUN" ELSE "IDLE"
       /\ nb_done' = FALSE
       /\ nb_error' = FALSE
    \/ /\ ~sub_clear
       /\ nb /= "IDLE"
       /\ fails
       /\ nb' = "IDLE"
       /\ nb_error' = TRUE
       /\ nb_done' = FALSE
    \/ /\ ~sub_clear
       /\ nb = "RUN"
       /\ ~fails
       /\ nb' = IF Handshake(go) /\ m_desc_last THEN "TAIL" ELSE "RUN"
       /\ nb_error' = FALSE
       /\ nb_done' = FALSE
    \/ /\ ~sub_clear
       /\ nb = "TAIL"
       /\ ~fails
       /\ nb' = IF go THEN "IDLE" ELSE "TAIL"
       /\ nb_done' = go
       /\ nb_error' = FALSE

\* The matcher ignores a handshake in the cycle it is cleared.
RecordEmitted(go) ==
    emitted' = IF sub_clear THEN <<>>
               ELSE IF Handshake(go) THEN Append(emitted, m_desc)
               ELSE emitted

-----------------------------------------------------------------------------

(* cmd: the command pulse of this cycle; in0, in1: what the parsers' read  *)
(* engines bring; inNB: whether the nblock engine advances or fails.       *)
Command == {"none", "start", "clear"}
Input == {"go", "wait", "fault"}

Tick(cmd, in0, in1, inNB) ==
    /\ commands' = IF cmd = "none" THEN commands ELSE commands + 1
    /\ commands' <= MaxCommands
    /\ EngineClock(cmd = "clear", cmd = "start")
    /\ P0!ParserClock(sub_clear, sub_start, M!HandleReady(0), in0 = "go", in0 = "fault")
    /\ P1!ParserClock(sub_clear, sub_start, M!HandleReady(1), in1 = "go", in1 = "fault")
    /\ M!MatcherClock(sub_clear, sub_start, Pair(p0_handle_valid, p1_handle_valid),
                      Pair(P0!m_handle, P1!m_handle), Pair(p0_all_done, p1_all_done),
                      DescReady(inNB = "go"))
    /\ NBClock(inNB = "go", inNB = "fault")
    /\ RecordEmitted(inNB = "go")
    /\ UNCHANGED <<sst0, sst1>>

\* An input nobody samples in this cycle makes no difference to Tick: one
\* value stands for all three.
InputFor(sampled) == IF sampled THEN Input ELSE {"go"}

Next ==
    \E cmd \in Command, in0 \in InputFor(P0!ReadsStream), in1 \in InputFor(P1!ReadsStream),
       inNB \in InputFor(nb /= "IDLE") :
        Tick(cmd, in0, in1, inNB)

Spec == Init /\ [][Next]_vars

\* Card memory answers, and the nblock engine takes descriptors and finishes:
\* the cycle in which everybody who waits is served comes again and again.
ServedTick == Tick("none", "go", "go", "go")

FairSpec == Spec /\ WF_vars(ServedTick)

-----------------------------------------------------------------------------
(* Properties.                                                             *)

Handles == Pair(sst0.handles, sst1.handles)
Stream == INSTANCE PairStream WITH Side <- Side, NoHandle <- M!NoHandle,
                                   handles <- Handles, out <- emitted

TypeOK ==
    /\ P0!ParserTypeOK
    /\ P1!ParserTypeOK
    /\ M!MatcherTypeOK
    /\ ts \in TopStates
    /\ busy \in BOOLEAN /\ done \in BOOLEAN /\ error \in BOOLEAN
    /\ sub_clear \in BOOLEAN /\ sub_start \in BOOLEAN
    /\ nb \in {"IDLE", "RUN", "TAIL"}
    /\ nb_done \in BOOLEAN /\ nb_error \in BOOLEAN
    /\ emitted \in Seq([Side -> Nat])
    /\ commands \in 0..MaxCommands

\* The descriptors the nblock engine has taken are the first pairs of the two
\* indexes, in order and padded with zero-size handles, however the parsers,
\* the matcher and the consumer interleave and wherever a run was aborted.
PairsMatchIndexes ==
    /\ Len(emitted) <= Stream!PairCount
    /\ \A i \in 1..Len(emitted) : emitted[i] = Stream!PairAt(i)

\* m_desc_last is up on exactly the final pair: neither a parser that is still
\* at work nor a handle taken in the same cycle can make the matcher guess.
LastFlagExact ==
    m_desc_valid => (m_desc_last <=> Len(emitted) + 1 = Stream!PairCount)

\* The engine reports done only when the nblock engine was given every pair.
DoneAfterAllPairs == done => Len(emitted) = Stream!PairCount

\* A run that reports an error or that was cleared never turns into a
\* success: done rises only from WAIT_NB, that is during the run it ends.
DoneOnlyFromRun == [][done' /\ ~done => busy /\ ts = "WAIT_NB" /\ ~error]_vars

\* The stream refines its abstract specification.
DeliversPairs == Stream!StreamSpec

\* A started run ends, unless a parser's read engine failed: the entry states
\* of the parser do not look at rd_error and wait for bytes for ever.
RunEnds == busy ~> (~busy \/ p0_rd_error \/ p1_rd_error)
=============================================================================
