----------------------- MODULE CompactionEngineProofs -----------------------
(***************************************************************************)
(* Theorems about CompactionEngine for every set of SSTables: the types,   *)
(* the pairs handed to the nblock engine, the last flag, and that the      *)
(* parsers and the matcher implement PairStream.                           *)
(***************************************************************************)
EXTENDS CompactionEngine, TLAPS

-----------------------------------------------------------------------------
(* The inductive invariant.                                                *)

N == Len(emitted)
State == Pair(p0_state, p1_state)
Idx == Pair(p0_handle_idx, p1_handle_idx)
Valid == Pair(p0_handle_valid, p1_handle_valid)
AllDone == Pair(p0_all_done, p1_all_done)
Running(s) == State[s] /= "IDLE"

Least(a, b) == IF a <= b THEN a ELSE b

\* The one-cycle clear and start pulses: start is seen by cleared modules only.
PulseInv ==
    /\ ts \in {"CLEAR_ALL", "START_ALL", "WAIT_NB"} => busy /\ ~error
    /\ ts = "CLEAR_ALL" => sub_clear
    /\ ts \in {"START_ALL", "WAIT_NB"} => ~sub_clear
    /\ sub_start => /\ ts = "START_ALL"
                    /\ emitted = <<>>
                    /\ m_state = "IDLE"
                    /\ p0_state = "IDLE" /\ p1_state = "IDLE"

\* Side s of the pair under construction: how many handles the parser has
\* handed over, and what was captured.
SideInv(s) ==
    /\ Running(s) => Idx[s] = Least(IF cap_got[s] THEN N + 1 ELSE N, Len(Handles[s]))
    /\ cap_got[s] => cap[s] = Stream!PairAt(N + 1)[s]
    /\ cap_got[s] /\ cap[s] = M!NoHandle => s_done_r[s]

MatchInv ==
    /\ \A s \in Side : s_done_r[s] => AllDone[s]
    /\ m_state \in {"GATHER", "EMIT"} => \A s \in Side : SideInv(s)
    /\ m_state = "EMIT" => /\ N < Stream!PairCount
                           /\ \A s \in Side : cap_got[s]
    /\ m_desc_valid => /\ m_state = "EMIT"
                       /\ m_desc = cap
                       /\ m_desc_last <=> N + 1 = Stream!PairCount

\* The nblock engine is past the last descriptor only after the last pair.
TailInv ==
    /\ nb = "TAIL" \/ nb_done \/ done => N = Stream!PairCount
    /\ nb_done => nb = "IDLE"

IInv ==
    /\ TypeOK
    /\ P0!ParserInv
    /\ P1!ParserInv
    /\ PulseInv
    /\ MatchInv
    /\ PairsMatchIndexes
    /\ TailInv

-----------------------------------------------------------------------------
(* Facts about one state.                                                  *)

\* Both index lists are sequences of handles, and no handle is NoHandle.
LEMMA HandlesType ==
    ASSUME TypeOK
    PROVE  \A s \in Side : /\ Handles[s] \in Seq(Nat \ {0})
                           /\ Len(Handles[s]) \in Nat
<1> QED BY DEF TypeOK, Handles, Pair, Side, M!Side, P0!ParserTypeOK, P1!ParserTypeOK,
               P0!SSTable, P1!SSTable

\* PairCount is the length of the longer index.
LEMMA PairCountIsMax ==
    ASSUME TypeOK
    PROVE  /\ Stream!PairCount \in Nat
           /\ \A s \in Side : Len(Handles[s]) <= Stream!PairCount
           /\ \E s \in Side : Len(Handles[s]) = Stream!PairCount
<1> DEFINE Lens == {Len(Handles[s]) : s \in Side}
<1>1. 0 \in Side /\ 1 \in Side /\ \A s \in Side : s = 0 \/ s = 1
  BY DEF Side, M!Side
<1>2. \E n \in Lens : \A s \in Side : Len(Handles[s]) <= n
  <2>0. Len(Handles[0]) \in Nat /\ Len(Handles[1]) \in Nat
    BY <1>1, HandlesType
  <2>1. CASE Len(Handles[0]) <= Len(Handles[1])
    <3>1. Len(Handles[1]) \in Lens
      BY <1>1
    <3>2. \A s \in Side : Len(Handles[s]) <= Len(Handles[1])
      BY <1>1, <2>1, <2>0
    <3> QED BY <3>1, <3>2
  <2>2. CASE ~(Len(Handles[0]) <= Len(Handles[1]))
    <3>1. Len(Handles[0]) \in Lens
      BY <1>1
    <3>2. \A s \in Side : Len(Handles[s]) <= Len(Handles[0])
      BY <1>1, <2>2, <2>0
    <3> QED BY <3>1, <3>2
  <2> QED BY <2>1, <2>2
<1>3. Stream!PairCount \in Lens /\ \A s \in Side : Len(Handles[s]) <= Stream!PairCount
  BY <1>2 DEF Stream!PairCount
<1> QED BY <1>3, HandlesType

\* What a side of the pair may be.
LEMMA PairAtType ==
    ASSUME TypeOK, NEW i \in Nat \ {0}
    PROVE  /\ Stream!PairAt(i) \in [Side -> Nat]
           /\ \A s \in Side : /\ i <= Len(Handles[s]) => Stream!PairAt(i)[s] = Handles[s][i]
                              /\ i <= Len(Handles[s]) => Stream!PairAt(i)[s] /= M!NoHandle
                              /\ i > Len(Handles[s]) => Stream!PairAt(i)[s] = M!NoHandle
<1>1. \A s \in Side : i <= Len(Handles[s]) => Handles[s][i] \in Nat \ {0}
  BY HandlesType
<1> QED BY <1>1, HandlesType DEF Stream!PairAt, M!NoHandle

\* What the matcher sees of the two parsers.
LEMMA ParserView ==
    ASSUME TypeOK, P0!ParserInv, P1!ParserInv, NEW s \in Side
    PROVE  /\ Valid[s] \in BOOLEAN /\ AllDone[s] \in BOOLEAN
           /\ Idx[s] \in Nat
           /\ Idx[s] <= Len(Handles[s])
           /\ Valid[s] => Running(s) /\ Idx[s] < Len(Handles[s])
           /\ AllDone[s] => Running(s) /\ ~Valid[s] /\ Idx[s] = Len(Handles[s])
           /\ Valid[s] => Pair(P0!m_handle, P1!m_handle)[s] = Handles[s][Idx[s] + 1]
<1>0. s = 0 \/ s = 1
  BY DEF Side, M!Side
<1> USE DEF State, Running, Valid, AllDone, Idx, Handles, Pair, TypeOK
<1>1. CASE s = 0
  BY <1>1 DEF P0!ParserInv, P0!ParserTypeOK, P0!m_handle, Side, M!Side
<1>2. CASE s = 1
  BY <1>2 DEF P1!ParserInv, P1!ParserTypeOK, P1!m_handle, Side, M!Side
<1> QED BY <1>0, <1>1, <1>2

-----------------------------------------------------------------------------
(* Initial states.                                                         *)

\* After reset nothing is captured, offered or handed over: IInv holds.
LEMMA InitInv == Init => IInv
<1> SUFFICES ASSUME Init PROVE IInv
  OBVIOUS
<1>1. TypeOK
  <2>1. P0!ParserTypeOK
    BY TablesAssumption DEF Init, P0!ParserInit, P0!ParserTypeOK, P0!ParserStates
  <2>2. P1!ParserTypeOK
    BY TablesAssumption DEF Init, P1!ParserInit, P1!ParserTypeOK, P1!ParserStates,
                            P0!SSTable, P1!SSTable
  <2>0. M!MatcherTypeOK
    BY DEF Init, M!MatcherInit, M!MatcherTypeOK, M!MatcherStates, M!Side, M!NoHandle
  <2>4. emitted \in Seq([Side -> Nat]) /\ commands \in 0..MaxCommands
    BY CommandsAssumption DEF Init
  <2> QED BY <2>1, <2>2, <2>0, <2>4 DEF Init, TypeOK, TopStates
<1>2. N = 0
  BY DEF Init, N
<1>3. P0!ParserInv /\ P1!ParserInv
  BY <1>1, HandlesType DEF Init, P0!ParserInit, P1!ParserInit, P0!ParserInv, P1!ParserInv,
      TypeOK, P0!ParserTypeOK, P1!ParserTypeOK, P0!SSTable, P1!SSTable
<1>4. PulseInv
  BY DEF Init, PulseInv
<1>5. MatchInv
  BY DEF Init, MatchInv, M!MatcherInit, Side
<1>6. PairsMatchIndexes
  BY <1>1, PairCountIsMax DEF Init, PairsMatchIndexes
<1>7. TailInv
  BY DEF Init, TailInv
<1> QED BY <1>1, <1>3, <1>4, <1>5, <1>6, <1>7 DEF IInv

-----------------------------------------------------------------------------
(* A tick.                                                                 *)

\* What a tick does to parser s, as the matcher sees it.
SideEdge(s) ==
    /\ sub_clear => ~Running(s)'
    /\ ~Running(s) /\ Running(s)' => sub_start /\ Idx'[s] = 0
    /\ Running(s) /\ Running(s)'
          => Idx'[s] = IF Valid[s] /\ M!HandleReady(s) THEN Idx[s] + 1 ELSE Idx[s]
    /\ ~sub_clear /\ AllDone[s] => AllDone'[s]

\* Both parsers keep their invariants, and SideEdge summarises their steps.
LEMMA ParsersTick ==
    ASSUME TypeOK, P0!ParserInv, P1!ParserInv,
           NEW cmd \in Command, NEW in0 \in Input, NEW in1 \in Input, NEW inNB \in Input,
           Tick(cmd, in0, in1, inNB)
    PROVE  /\ P0!ParserTypeOK' /\ P0!ParserInv'
           /\ P1!ParserTypeOK' /\ P1!ParserInv'
           /\ \A s \in Side : SideEdge(s)
<1>1. sub_clear \in BOOLEAN /\ sub_start \in BOOLEAN /\ UNCHANGED <<sst0, sst1>>
  BY DEF TypeOK, Tick
<1>2. M!HandleReady(0) \in BOOLEAN /\ M!HandleReady(1) \in BOOLEAN
  BY DEF M!HandleReady
<1>3. /\ P0!ParserTypeOK' /\ P0!ParserInv'
      /\ P0!ParserEdge(sub_clear, sub_start, M!HandleReady(0))
  <2> DEFINE ready == M!HandleReady(0)
             byte == in0 = "go"
             fails == in0 = "fault"
  <2>1. P0!ParserClock(sub_clear, sub_start, ready, byte, fails)
    BY DEF Tick
  <2>2. P0!ParserTypeOK /\ P0!ParserInv
    BY DEF TypeOK
  <2>3. ready \in BOOLEAN /\ byte \in BOOLEAN /\ fails \in BOOLEAN
    BY <1>2
  <2> HIDE DEF ready, byte, fails
  <2>4. P0!ParserTypeOK' /\ P0!ParserInv' /\ P0!ParserEdge(sub_clear, sub_start, ready)
    BY ONLY <1>1, <2>1, <2>2, <2>3, P0!ParserStep
  <2> QED BY <2>4 DEF ready
<1>4. /\ P1!ParserTypeOK' /\ P1!ParserInv'
      /\ P1!ParserEdge(sub_clear, sub_start, M!HandleReady(1))
  <2> DEFINE ready == M!HandleReady(1)
             byte == in1 = "go"
             fails == in1 = "fault"
  <2>1. P1!ParserClock(sub_clear, sub_start, ready, byte, fails)
    BY DEF Tick
  <2>2. P1!ParserTypeOK /\ P1!ParserInv
    BY DEF TypeOK
  <2>3. ready \in BOOLEAN /\ byte \in BOOLEAN /\ fails \in BOOLEAN
    BY <1>2
  <2> HIDE DEF ready, byte, fails
  <2>4. P1!ParserTypeOK' /\ P1!ParserInv' /\ P1!ParserEdge(sub_clear, sub_start, ready)
    BY ONLY <1>1, <2>1, <2>2, <2>3, P1!ParserStep
  <2> QED BY <2>4 DEF ready
<1>5. ASSUME NEW s \in Side PROVE SideEdge(s)
  <2>0. s = 0 \/ s = 1
    BY DEF Side, M!Side
  <2>1. CASE s = 0
    BY <1>3, <2>1 DEF SideEdge, P0!ParserEdge, State, Running, Idx, Valid, AllDone, Pair, Side, M!Side
  <2>2. CASE s = 1
    <3>1. State[s] = p1_state /\ State'[s] = p1_state'
      BY <2>2 DEF State, Pair, Side, M!Side
    <3>2. Idx[s] = p1_handle_idx /\ Idx'[s] = p1_handle_idx'
      BY <2>2 DEF Idx, Pair, Side, M!Side
    <3>3. Valid[s] = p1_handle_valid
      BY <2>2 DEF Valid, Pair, Side, M!Side
    <3>4. AllDone[s] = p1_all_done /\ AllDone'[s] = p1_all_done'
      BY <2>2 DEF AllDone, Pair, Side, M!Side
    <3> QED BY <1>4, <2>2, <3>1, <3>2, <3>3, <3>4 DEF SideEdge, P1!ParserEdge, Running
  <2> QED BY <2>0, <2>1, <2>2
<1> QED BY <1>3, <1>4, <1>5

\* The registers of the FSM of cmpct_engine.v and of the nblock engine's
\* interface keep their types.
LEMMA EngineTypes ==
    ASSUME TypeOK, NEW clear \in BOOLEAN, NEW start \in BOOLEAN,
           EngineClock(clear, start)
    PROVE  /\ ts' \in TopStates
           /\ busy' \in BOOLEAN /\ done' \in BOOLEAN /\ error' \in BOOLEAN
           /\ sub_clear' \in BOOLEAN /\ sub_start' \in BOOLEAN
<1> USE DEF TypeOK, TopStates
<1>1. CASE EngineClear
  BY <1>1 DEF EngineClear
<1>2. CASE EngineIdle(start)
  BY <1>2 DEF EngineIdle
<1>3. CASE EngineClearAll
  BY <1>3 DEF EngineClearAll
<1>4. CASE EngineStartAll
  BY <1>4 DEF EngineStartAll
<1>5. CASE EngineWaitNB
  BY <1>5 DEF EngineWaitNB
<1> QED BY <1>1, <1>2, <1>3, <1>4, <1>5 DEF EngineClock

\* The consumer's registers keep their types over a clock edge.
LEMMA NBTypes ==
    ASSUME TypeOK, NEW go \in BOOLEAN, NEW fails \in BOOLEAN, NBClock(go, fails)
    PROVE  /\ nb' \in {"IDLE", "RUN", "TAIL"}
           /\ nb_done' \in BOOLEAN /\ nb_error' \in BOOLEAN
<1> QED BY DEF NBClock, TypeOK

\* A tick keeps every register in its type.
LEMMA TypeTick ==
    ASSUME IInv,
           NEW cmd \in Command, NEW in0 \in Input, NEW in1 \in Input, NEW inNB \in Input,
           Tick(cmd, in0, in1, inNB)
    PROVE  TypeOK'
<1>0. TypeOK /\ P0!ParserInv /\ P1!ParserInv
  BY DEF IInv
<1>1. P0!ParserTypeOK' /\ P1!ParserTypeOK'
  BY <1>0, ParsersTick
<1>2. M!MatcherTypeOK'
  <2>1. /\ Pair(p0_handle_valid, p1_handle_valid) \in [M!Side -> BOOLEAN]
        /\ Pair(p0_all_done, p1_all_done) \in [M!Side -> BOOLEAN]
    BY <1>0 DEF Pair, Side, TypeOK, P0!ParserTypeOK, P1!ParserTypeOK
  <2>2. P0!m_handle \in Nat
    <3>1. p0_handle_valid => sst0.handles[p0_handle_idx + 1] \in Nat
      BY <1>0 DEF TypeOK, P0!ParserTypeOK, P0!SSTable
    <3> QED BY <3>1 DEF P0!m_handle
  <2>3. P1!m_handle \in Nat
    <3>1. p1_handle_valid => sst1.handles[p1_handle_idx + 1] \in Nat
      BY <1>0 DEF TypeOK, P1!ParserTypeOK, P1!SSTable
    <3> QED BY <3>1 DEF P1!m_handle
  <2>4. Pair(P0!m_handle, P1!m_handle) \in [M!Side -> Nat]
    BY <2>2, <2>3 DEF Pair, Side
  <2>5. sub_clear \in BOOLEAN /\ sub_start \in BOOLEAN /\ M!MatcherTypeOK
    BY <1>0 DEF TypeOK
  <2>6. DescReady(inNB = "go") \in BOOLEAN
    BY DEF DescReady
  <2>7. M!MatcherClock(sub_clear, sub_start, Pair(p0_handle_valid, p1_handle_valid),
                       Pair(P0!m_handle, P1!m_handle), Pair(p0_all_done, p1_all_done),
                       DescReady(inNB = "go"))
    BY DEF Tick
  <2> QED BY <2>1, <2>4, <2>5, <2>6, <2>7, M!MatcherStep
<1>3. /\ ts' \in TopStates
      /\ busy' \in BOOLEAN /\ done' \in BOOLEAN /\ error' \in BOOLEAN
      /\ sub_clear' \in BOOLEAN /\ sub_start' \in BOOLEAN
  <2>1. EngineClock(cmd = "clear", cmd = "start")
    BY DEF Tick
  <2> QED BY <1>0, <2>1, EngineTypes
<1>4. /\ nb' \in {"IDLE", "RUN", "TAIL"}
      /\ nb_done' \in BOOLEAN /\ nb_error' \in BOOLEAN
  <2>1. NBClock(inNB = "go", inNB = "fault")
    BY DEF Tick
  <2> QED BY <1>0, <2>1, NBTypes
<1>5. emitted' \in Seq([Side -> Nat])
  <2>1. emitted \in Seq([Side -> Nat]) /\ m_desc \in [Side -> Nat]
    BY <1>0 DEF TypeOK, M!MatcherTypeOK, Side
  <2>2. emitted' \in {<<>>, Append(emitted, m_desc), emitted}
    BY DEF Tick, RecordEmitted
  <2>3. Append(emitted, m_desc) \in Seq([Side -> Nat])
    BY <2>1
  <2>4. <<>> \in Seq([Side -> Nat])
    OBVIOUS
  <2> QED BY <2>1, <2>2, <2>3, <2>4
<1>6. commands' \in 0..MaxCommands
  BY <1>0, CommandsAssumption DEF Tick, TypeOK
<1> QED BY <1>1, <1>2, <1>3, <1>4, <1>5, <1>6 DEF TypeOK

\* The indexes do not change, and a handshake appends the descriptor.
LEMMA EmitTick ==
    ASSUME TypeOK,
           NEW cmd \in Command, NEW in0 \in Input, NEW in1 \in Input, NEW inNB \in Input,
           Tick(cmd, in0, in1, inNB)
    PROVE  /\ Handles' = Handles
           /\ Stream!PairCount' = Stream!PairCount
           /\ \A i \in Nat : Stream!PairAt(i)' = Stream!PairAt(i)
           /\ N \in Nat
           /\ sub_clear => emitted' = <<>> /\ N' = 0
           /\ ~sub_clear /\ Handshake(inNB = "go")
                => emitted' = Append(emitted, m_desc) /\ N' = N + 1
           /\ ~sub_clear /\ ~Handshake(inNB = "go") => emitted' = emitted /\ N' = N
<1>1. Handles' = Handles
  BY DEF Tick, Handles, Pair
<1>2. /\ Stream!PairCount' = Stream!PairCount
      /\ \A i \in Nat : Stream!PairAt(i)' = Stream!PairAt(i)
  BY <1>1 DEF Stream!PairCount, Stream!PairAt
<1>3. emitted \in Seq([Side -> Nat]) /\ m_desc \in [Side -> Nat]
  BY DEF TypeOK, M!MatcherTypeOK, Side
<1>4. N \in Nat
  BY <1>3 DEF N
<1>5. sub_clear => emitted' = <<>> /\ N' = 0
  BY DEF Tick, RecordEmitted, N
<1>6. ~sub_clear /\ Handshake(inNB = "go")
        => emitted' = Append(emitted, m_desc) /\ N' = N + 1
  <2>1. ~sub_clear /\ Handshake(inNB = "go") => emitted' = Append(emitted, m_desc)
    BY DEF Tick, RecordEmitted
  <2> QED BY <1>3, <2>1 DEF N
<1>7. ~sub_clear /\ ~Handshake(inNB = "go") => emitted' = emitted /\ N' = N
  BY DEF Tick, RecordEmitted, N
<1> QED BY <1>1, <1>2, <1>4, <1>5, <1>6, <1>7

\* The clear and start pulses reach the modules in the right order.
LEMMA PulseTick ==
    ASSUME IInv,
           NEW cmd \in Command, NEW in0 \in Input, NEW in1 \in Input, NEW inNB \in Input,
           Tick(cmd, in0, in1, inNB)
    PROVE  PulseInv'
<1>0. TypeOK /\ PulseInv /\ P0!ParserInv /\ P1!ParserInv
  BY DEF IInv
<1>1. EngineClock(cmd = "clear", cmd = "start")
  BY DEF Tick
<1>2. sub_clear => /\ emitted' = <<>> /\ m_state' = "IDLE"
                   /\ p0_state' = "IDLE" /\ p1_state' = "IDLE"
  <2>1. sub_clear => emitted' = <<>> /\ m_state' = "IDLE"
    BY DEF Tick, RecordEmitted, M!MatcherClock, M!MatcherClear
  <2>2. sub_clear => p0_state' = "IDLE" /\ p1_state' = "IDLE"
    BY DEF Tick, P0!ParserClock, P0!ParserClear, P1!ParserClock, P1!ParserClear
  <2> QED BY <2>1, <2>2
<1> USE DEF TypeOK, TopStates
<1>3. CASE EngineClear
  BY <1>0, <1>3 DEF PulseInv, EngineClear
<1>4. CASE EngineIdle(cmd = "start")
  BY <1>0, <1>4 DEF PulseInv, EngineIdle
<1>5. CASE EngineClearAll
  BY <1>0, <1>2, <1>5 DEF PulseInv, EngineClearAll
<1>6. CASE EngineStartAll
  BY <1>0, <1>6 DEF PulseInv, EngineStartAll
<1>7. CASE EngineWaitNB
  <2>1. sub_clear' = FALSE /\ sub_start' = FALSE
    BY <1>7 DEF EngineWaitNB
  <2>2. ts' = "IDLE" \/ (ts = "WAIT_NB" /\ UNCHANGED <<ts, busy, error>>)
    BY <1>7 DEF EngineWaitNB
  <2>3. CASE ts' = "IDLE"
    BY <2>1, <2>3 DEF PulseInv
  <2>4. CASE ts = "WAIT_NB" /\ UNCHANGED <<ts, busy, error>>
    BY <1>0, <2>1, <2>4 DEF PulseInv
  <2> QED BY <2>2, <2>3, <2>4
<1> QED BY <1>1, <1>3, <1>4, <1>5, <1>6, <1>7 DEF EngineClock

\* A tick keeps what was handed over a prefix of the pairs.
LEMMA PairsTick ==
    ASSUME IInv,
           NEW cmd \in Command, NEW in0 \in Input, NEW in1 \in Input, NEW inNB \in Input,
           Tick(cmd, in0, in1, inNB)
    PROVE  /\ PairsMatchIndexes'
           /\ ~sub_clear /\ Handshake(inNB = "go")
                => N < Stream!PairCount /\ m_desc = Stream!PairAt(N + 1)
<1>0. TypeOK /\ MatchInv /\ PairsMatchIndexes
  BY DEF IInv
<1>1. /\ emitted \in Seq([Side -> Nat]) /\ N \in Nat /\ N = Len(emitted)
      /\ m_desc \in [Side -> Nat] /\ cap \in [Side -> Nat]
      /\ Stream!PairCount \in Nat /\ Stream!PairCount' \in Nat
  BY <1>0, EmitTick, PairCountIsMax DEF TypeOK, M!MatcherTypeOK, Side, N
<1>2. N + 1 \in Nat \ {0}
  BY <1>1
<1>3. Stream!PairAt(N + 1) \in [Side -> Nat]
  BY <1>0, <1>2, PairAtType
<1>4. ~sub_clear /\ Handshake(inNB = "go")
        => N < Stream!PairCount /\ m_desc = Stream!PairAt(N + 1)
  <2> SUFFICES ASSUME Handshake(inNB = "go")
               PROVE  N < Stream!PairCount /\ m_desc = Stream!PairAt(N + 1)
    OBVIOUS
  <2>1. m_desc_valid
    BY DEF Handshake
  <2>2. N < Stream!PairCount /\ m_desc = cap /\ \A s \in Side : cap[s] = Stream!PairAt(N + 1)[s]
    BY <1>0, <2>1 DEF MatchInv, SideInv
  <2> QED BY <1>1, <1>3, <2>2
<1>5. PairsMatchIndexes'
  <2>1. CASE sub_clear
    <3>1. emitted' = <<>>
      BY <1>0, <2>1, EmitTick
    <3>2. Len(<<>>) = 0
      OBVIOUS
    <3> QED BY <1>1, <3>1, <3>2 DEF PairsMatchIndexes
  <2>2. CASE ~sub_clear /\ Handshake(inNB = "go")
    <3>1. /\ emitted' = Append(emitted, Stream!PairAt(N + 1))
          /\ N < Stream!PairCount
          /\ Stream!PairCount' = Stream!PairCount
          /\ \A i \in Nat : Stream!PairAt(i)' = Stream!PairAt(i)
      BY <1>0, <1>4, <2>2, EmitTick
    <3>3. /\ Len(emitted') = N + 1
          /\ emitted'[N + 1] = Stream!PairAt(N + 1)
          /\ \A i \in 1..N : emitted'[i] = emitted[i]
      BY <1>1, <1>3, <3>1
    <3>4. \A i \in 1..(N + 1) : emitted'[i] = Stream!PairAt(i)'
      <4> SUFFICES ASSUME NEW i \in 1..(N + 1) PROVE emitted'[i] = Stream!PairAt(i)'
        OBVIOUS
      <4>1. i \in Nat /\ (i = N + 1 \/ i \in 1..N)
        BY <1>1
      <4> QED BY <1>0, <1>1, <3>1, <3>3, <4>1 DEF PairsMatchIndexes
    <3> QED BY <1>1, <3>1, <3>3, <3>4 DEF PairsMatchIndexes
  <2>3. CASE ~sub_clear /\ ~Handshake(inNB = "go")
    <3>1. /\ emitted' = emitted
          /\ Stream!PairCount' = Stream!PairCount
          /\ \A i \in Nat : Stream!PairAt(i)' = Stream!PairAt(i)
      BY <1>0, <2>3, EmitTick
    <3> QED BY <1>0, <1>1, <3>1 DEF PairsMatchIndexes
  <2> QED BY <2>1, <2>2, <2>3
<1> QED BY <1>4, <1>5

\* The nblock engine and the engine FSM finish only after the last pair.
LEMMA TailTick ==
    ASSUME IInv,
           NEW cmd \in Command, NEW in0 \in Input, NEW in1 \in Input, NEW inNB \in Input,
           Tick(cmd, in0, in1, inNB)
    PROVE  TailInv'
<1>0. TypeOK /\ PulseInv /\ MatchInv /\ TailInv
  BY DEF IInv
<1>1. EngineClock(cmd = "clear", cmd = "start") /\ NBClock(inNB = "go", inNB = "fault")
  BY DEF Tick
<1>2. nb_done' => nb' = "IDLE"
  BY <1>0, <1>1 DEF NBClock, TypeOK
<1>3. Stream!PairCount' = Stream!PairCount /\ N \in Nat
  BY <1>0, EmitTick
<1>4. ASSUME nb /= "RUN", ~sub_clear PROVE N' = N
  BY <1>0, <1>4, EmitTick DEF Handshake, DescReady
<1>5. nb' = "TAIL" => N' = Stream!PairCount
  <2> SUFFICES ASSUME nb' = "TAIL" PROVE N' = Stream!PairCount
    OBVIOUS
  <2>1. \/ nb = "TAIL" /\ ~sub_clear
        \/ nb = "RUN" /\ ~sub_clear /\ Handshake(inNB = "go") /\ m_desc_last
    BY <1>0, <1>1 DEF NBClock, TypeOK
  <2>2. CASE nb = "TAIL" /\ ~sub_clear
    BY <1>0, <1>4, <2>2 DEF TailInv
  <2>3. CASE nb = "RUN" /\ ~sub_clear /\ Handshake(inNB = "go") /\ m_desc_last
    <3>1. N' = N + 1
      BY <1>0, <2>3, EmitTick
    <3>2. m_desc_valid
      BY <2>3 DEF Handshake
    <3> QED BY <1>0, <2>3, <3>1, <3>2 DEF MatchInv
  <2> QED BY <2>1, <2>2, <2>3
<1>6. nb_done' => N' = Stream!PairCount
  <2> SUFFICES ASSUME nb_done' PROVE N' = Stream!PairCount
    OBVIOUS
  <2>1. nb = "TAIL" /\ ~sub_clear
    BY <1>0, <1>1 DEF NBClock, TypeOK
  <2> QED BY <1>0, <1>4, <2>1 DEF TailInv
<1>7. done' => N' = Stream!PairCount
  <2> SUFFICES ASSUME done' PROVE N' = Stream!PairCount
    OBVIOUS
  <2>1. ts = "WAIT_NB" /\ nb_done
    <3>1. EngineWaitNB
      BY <1>1 DEF EngineClock, EngineClear, EngineIdle, EngineClearAll, EngineStartAll
    <3> QED BY <3>1 DEF EngineWaitNB
  <2>2. ~sub_clear /\ nb = "IDLE" /\ N = Stream!PairCount
    BY <1>0, <2>1 DEF PulseInv, TailInv
  <2> QED BY <1>4, <2>2
<1> QED BY <1>2, <1>3, <1>5, <1>6, <1>7 DEF TailInv

\* SideInv in the next state, with n for the number of pairs handed over.
SideInvNext(s, n) ==
    /\ Running(s)' => Idx'[s] = Least(IF cap_got'[s] THEN n + 1 ELSE n, Len(Handles[s]))
    /\ cap_got'[s] => cap'[s] = Stream!PairAt(n + 1)[s]
    /\ cap_got'[s] /\ cap'[s] = M!NoHandle => s_done_r'[s]

\* SideInvNext at the new number of pairs is SideInv after the edge.
LEMMA SideInvPrime ==
    ASSUME NEW s \in Side, Handles' = Handles, N' \in Nat, SideInvNext(s, N')
    PROVE  SideInv(s)'
<1>1. (Stream!PairAt(N + 1)[s])' = Stream!PairAt(N' + 1)[s]
  BY DEF Stream!PairAt
<1> QED BY <1>1 DEF SideInv, SideInvNext

\* Outside GATHER a side that is not started keeps its count of handles.
LEMMA SideStays ==
    ASSUME NEW s \in Side, SideEdge(s), SideInv(s), ~sub_start, m_state /= "GATHER",
           cap_got'[s] = cap_got[s], cap'[s] = cap[s], s_done_r[s] => s_done_r'[s]
    PROVE  SideInvNext(s, N)
<1>1. ~M!HandleReady(s)
  BY DEF M!HandleReady
<1> QED BY <1>1 DEF SideEdge, SideInv, SideInvNext

\* GATHER: the offered handle is the next one of the index, and a side is
\* padded only when its index is exhausted.
LEMMA GatherSide ==
    ASSUME TypeOK, P0!ParserInv, P1!ParserInv, NEW s \in Side,
           SideEdge(s), SideInv(s), ~sub_start, m_state = "GATHER",
           s_done_r[s] => AllDone[s],
           M!MatcherGather(Valid, Pair(P0!m_handle, P1!m_handle), AllDone)
    PROVE  SideInvNext(s, N)
<1> DEFINE L == Len(Handles[s])
<1>1. /\ N \in Nat /\ L \in Nat /\ Idx[s] \in Nat /\ Idx[s] <= L
      /\ Valid[s] => Running(s) /\ Idx[s] < L
      /\ AllDone[s] => Running(s) /\ ~Valid[s] /\ Idx[s] = L
      /\ Valid[s] => Pair(P0!m_handle, P1!m_handle)[s] = Handles[s][Idx[s] + 1]
  BY ParserView, HandlesType DEF N, TypeOK
<1>2. /\ cap_got'[s] = (cap_got[s] \/ Valid[s] \/ s_done_r[s])
      /\ cap_got[s] => cap'[s] = cap[s]
      /\ ~cap_got[s] /\ Valid[s] => cap'[s] = Pair(P0!m_handle, P1!m_handle)[s]
      /\ ~cap_got[s] /\ ~Valid[s] /\ s_done_r[s] => cap'[s] = M!NoHandle
      /\ s_done_r[s] => s_done_r'[s]
  BY DEF M!MatcherGather, M!LatchDone, Side
<1>3. /\ Stream!PairAt(N + 1)[s] = IF N + 1 <= L THEN Handles[s][N + 1] ELSE M!NoHandle
      /\ N + 1 <= L => Stream!PairAt(N + 1)[s] /= M!NoHandle
  BY <1>1, PairAtType
<1> HIDE DEF L
<1>4. CASE cap_got[s]
  <2>1. ~M!HandleReady(s) /\ cap_got'[s]
    BY <1>2, <1>4 DEF M!HandleReady
  <2> QED BY <1>2, <1>4, <2>1 DEF SideEdge, SideInv, SideInvNext
<1>5. CASE ~cap_got[s] /\ Valid[s]
  <2>1. M!HandleReady(s) /\ cap_got'[s]
    BY <1>1, <1>2, <1>5 DEF M!HandleReady
  <2>2. Idx[s] = N /\ N + 1 <= L
    BY <1>1, <1>5 DEF SideInv, Least, L
  <2>3. cap'[s] = Stream!PairAt(N + 1)[s] /\ cap'[s] /= M!NoHandle
    BY <1>1, <1>2, <1>3, <1>5, <2>2
  <2>4. Running(s)' => Idx'[s] = N + 1
    BY <1>1, <1>5, <2>1, <2>2 DEF SideEdge
  <2>5. Least(N + 1, L) = N + 1
    BY <2>2 DEF Least
  <2> QED BY <2>1, <2>3, <2>4, <2>5 DEF SideInvNext, L
<1>6. CASE ~cap_got[s] /\ ~Valid[s] /\ s_done_r[s]
  <2>1. cap_got'[s] /\ s_done_r'[s] /\ cap'[s] = M!NoHandle
    BY <1>2, <1>6
  <2>2. Idx[s] = L /\ L <= N
    BY <1>1, <1>6 DEF SideInv, Least, L
  <2>3. cap'[s] = Stream!PairAt(N + 1)[s]
    BY <1>1, <1>3, <2>1, <2>2
  <2>4. Running(s)' => Idx'[s] = L
    BY <1>6, <2>2 DEF SideEdge
  <2>5. Least(N + 1, L) = L
    BY <1>1, <2>2 DEF Least
  <2> QED BY <2>1, <2>3, <2>4, <2>5 DEF SideInvNext, L
<1>7. CASE ~cap_got[s] /\ ~Valid[s] /\ ~s_done_r[s]
  <2>1. ~cap_got'[s]
    BY <1>2, <1>7
  <2> QED BY <1>7, <2>1 DEF SideEdge, SideInv, SideInvNext
<1> QED BY <1>4, <1>5, <1>6, <1>7

\* The matcher keeps its invariant, one case per state of its FSM.
LEMMA MatchTick ==
    ASSUME IInv,
           NEW cmd \in Command, NEW in0 \in Input, NEW in1 \in Input, NEW inNB \in Input,
           Tick(cmd, in0, in1, inNB)
    PROVE  MatchInv'
<1> DEFINE H == Pair(P0!m_handle, P1!m_handle)
           ready == DescReady(inNB = "go")
           Count == Stream!PairCount
<1>0. TypeOK /\ P0!ParserInv /\ P1!ParserInv /\ PulseInv /\ MatchInv
  BY DEF IInv
<1>1. /\ N \in Nat /\ Count \in Nat /\ Handles' = Handles /\ Count' = Count
      /\ \A s \in Side : Len(Handles[s]) \in Nat /\ Len(Handles[s]) <= Count
      /\ \E s \in Side : Len(Handles[s]) = Count
      /\ ~sub_clear /\ m_desc_valid /\ ready => N' = N + 1
      /\ ~sub_clear /\ ~(m_desc_valid /\ ready) => N' = N
  BY <1>0, EmitTick, PairCountIsMax, HandlesType DEF Handshake
<1>2. \A s \in Side : SideEdge(s)
  BY <1>0, ParsersTick
<1>3. \A s \in Side : /\ Valid[s] => Running(s) /\ Idx[s] < Len(Handles[s])
                      /\ AllDone[s] => Running(s) /\ ~Valid[s] /\ Idx[s] = Len(Handles[s])
  BY <1>0, ParserView
<1>4. \/ sub_clear /\ M!MatcherClear
      \/ /\ ~sub_clear
         /\ \/ M!MatcherIdle(sub_start, AllDone)
            \/ M!MatcherGather(Valid, H, AllDone)
            \/ M!MatcherPresent(Valid, AllDone)
            \/ M!MatcherHandshake(ready, AllDone)
            \/ M!MatcherDone(AllDone)
  BY DEF Tick, M!MatcherClock, Valid, AllDone
<1>5. ASSUME NEW s \in Side, ~sub_clear, M!LatchDone(AllDone)
      PROVE  /\ s_done_r'[s] = (s_done_r[s] \/ AllDone[s])
             /\ s_done_r'[s] => AllDone'[s]
             /\ s_done_r[s] => s_done_r'[s]
  <2>1. s_done_r'[s] = (s_done_r[s] \/ AllDone[s])
    BY <1>5 DEF M!LatchDone, Side
  <2> QED BY <1>0, <1>2, <1>5, <2>1 DEF MatchInv, SideEdge
<1>6. CASE sub_clear /\ M!MatcherClear
  BY <1>6 DEF M!MatcherClear, MatchInv, Side
<1>7. CASE ~sub_clear /\ M!MatcherIdle(sub_start, AllDone)
  <2>1. m_state = "IDLE" /\ ~m_desc_valid /\ ~m_desc_valid' /\ N' = N
    BY <1>0, <1>1, <1>7 DEF M!MatcherIdle, MatchInv
  <2>2. CASE ~(sub_start /\ ~m_busy)
    <3>1. m_state' = "IDLE" /\ M!LatchDone(AllDone)
      BY <1>7, <2>2 DEF M!MatcherIdle
    <3> QED BY <1>5, <1>7, <2>1, <3>1 DEF MatchInv
  <2>3. CASE sub_start /\ ~m_busy
    <3>1. /\ m_state' = "GATHER"
          /\ \A s \in Side : ~s_done_r'[s] /\ ~cap_got'[s]
      BY <1>7, <2>1, <2>3 DEF M!MatcherIdle, Side
    <3>2. N = 0 /\ p0_state = "IDLE" /\ p1_state = "IDLE"
      BY <1>0, <2>3 DEF PulseInv, N
    <3>3. ASSUME NEW s \in Side PROVE SideInvNext(s, N')
      <4>1. ~Running(s)
        BY <3>2 DEF Running, State, Pair
      <4>2. Least(0, Len(Handles[s])) = 0
        BY <1>1 DEF Least
      <4> QED BY <1>2, <2>1, <3>1, <3>2, <4>1, <4>2 DEF SideInvNext, SideEdge
    <3>4. \A s \in Side : SideInv(s)'
      BY <1>1, <2>1, <3>3, SideInvPrime
    <3> QED BY <2>1, <3>1, <3>4 DEF MatchInv
  <2> QED BY <2>2, <2>3
<1>8. CASE ~sub_clear /\ M!MatcherGather(Valid, H, AllDone)
  <2>1. /\ m_state = "GATHER" /\ M!LatchDone(AllDone) /\ ~m_desc_valid /\ ~m_desc_valid'
        /\ m_state' \in {"GATHER", "EMIT", "DONE"} /\ N' = N /\ ~sub_start
    BY <1>0, <1>1, <1>8 DEF M!MatcherGather, MatchInv, PulseInv
  <2>2. ASSUME NEW s \in Side PROVE SideInv(s)'
    <3>1. SideInvNext(s, N)
      BY <1>0, <1>2, <1>8, <2>1, GatherSide DEF MatchInv
    <3> QED BY <1>1, <2>1, <3>1, SideInvPrime
  <2>3. m_state' = "EMIT" => N < Count /\ \A s \in Side : cap_got'[s]
    <3> SUFFICES ASSUME m_state' = "EMIT" PROVE N < Count /\ \A s \in Side : cap_got'[s]
      OBVIOUS
    <3>1. (\A s \in Side : cap_got[s]) /\ ~M!OnlyPadding
      BY <1>8 DEF M!MatcherGather, Side
    <3>2. \A s \in Side : cap_got'[s]
      BY <1>8, <3>1 DEF M!MatcherGather, Side
    <3>3. PICK s \in Side : ~(s_done_r[s] /\ cap[s] = M!NoHandle)
      BY <3>1 DEF M!OnlyPadding, Side
    <3>4. cap[s] /= M!NoHandle /\ cap[s] = Stream!PairAt(N + 1)[s]
      BY <1>0, <2>1, <3>1, <3>3 DEF MatchInv, SideInv
    <3>5. N + 1 <= Len(Handles[s])
      BY <1>0, <1>1, <3>4, PairAtType
    <3> QED BY <1>1, <3>2, <3>5
  <2> QED BY <1>1, <1>5, <1>8, <2>1, <2>2, <2>3 DEF MatchInv
<1>9. CASE ~sub_clear /\ M!MatcherPresent(Valid, AllDone)
  <2>1. /\ m_state = "EMIT" /\ ~m_desc_valid /\ M!LatchDone(AllDone) /\ N' = N /\ ~sub_start
        /\ m_state' = m_state /\ cap_got' = cap_got /\ cap' = cap /\ m_desc' = cap
    BY <1>0, <1>1, <1>9 DEF M!MatcherPresent, PulseInv
  <2>2. N < Count /\ \A s \in Side : cap_got[s] /\ SideInv(s)
    BY <1>0, <2>1 DEF MatchInv
  <2>3. ASSUME NEW s \in Side PROVE SideInv(s)'
    <3>1. SideInvNext(s, N)
      BY <1>2, <1>5, <1>9, <2>1, <2>2, SideStays
    <3> QED BY <1>1, <2>1, <3>1, SideInvPrime
  <2>4. \A s \in Side : Running(s) => Idx[s] = Least(N + 1, Len(Handles[s]))
    BY <2>2 DEF SideInv
  <2>5. m_desc_valid' => (m_desc_last' <=> N + 1 = Count)
    <3>1. CASE \E s \in Side : Valid[s]
      <4>1. m_desc_last' = FALSE
        BY <1>9, <3>1 DEF M!MatcherPresent, Side
      <4>2. PICK s \in Side : Valid[s]
        BY <3>1
      <4>3. N + 1 < Len(Handles[s])
        BY <1>1, <1>3, <2>4, <4>2 DEF Least
      <4> QED BY <1>1, <4>1, <4>3
    <3>2. CASE (\A s \in Side : ~Valid[s] /\ (s_done_r[s] \/ AllDone[s]))
      <4>1. m_desc_last' = TRUE
        BY <1>9, <3>2 DEF M!MatcherPresent, Side
      <4>2. \A s \in Side : Len(Handles[s]) <= N + 1
        BY <1>0, <1>1, <1>3, <2>4, <3>2 DEF Least, MatchInv
      <4> QED BY <1>1, <2>2, <4>1, <4>2
    <3>3. CASE /\ \A s \in Side : ~Valid[s]
               /\ \E s \in Side : ~(s_done_r[s] \/ AllDone[s])
      BY <1>9, <2>1, <3>3 DEF M!MatcherPresent, Side
    <3> QED BY <3>1, <3>2, <3>3
  <2> QED BY <1>1, <1>5, <1>9, <2>1, <2>2, <2>3, <2>5 DEF MatchInv
<1>10. CASE ~sub_clear /\ M!MatcherHandshake(ready, AllDone)
  <2>1. /\ m_state = "EMIT" /\ m_desc_valid /\ M!LatchDone(AllDone) /\ ~sub_start
        /\ cap' = cap /\ m_desc' = cap
    BY <1>0, <1>10 DEF M!MatcherHandshake, PulseInv
  <2>2. /\ N < Count /\ (m_desc_last <=> N + 1 = Count)
        /\ \A s \in Side : cap_got[s] /\ SideInv(s)
    BY <1>0, <2>1 DEF MatchInv
  <2>3. CASE ready
    <3>1. /\ N' = N + 1 /\ ~m_desc_valid' /\ m_state' \in {"DONE", "GATHER"}
          /\ \A s \in Side : ~cap_got'[s]
      BY <1>1, <1>10, <2>1, <2>3 DEF M!MatcherHandshake, Side
    <3>2. ASSUME NEW s \in Side PROVE SideInv(s)'
      <4>1. ~M!HandleReady(s)
        BY <2>1 DEF M!HandleReady
      <4>2. SideInvNext(s, N')
        BY <1>2, <2>1, <2>2, <3>1, <4>1 DEF SideInvNext, SideInv, SideEdge
      <4> QED BY <1>1, <3>1, <4>2, SideInvPrime
    <3> QED BY <1>5, <1>10, <2>1, <3>1, <3>2 DEF MatchInv
  <2>4. CASE ~ready
    <3>1. /\ N' = N /\ m_state' = m_state /\ m_desc_valid' /\ m_desc_last' = m_desc_last
          /\ cap_got' = cap_got
      BY <1>1, <1>10, <2>1, <2>4 DEF M!MatcherHandshake
    <3>2. ASSUME NEW s \in Side PROVE SideInv(s)'
      <4>1. SideInvNext(s, N)
        BY <1>2, <1>5, <1>10, <2>1, <2>2, <3>1, SideStays
      <4> QED BY <1>1, <3>1, <4>1, SideInvPrime
    <3> QED BY <1>1, <1>5, <1>10, <2>1, <2>2, <3>1, <3>2 DEF MatchInv
  <2> QED BY <2>3, <2>4
<1>11. CASE ~sub_clear /\ M!MatcherDone(AllDone)
  BY <1>5, <1>11 DEF M!MatcherDone, MatchInv
<1> QED BY <1>4, <1>6, <1>7, <1>8, <1>9, <1>10, <1>11

-----------------------------------------------------------------------------
(* The invariant is inductive.                                             *)

\* IInv depends on the variables of the specification only.
LEMMA StutterInv == IInv /\ UNCHANGED vars => IInv'
<1> SUFFICES ASSUME IInv, UNCHANGED vars PROVE IInv'
  OBVIOUS
<1>1. UNCHANGED <<sst0, sst1, p0_state, p0_handle_idx, p0_handle_valid, p0_all_done,
                  p0_busy, p0_error, p0_rd_error>>
  BY DEF vars, P0!parserVars
<1>2. UNCHANGED <<p1_state, p1_handle_idx, p1_handle_valid, p1_all_done,
                  p1_busy, p1_error, p1_rd_error>>
  BY DEF vars, P1!parserVars
<1>3. UNCHANGED <<m_state, s_done_r, cap_got, cap, m_desc_valid, m_desc_last, m_desc,
                  m_busy, m_done, pair_count>>
  BY DEF vars, M!matcherVars
<1>4. UNCHANGED <<ts, busy, done, error, sub_clear, sub_start, nb, nb_done, nb_error,
                  emitted, commands>>
  BY DEF vars, engineVars, nbVars
<1>5. TypeOK'
  BY <1>1, <1>2, <1>3, <1>4 DEF IInv, TypeOK, P0!ParserTypeOK, P1!ParserTypeOK, M!MatcherTypeOK
<1>6. P0!ParserInv' /\ P1!ParserInv'
  BY <1>1, <1>2 DEF IInv, P0!ParserInv, P1!ParserInv
<1>7. PulseInv'
  BY <1>1, <1>2, <1>3, <1>4 DEF IInv, PulseInv
<1>8. /\ Handles' = Handles /\ N' = N /\ Stream!PairCount' = Stream!PairCount
      /\ State' = State /\ Idx' = Idx /\ AllDone' = AllDone
  BY <1>1, <1>2, <1>4 DEF Handles, N, Stream!PairCount, State, Idx, AllDone, Pair
<1>9. MatchInv'
  <2>1. \A s \in Side : SideInv(s)' <=> SideInv(s)
    BY <1>3, <1>8 DEF SideInv, Running, Stream!PairAt
  <2> QED BY <1>3, <1>8, <2>1 DEF IInv, MatchInv
<1>10. PairsMatchIndexes'
  BY <1>4, <1>8 DEF IInv, PairsMatchIndexes, Stream!PairAt
<1>11. TailInv'
  BY <1>4, <1>8 DEF IInv, TailInv
<1> QED BY <1>5, <1>6, <1>7, <1>9, <1>10, <1>11 DEF IInv

\* Every clock edge of the composition preserves IInv, conjunct by conjunct.
LEMMA NextInv == IInv /\ [Next]_vars => IInv'
<1>1. ASSUME IInv, Next PROVE IInv'
  <2>1. PICK cmd \in Command, in0 \in Input, in1 \in Input, inNB \in Input :
            Tick(cmd, in0, in1, inNB)
    BY <1>1 DEF Next, InputFor, Input
  <2>2. TypeOK'
    BY <1>1, <2>1, TypeTick
  <2>3. P0!ParserInv' /\ P1!ParserInv'
    BY <1>1, <2>1, ParsersTick DEF IInv
  <2>4. PulseInv' /\ MatchInv' /\ PairsMatchIndexes' /\ TailInv'
    BY <1>1, <2>1, PulseTick, MatchTick, PairsTick, TailTick
  <2> QED BY <2>2, <2>3, <2>4 DEF IInv
<1> QED BY <1>1, StutterInv

\* IInv holds in every reachable state.
THEOREM InductiveInvariant == Spec => []IInv
<1> QED BY InitInv, NextInv, PTL DEF Spec

-----------------------------------------------------------------------------
(* The theorems.                                                           *)

\* Every register of the engine, the parsers and the matcher keeps its type,
\* and a parser never offers a handle beyond its index block.
THEOREM TypeCorrect == Spec => []TypeOK
<1>1. IInv => TypeOK
  BY DEF IInv
<1> QED BY <1>1, InductiveInvariant, PTL

\* For all SSTables, the descriptors the nblock engine takes are the first
\* pairs of the two index blocks, in order and padded.
THEOREM PairsCorrect == Spec => []PairsMatchIndexes
<1>1. IInv => PairsMatchIndexes
  BY DEF IInv
<1> QED BY <1>1, InductiveInvariant, PTL

\* m_desc_last marks the final pair and no other.
THEOREM LastFlagCorrect == Spec => []LastFlagExact
<1>1. IInv => LastFlagExact
  BY DEF IInv, MatchInv, LastFlagExact, N
<1> QED BY <1>1, InductiveInvariant, PTL

\* The engine's done pulse implies that every pair was handed over.
THEOREM DoneCorrect == Spec => []DoneAfterAllPairs
<1>1. IInv => DoneAfterAllPairs
  BY DEF IInv, TailInv, DoneAfterAllPairs, N
<1> QED BY <1>1, InductiveInvariant, PTL

\* done rises only at the end of a run that has seen no error.
THEOREM DoneRisesInRun == Spec => DoneOnlyFromRun
<1>1. IInv /\ [Next]_vars => [done' /\ ~done => busy /\ ts = "WAIT_NB" /\ ~error]_vars
  <2> SUFFICES ASSUME IInv, Next, done', ~done
               PROVE  busy /\ ts = "WAIT_NB" /\ ~error
    OBVIOUS
  <2>1. PICK cmd \in Command, in0 \in Input, in1 \in Input, inNB \in Input :
            Tick(cmd, in0, in1, inNB)
    BY DEF Next, InputFor, Input
  <2>2. EngineClock(cmd = "clear", cmd = "start")
    BY <2>1 DEF Tick
  <2>3. ts = "WAIT_NB"
    BY <2>2 DEF EngineClock, EngineClear, EngineIdle, EngineClearAll, EngineStartAll, EngineWaitNB
  <2> QED BY <2>3 DEF IInv, PulseInv
<1> QED BY <1>1, InductiveInvariant, PTL DEF Spec, DoneOnlyFromRun

\* The parsers and the matcher implement PairStream: a tick delivers the next
\* pair, starts the stream again, or leaves it alone.
THEOREM ImplementsPairStream == Spec => DeliversPairs
<1>1. Init => Stream!StreamInit
  BY DEF Init, Stream!StreamInit
<1>2. IInv /\ [Next]_vars => [Stream!StreamNext]_<<Handles, emitted>>
  <2>1. ASSUME IInv, Next PROVE Stream!StreamNext \/ UNCHANGED <<Handles, emitted>>
    <3>1. PICK cmd \in Command, in0 \in Input, in1 \in Input, inNB \in Input :
              Tick(cmd, in0, in1, inNB)
      BY <2>1 DEF Next, InputFor, Input
    <3>2. TypeOK
      BY <2>1 DEF IInv
    <3>3. Handles' = Handles
      BY <3>1, <3>2, EmitTick
    <3>4. CASE sub_clear
      BY <3>1, <3>2, <3>3, <3>4, EmitTick DEF Stream!StreamNext, Stream!Restart
    <3>5. CASE ~sub_clear /\ Handshake(inNB = "go")
      <4>1. /\ emitted' = Append(emitted, m_desc)
            /\ N < Stream!PairCount /\ m_desc = Stream!PairAt(N + 1)
        BY <2>1, <3>1, <3>2, <3>5, EmitTick, PairsTick
      <4> QED BY <3>3, <4>1 DEF Stream!StreamNext, Stream!Deliver, N
    <3>6. CASE ~sub_clear /\ ~Handshake(inNB = "go")
      BY <3>1, <3>2, <3>3, <3>6, EmitTick
    <3> QED BY <3>4, <3>5, <3>6
  <2>2. ASSUME UNCHANGED vars PROVE UNCHANGED <<Handles, emitted>>
    BY <2>2 DEF vars, Handles, Pair
  <2> QED BY <2>1, <2>2
<1> QED BY <1>1, <1>2, InductiveInvariant, PTL DEF Spec, DeliversPairs, Stream!StreamSpec
=============================================================================
