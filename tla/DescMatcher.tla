---------------------------- MODULE DescMatcher ----------------------------
(***************************************************************************)
(* cmpct_desc_matcher: zips the handle streams of the two parsers into     *)
(* descriptor pairs for the nblock engine.  A side that has run out of     *)
(* handles contributes 0 (address 0, size 0).  The pair is held back until *)
(* the matcher knows whether it is the last one.                           *)
(*                                                                         *)
(* One step is one clock edge.  The wires that enter the module are the    *)
(* parameters of MatcherClock: handle_valid, handle and all_done are       *)
(* functions on Side, the others are Booleans.                             *)
(***************************************************************************)
EXTENDS Integers

VARIABLES
    state,          \* ST_IDLE, ST_GATHER, ST_EMIT, ST_DONE
    s_done_r,       \* latched all_done of each side
    cap_got,        \* side captured for the current pair
    cap,            \* captured handle of each side, 0 = none left
    m_desc_valid, m_desc_last,
    m_desc,         \* the descriptor on the output, a function on Side
    busy, done,
    pair_count

matcherVars == <<state, s_done_r, cap_got, cap, m_desc_valid, m_desc_last,
                 m_desc, busy, done, pair_count>>

Side == {0, 1}
MatcherStates == {"IDLE", "GATHER", "EMIT", "DONE"}
NoHandle == 0

MatcherInit ==
    /\ state = "IDLE"
    /\ s_done_r = [s \in Side |-> FALSE]
    /\ cap_got = [s \in Side |-> FALSE]
    /\ cap = [s \in Side |-> NoHandle]
    /\ m_desc_valid = FALSE
    /\ m_desc_last = FALSE
    /\ m_desc = [s \in Side |-> NoHandle]
    /\ busy = FALSE
    /\ done = FALSE
    /\ pair_count = 0

MatcherClear ==
    /\ state' = "IDLE"
    /\ busy' = FALSE
    /\ done' = FALSE
    /\ m_desc_valid' = FALSE
    /\ m_desc_last' = FALSE
    /\ pair_count' = 0
    /\ s_done_r' = [s \in Side |-> FALSE]
    /\ cap_got' = [s \in Side |-> FALSE]
    /\ UNCHANGED <<cap, m_desc>>

\* Mutant: a side that is already captured takes another handle.
HandleReadyAgain(s) == state = "GATHER" /\ ~s_done_r[s]

\* s0_handle_ready, s1_handle_ready.
HandleReady(s) == state = "GATHER" /\ ~cap_got[s] /\ ~s_done_r[s]

\* The level all_done of a parser is remembered.
LatchDone(all_done) == s_done_r' = [s \in Side |-> s_done_r[s] \/ all_done[s]]

MatcherIdle(start, all_done) ==
    /\ state = "IDLE"
    /\ done' = FALSE
    /\ \/ /\ ~(start /\ ~busy)
          /\ LatchDone(all_done)
          /\ UNCHANGED <<state, busy, pair_count, cap_got>>
       \/ /\ start /\ ~busy
          /\ state' = "GATHER"
          /\ busy' = TRUE
          /\ pair_count' = 0
          /\ s_done_r' = [s \in Side |-> FALSE]
          /\ cap_got' = [s \in Side |-> FALSE]
    /\ UNCHANGED <<cap, m_desc, m_desc_valid, m_desc_last>>

\* Both sides done, nothing captured, nothing offered: no pair is left.
NothingLeft(valid) == \A s \in Side : s_done_r[s] /\ ~cap_got[s] /\ ~valid[s]

\* Both sides captured as empty.
OnlyPadding == \A s \in Side : s_done_r[s] /\ cap[s] = NoHandle

\* Take an offered handle, else pad a side known to be finished.  The move
\* to EMIT looks at the registered cap_got, one cycle after the capture.
MatcherGather(valid, handle, all_done) ==
    /\ state = "GATHER"
    /\ LatchDone(all_done)
    /\ done' = FALSE
    /\ cap_got' = [s \in Side |-> cap_got[s] \/ valid[s] \/ s_done_r[s]]
    /\ cap' = [s \in Side |-> CASE cap_got[s] -> cap[s]
                                [] ~cap_got[s] /\ valid[s] -> handle[s]
                                [] ~cap_got[s] /\ ~valid[s] /\ s_done_r[s] -> NoHandle
                                [] OTHER -> cap[s]]
    /\ state' = IF \A s \in Side : cap_got[s]
                THEN IF OnlyPadding THEN "DONE" ELSE "EMIT"
                ELSE IF NothingLeft(valid) THEN "DONE" ELSE "GATHER"
    /\ UNCHANGED <<m_desc, m_desc_valid, m_desc_last, busy, pair_count>>

\* Mutant: no handle on offer is taken for the end of both streams.
PresentEagerly(valid, all_done) ==
    /\ state = "EMIT"
    /\ ~m_desc_valid
    /\ LatchDone(all_done)
    /\ done' = FALSE
    /\ m_desc' = cap
    /\ m_desc_last' = \A s \in Side : ~valid[s]
    /\ m_desc_valid' = TRUE
    /\ UNCHANGED <<state, cap_got, cap, busy, pair_count>>

\* Present the pair once m_desc_last can be decided.
MatcherPresent(valid, all_done) ==
    /\ state = "EMIT"
    /\ ~m_desc_valid
    /\ LatchDone(all_done)
    /\ done' = FALSE
    /\ m_desc' = cap
    /\ \/ /\ \E s \in Side : valid[s]
          /\ m_desc_last' = FALSE
          /\ m_desc_valid' = TRUE
       \/ /\ \A s \in Side : ~valid[s] /\ (s_done_r[s] \/ all_done[s])
          /\ m_desc_last' = TRUE
          /\ m_desc_valid' = TRUE
       \/ /\ \A s \in Side : ~valid[s]
          /\ \E s \in Side : ~(s_done_r[s] \/ all_done[s])
          /\ UNCHANGED <<m_desc_last, m_desc_valid>>
    /\ UNCHANGED <<state, cap_got, cap, busy, pair_count>>

\* Mutant: the captured sides are not released after the handshake.
HandshakeKeepsCapture(ready, all_done) ==
    /\ state = "EMIT"
    /\ m_desc_valid
    /\ LatchDone(all_done)
    /\ done' = FALSE
    /\ m_desc' = cap
    /\ m_desc_valid' = ~ready
    /\ pair_count' = IF ready THEN pair_count + 1 ELSE pair_count
    /\ state' = IF ~ready THEN state ELSE IF m_desc_last THEN "DONE" ELSE "GATHER"
    /\ UNCHANGED <<cap_got, cap, m_desc_last, busy>>

\* Hold the pair until the nblock engine takes it.
MatcherHandshake(ready, all_done) ==
    /\ state = "EMIT"
    /\ m_desc_valid
    /\ LatchDone(all_done)
    /\ done' = FALSE
    /\ m_desc' = cap
    /\ \/ /\ ~ready
          /\ UNCHANGED <<state, m_desc_valid, cap_got, pair_count>>
       \/ /\ ready
          /\ m_desc_valid' = FALSE
          /\ pair_count' = pair_count + 1
          /\ cap_got' = [s \in Side |-> FALSE]
          /\ state' = IF m_desc_last THEN "DONE" ELSE "GATHER"
    /\ UNCHANGED <<cap, m_desc_last, busy>>

MatcherDone(all_done) ==
    /\ state = "DONE"
    /\ LatchDone(all_done)
    /\ m_desc_valid' = FALSE
    /\ busy' = FALSE
    /\ done' = TRUE
    /\ state' = "IDLE"
    /\ UNCHANGED <<cap_got, cap, m_desc, m_desc_last, pair_count>>

MatcherClock(clear, start, valid, handle, all_done, ready) ==
    \/ clear /\ MatcherClear
    \/ /\ ~clear
       /\ \/ MatcherIdle(start, all_done)
          \/ MatcherGather(valid, handle, all_done)
          \/ MatcherPresent(valid, all_done)
          \/ MatcherHandshake(ready, all_done)
          \/ MatcherDone(all_done)

MatcherTypeOK ==
    /\ state \in MatcherStates
    /\ s_done_r \in [Side -> BOOLEAN]
    /\ cap_got \in [Side -> BOOLEAN]
    /\ cap \in [Side -> Nat]
    /\ m_desc \in [Side -> Nat]
    /\ m_desc_valid \in BOOLEAN
    /\ m_desc_last \in BOOLEAN
    /\ busy \in BOOLEAN
    /\ done \in BOOLEAN
    /\ pair_count \in Nat

\* The matcher's registers keep their types over a clock edge, for every
\* input on its wires: the FSM of cmpct_desc_matcher.v.
LEMMA MatcherStep ==
    ASSUME MatcherTypeOK, NEW clear \in BOOLEAN, NEW start \in BOOLEAN,
           NEW valid \in [Side -> BOOLEAN], NEW handle \in [Side -> Nat],
           NEW all_done \in [Side -> BOOLEAN], NEW ready \in BOOLEAN,
           MatcherClock(clear, start, valid, handle, all_done, ready)
    PROVE  MatcherTypeOK'
<1> USE DEF MatcherTypeOK, MatcherStates
<1>0. [s \in Side |-> FALSE] \in [Side -> BOOLEAN]
  OBVIOUS
<1>1. CASE clear /\ MatcherClear
  BY <1>0, <1>1 DEF MatcherClear
<1>2. LatchDone(all_done) => s_done_r' \in [Side -> BOOLEAN]
  BY DEF LatchDone
<1>3. CASE MatcherIdle(start, all_done)
  <2>1. CASE start /\ ~busy
    <3>1. /\ s_done_r' = [s \in Side |-> FALSE] /\ cap_got' = [s \in Side |-> FALSE]
          /\ pair_count' = 0 /\ state' = "GATHER" /\ busy' = TRUE /\ done' = FALSE
          /\ UNCHANGED <<cap, m_desc, m_desc_valid, m_desc_last>>
      BY <1>3, <2>1 DEF MatcherIdle
    <3>2. s_done_r' \in [Side -> BOOLEAN] /\ cap_got' \in [Side -> BOOLEAN]
      BY <1>0, <3>1
    <3> QED BY <3>1, <3>2
  <2>2. CASE ~(start /\ ~busy)
    BY <1>2, <1>3, <2>2 DEF MatcherIdle
  <2> QED BY <2>1, <2>2
<1>4. CASE MatcherGather(valid, handle, all_done)
  <2>1. cap_got' \in [Side -> BOOLEAN]
    BY <1>4 DEF MatcherGather
  <2>2. cap' \in [Side -> Nat]
    BY <1>4 DEF MatcherGather, NoHandle
  <2> QED BY <1>2, <1>4, <2>1, <2>2 DEF MatcherGather
<1>5. CASE MatcherPresent(valid, all_done)
  BY <1>2, <1>5 DEF MatcherPresent
<1>6. CASE MatcherHandshake(ready, all_done)
  <2>1. CASE ready
    <3>1. /\ cap_got' = [s \in Side |-> FALSE]
          /\ pair_count' = pair_count + 1
          /\ state' \in {"DONE", "GATHER"}
      BY <1>6, <2>1 DEF MatcherHandshake
    <3>2. cap_got' \in [Side -> BOOLEAN]
      BY <1>0, <3>1
    <3>3. pair_count' \in Nat /\ state' \in MatcherStates
      BY <3>1
    <3> QED BY <1>2, <1>6, <2>1, <3>2, <3>3 DEF MatcherHandshake
  <2>2. CASE ~ready
    BY <1>2, <1>6, <2>2 DEF MatcherHandshake
  <2> QED BY <2>1, <2>2
<1>7. CASE MatcherDone(all_done)
  BY <1>2, <1>7 DEF MatcherDone
<1> QED BY <1>1, <1>3, <1>4, <1>5, <1>6, <1>7 DEF MatcherClock
=============================================================================
