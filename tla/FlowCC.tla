------------------------------- MODULE FlowCC -------------------------------
(***************************************************************************)
(* Congestion control of a flow (lib/flow.cc), as operators on the record  *)
(* of congestion state that Flow.tla keeps per endpoint.  All the modes of *)
(* the code are covered but CC_CTCP, which asserts that it is not used.    *)
(* Round-trip times, rates, and the counts of packets per round trip       *)
(* (markacks, marksent, ssbase) matter to CC_VEGAS, CC_DELAY and           *)
(* CC_AGGRESSIVE only through the comparisons made of them; these come out *)
(* either way, as a measurement says.                                      *)
(***************************************************************************)
EXTENDS Integers

CONSTANTS
    CCModes,    \* modes a flow may be set to: CC_TCP unless setCCMode() says other
    CwndMin,    \* CWND_MIN, 2 in the code
    CwndMax     \* CWND_MAX, 2^20 in the code

CCMode == {"CC_TCP", "CC_VEGAS", "CC_DELAY", "CC_AGGRESSIVE", "CC_FIXED"}

ASSUME CCAssumption ==
    /\ CCModes \subseteq CCMode
    /\ CwndMin \in Nat \ {0}
    /\ CwndMax \in Nat
    /\ CwndMin <= CwndMax

AtLeast(x, y) == IF x < y THEN y ELSE x     \* qMax

AtMost(x, y) == IF x < y THEN x ELSE y      \* qMin

CCState ==
    [ccmode : CCMode, cwnd : Nat, ssthresh : Nat, cwndlim : BOOLEAN,
     sstoggle : BOOLEAN, cwndinc : {-1, 1}, recovseq : Nat, markseq : Nat]

(* Flow::Flow and Flow::ccReset: one packet of history, slow start. *)
CcReset(mode) ==
    [ccmode |-> mode, cwnd |-> CwndMin, ssthresh |-> CwndMax, cwndlim |-> TRUE,
     sstoggle |-> TRUE, cwndinc |-> 1, recovseq |-> 1, markseq |-> 1]

(* What one acknowledgment of n packets may have measured: how many of     *)
(* them came on schedule, how many of the packets sent are expected if the *)
(* rest is lost, and how the round trip compares with the base.            *)
Measurement == [ontime : Nat, expected : Nat, trend : {"better", "same", "worse"}]

Measurements(c, n) ==
    {m \in [ontime : 0 .. n, expected : 0 .. c.cwnd, trend : {"better", "same", "worse"}] :
        c.ccmode \in {"CC_TCP", "CC_FIXED"} => m = [ontime |-> 0, expected |-> 0, trend |-> "same"]}

(* Flow::mayTransmit: being asked while the window is full marks the round *)
(* trip as window-limited.                                                 *)
WindowOpen(c, inflight) == c.cwnd > inflight

CcMayTransmit(c, inflight) ==
    IF WindowOpen(c, inflight) THEN c ELSE [c EXCEPT !.cwndlim = TRUE]

(* Flow::ccMissed, called in ascending order on the packets "lost" that    *)
(* one acknowledgment reveals: the first one beyond recovseq halves the    *)
(* window, and moves recovseq past all the others.                         *)
CcHalve(c, lost, txseq) ==
    LET half == AtLeast(c.cwnd \div 2, CwndMin) IN
    IF \E s \in lost : s > c.recovseq
      THEN [c EXCEPT !.ssthresh = half, !.cwnd = half, !.recovseq = txseq]
      ELSE c

(* CC_AGGRESSIVE only gives up what it takes to be lost. *)
CcExpect(c, lost, m) ==
    IF lost # {} /\ m.expected < c.cwnd
      THEN [c EXCEPT !.cwnd = AtLeast(m.expected, CwndMin)] ELSE c

CcMissed(c, lost, txseq, m) ==
    CASE c.ccmode \in {"CC_TCP", "CC_DELAY", "CC_VEGAS"} -> CcHalve(c, lost, txseq)
      [] c.ccmode = "CC_AGGRESSIVE" -> CcExpect(c, lost, m)
      [] OTHER -> c

(* The slow-start clause of Flow::receive. *)
CcStandard(c, newpackets) ==
    IF newpackets > 0 /\ c.cwndlim /\ c.cwnd < c.ssthresh
      THEN [c EXCEPT !.cwnd = AtMost(c.cwnd + newpackets, c.ssthresh)]
      ELSE c

(* CC_VEGAS does it every other time, CC_DELAY and CC_AGGRESSIVE always,   *)
(* but for packets on schedule alone.                                      *)
CcSlowStart(c, newpackets, m) ==
    CASE c.ccmode = "CC_TCP" -> CcStandard(c, newpackets)
      [] c.ccmode = "CC_VEGAS" ->
           IF c.sstoggle THEN CcStandard([c EXCEPT !.sstoggle = FALSE], newpackets)
           ELSE [c EXCEPT !.sstoggle = TRUE]
      [] c.ccmode = "CC_AGGRESSIVE" \/ (c.ccmode = "CC_DELAY" /\ c.cwndinc > 0) ->
           [c EXCEPT !.cwnd = @ + m.ontime]
      [] OTHER -> c

(* The round-trip clause of Flow::receive: the mark has been acknowledged, *)
(* and the next packet sent carries the next mark.  CC_TCP adds one if the *)
(* round trip was window-limited.                                          *)
CcAdditive(c) ==
    [c EXCEPT !.cwnd = IF c.cwndlim THEN c.cwnd + 1 ELSE c.cwnd, !.cwndlim = FALSE]

(* CC_DELAY goes up until the delay is worse, down until the rate is. *)
CcDelay(c, m) ==
    LET turn == \/ m.trend = "worse"
                \/ c.cwndinc > 0 /\ c.cwnd >= CwndMax
                \/ c.cwndinc < 0 /\ c.cwnd <= CwndMin
        wnd  == IF ~turn THEN c.cwnd + c.cwndinc
                ELSE IF c.cwndinc > 0 THEN c.cwnd ELSE c.cwnd + 1
    IN  [c EXCEPT !.cwnd = AtMost(AtLeast(wnd, CwndMin), CwndMax),
                  !.cwndinc = IF turn THEN -@ ELSE @]

(* CC_VEGAS compares the rate with the one the shortest delay promises. *)
CcVegas(c, m) ==
    IF m.trend = "better" /\ c.cwnd < CwndMax /\ c.cwndlim
      THEN [c EXCEPT !.cwnd = @ + 1]
    ELSE IF m.trend = "worse" /\ c.cwnd > CwndMin
      THEN [c EXCEPT !.cwnd = @ - 1, !.ssthresh = AtMost(@, c.cwnd - 1)]
    ELSE c

CcGrow(c, m) ==
    CASE c.ccmode = "CC_TCP" -> CcAdditive(c)
      [] c.ccmode = "CC_DELAY" -> CcDelay(c, m)
      [] c.ccmode = "CC_VEGAS" -> CcVegas(c, m)
      [] OTHER -> c

CcRoundTrip(c, ackseq, txseq, m) ==
    IF ackseq >= c.markseq THEN [CcGrow(c, m) EXCEPT !.markseq = txseq] ELSE c

CcClamp(c) == [c EXCEPT !.cwnd = AtMost(c.cwnd, CwndMax)]

(* The congestion part of Flow::rtxTimeout. *)
CcTimeoutNoFloor(c, inflight) ==        \* fault: no lower bound on the window
    IF c.ccmode = "CC_FIXED" THEN c
    ELSE [c EXCEPT !.ssthresh = inflight \div 2, !.cwnd = inflight \div 2]

CcTimeout(c, inflight) ==
    IF c.ccmode = "CC_FIXED" THEN c
    ELSE [c EXCEPT !.ssthresh = AtLeast(inflight \div 2, CwndMin),
                   !.cwnd = CwndMin]
=============================================================================
