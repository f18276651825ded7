------------------------------ MODULE StreamRx ------------------------------
(***************************************************************************)
(* The receiving half of one stream (BaseStream in lib/strm/base.cc):      *)
(* reassembly of segments that arrive in any order and more than once,     *)
(* message framing, the receive window, reading, and end of stream.        *)
(*                                                                         *)
(* The stream is in state Connected: a substream, or a top-level stream    *)
(* whose service request has been answered.                                *)
(***************************************************************************)
EXTENDS Integers, Sequences, SequencesExt

CONSTANTS
    MinReceiveBuffer,   \* minReceiveBuffer, 2 * mtu
    ReceiveBuffers,     \* sizes the application gives setReceiveBuffer()
    ReadSizes           \* buffer sizes it gives readData() and readMessage()

ASSUME StreamRxAssumption ==
    /\ MinReceiveBuffer \in Nat \ {0}
    /\ ReceiveBuffers \subseteq Nat /\ ReceiveBuffers # {}
    /\ ReadSizes \subseteq Nat \ {0}

VARIABLES
    rsn, ravail, rmsgavail, rbufused, rwinbyte, rahead, rsegs, rmsgsize,
    rcvbuf,
    ended,      \* endread, and whether the peer's close or our reader set it
    consumed    \* bytes handed to the reader so far (history)

rxvars == <<rsn, ravail, rmsgavail, rbufused, rwinbyte, rahead, rsegs,
            rmsgsize, rcvbuf, ended, consumed>>

endread == ended # "no"

\* Fault: no minimum when only reordered segments use the buffer.
ReceiveWindowNoFloor(buf, used, avail) ==
    LET rwin == Max({0, buf - used})
    IN  CHOOSE i \in 0 .. rwin :
            /\ 2 ^ (i + 1) - 1 > rwin
            /\ \A j \in 0 .. i - 1 : 2 ^ (j + 1) - 1 <= rwin

\* calcReceiveWindow(): the exponent of the window to advertise, when used
\* bytes of a buffer of buf are taken and avail of them can be read.
ReceiveWindow(buf, used, avail) ==
    LET room == Max({0, buf - used})
        rwin == IF avail = 0 /\ used > 0
                THEN Max({room, MinReceiveBuffer}) ELSE room
    IN  CHOOSE i \in 0 .. rwin :
            /\ 2 ^ (i + 1) - 1 > rwin
            /\ \A j \in 0 .. i - 1 : 2 ^ (j + 1) - 1 <= rwin

CalcReceiveWindow == rwinbyte' = ReceiveWindow(rcvbuf, rbufused', ravail')

\* calcTransmitWindow(): what the sender makes of that exponent.
AdvertisedWindow == 2 ^ rwinbyte - 1

RxInit ==
    /\ rsn = 0 /\ ravail = 0 /\ rmsgavail = 0 /\ rbufused = 0
    /\ rahead = <<>> /\ rsegs = <<>> /\ rmsgsize = <<>>
    /\ rcvbuf \in {Max({n, MinReceiveBuffer}) : n \in ReceiveBuffers}
    /\ rwinbyte = ReceiveWindow(rcvbuf, 0, 0)
    /\ ended = "no" /\ consumed = 0

-----------------------------------------------------------------------------
(* Arrival of a segment                                                    *)

\* Fault: the old bytes are not skipped.
TrimKept(s, at) == s

\* A segment without the bytes before position at, which we already have.
Trim(s, at) ==
    [tsn |-> at, size |-> s.size - (at - s.tsn), flags |-> s.flags]

\* Fault: a push ends a message too.
EndsMessageAnyFlag(s, msg) == s.flags # {} /\ msg > 0

\* Segment s ends a message of msg bytes; an empty message is none.
EndsMessage(s, msg) == s.flags \cap {"message", "close"} # {} /\ msg > 0

\* What rxData() does with the segment s at the front of what it can take:
\* leave it behind a gap, drop it as old, or append it to rsegs.  s counts in
\* rbufused already.
Take(rx, s) ==
    LET act    == s.size - (rx.rsn - s.tsn)
        msg    == rx.rmsgavail + act
        framed == EndsMessage(s, msg)
    IN  IF s.tsn > rx.rsn
        THEN [rx EXCEPT !.rahead = Append(@, s)]
        ELSE IF act < 0 \/ (act = 0 /\ s.flags = {})
        THEN [rx EXCEPT !.rbufused = @ - s.size]
        ELSE [rx EXCEPT !.rsegs     = Append(@, Trim(s, rx.rsn)),
                        !.rsn       = @ + act,
                        !.ravail    = @ + act,
                        !.rbufused  = @ - s.size + act,
                        !.rmsgsize  = IF framed THEN Append(@, msg) ELSE @,
                        !.rmsgavail = IF framed THEN 0 ELSE msg,
                        !.closed    = @ \/ "close" \in s.flags]

\* Fault: the buffer space of what is thrown away stays charged.
EndReadCharged(who) ==
    /\ ended' = who
    /\ ravail' = 0 /\ rmsgavail' = 0 /\ rbufused' = rbufused
    /\ rahead' = <<>> /\ rsegs' = <<>> /\ rmsgsize' = <<>>

\* shutdown(Stream::Read)
EndRead(who) ==
    /\ ended' = who
    /\ ravail' = 0 /\ rmsgavail' = 0 /\ rbufused' = 0
    /\ rahead' = <<>> /\ rsegs' = <<>> /\ rmsgsize' = <<>>

\* Fault: the close marker ends the stream at once.
EndsNowUnread(rx) == rx.closed

\* The close marker arrived and there is nothing left to read.
EndsNow(rx) == rx.closed /\ rx.ravail = 0

\* A segment at or before rsn, then whatever it frees in the reorder buffer.
RxInOrder(s) ==
    LET rx == FoldLeft(Take,
                [rsn |-> rsn, rsegs |-> rsegs, rahead |-> <<>>,
                 ravail |-> ravail, rbufused |-> rbufused + s.size,
                 rmsgsize |-> rmsgsize, rmsgavail |-> rmsgavail,
                 closed |-> FALSE],
                <<s>> \o rahead)
    IN  /\ rsn' = rx.rsn
        /\ IF EndsNow(rx)
           THEN EndRead("peer")
           ELSE /\ rsegs' = rx.rsegs /\ rahead' = rx.rahead
                /\ ravail' = rx.ravail /\ rbufused' = rx.rbufused
                /\ rmsgsize' = rx.rmsgsize /\ rmsgavail' = rx.rmsgavail
                /\ UNCHANGED ended

\* A segment beyond rsn: into the reorder buffer, sorted, unless the segment
\* it meets there has as much data and the same flags.
RxAhead(s) ==
    LET lo  == Cardinality({i \in DOMAIN rahead : rahead[i].tsn < s.tsn})
        dup == /\ lo < Len(rahead)
               /\ rahead[lo + 1].tsn = s.tsn
               /\ s.size <= rahead[lo + 1].size
               /\ s.flags = rahead[lo + 1].flags
    IN  /\ rahead' = IF dup THEN rahead ELSE InsertAt(rahead, lo + 1, s)
        /\ rbufused' = IF dup THEN rbufused ELSE rbufused + s.size
        /\ UNCHANGED <<rsn, rsegs, ravail, rmsgsize, rmsgavail, ended>>

RxData(s) ==
    IF endread
    THEN UNCHANGED rxvars
    ELSE /\ IF s.tsn <= rsn THEN RxInOrder(s) ELSE RxAhead(s)
         /\ CalcReceiveWindow
         /\ UNCHANGED <<rcvbuf, consumed>>

-----------------------------------------------------------------------------
(* The reader                                                              *)

\* One turn of the loop in readData() with the segment s at the head of
\* rsegs.  It stops at the end of a message, and reads whole segments only:
\* the code asserts that a segment fits.
ReadSegment(rd, s) ==
    LET head == Head(rd.rmsgsize) - s.size
    IN  IF rd.stopped \/ rd.room = 0 \/ rd.ravail = 0
        THEN [rd EXCEPT !.rsegs = Append(@, s)]
        ELSE IF rd.room < s.size
        THEN [rd EXCEPT !.fits = FALSE, !.stopped = TRUE]
        ELSE LET out == [rd EXCEPT !.room = @ - s.size, !.ravail = @ - s.size,
                                   !.got = @ + s.size]
             IN  IF rd.rmsgsize = <<>>
                 THEN [out EXCEPT !.rmsgavail = @ - s.size,
                                  !.closed = "close" \in s.flags,
                                  !.stopped = "close" \in s.flags]
                 ELSE IF head = 0
                 THEN [out EXCEPT !.rmsgsize = Tail(@), !.stopped = TRUE]
                 ELSE [out EXCEPT !.rmsgsize = <<head>> \o Tail(@),
                                  !.closed = "close" \in s.flags,
                                  !.stopped = "close" \in s.flags]

\* readData(room) on the receive state rd.
Reading(rd, room) ==
    FoldLeft(ReadSegment,
             [rd EXCEPT !.rsegs = <<>>, !.room = room, !.stopped = FALSE],
             rd.rsegs)

RxState == [rsegs |-> rsegs, ravail |-> ravail, rmsgsize |-> rmsgsize,
            rmsgavail |-> rmsgavail, got |-> 0, room |-> 0,
            fits |-> TRUE, closed |-> FALSE, stopped |-> FALSE]

\* The state after a read that ended as rd.
AfterRead(rd) ==
    /\ rd.fits
    /\ consumed' = consumed + rd.got
    /\ IF rd.closed
       THEN EndRead("peer")
       ELSE /\ rsegs' = rd.rsegs /\ ravail' = rd.ravail
            /\ rmsgsize' = rd.rmsgsize /\ rmsgavail' = rd.rmsgavail
            /\ rbufused' = rbufused - rd.got
            /\ UNCHANGED <<rahead, ended>>
    /\ CalcReceiveWindow
    /\ UNCHANGED <<rsn, rcvbuf>>

ReadData(maxSize) == AfterRead(Reading(RxState, maxSize))

\* readMessage(): what does not fit the buffer is read and dropped.
ReadMessage(maxSize) ==
    /\ rmsgsize # <<>>
    /\ LET first == Reading(RxState, maxSize)
       IN  AfterRead(IF Len(first.rmsgsize) = Len(rmsgsize)
                     THEN Reading(first, ravail) ELSE first)

\* shutdown(Stream::Read) from the application: the window is not recomputed.
ShutdownRead ==
    /\ ~endread
    /\ EndRead("reader")
    /\ UNCHANGED <<rsn, rwinbyte, rcvbuf, consumed>>

\* setReceiveBuffer(): takes effect when the window is next computed.
SetReceiveBuffer(size) ==
    /\ rcvbuf' = Max({size, MinReceiveBuffer})
    /\ UNCHANGED <<rsn, ravail, rmsgavail, rbufused, rwinbyte, rahead, rsegs,
                   rmsgsize, ended, consumed>>

Reader ==
    \/ \E n \in ReadSizes : ReadData(n) \/ ReadMessage(n)
    \/ ShutdownRead
    \/ \E n \in ReceiveBuffers : SetReceiveBuffer(n)

-----------------------------------------------------------------------------
(* Properties                                                              *)

\* The type of the receiving half's state.
RxTypeOK ==
    /\ rsn \in Nat /\ ravail \in Nat /\ rmsgavail \in Nat /\ rbufused \in Nat
    /\ rwinbyte \in 0 .. 31
    /\ \A s \in Range(rahead) \cup Range(rsegs) :
          s.tsn \in Nat /\ s.size \in Nat
    /\ Range(rmsgsize) \subseteq Nat \ {0}
    /\ rcvbuf \in Nat
    /\ ended \in {"no", "peer", "reader"} /\ consumed \in Nat

\* What waits in rsegs is exactly the bytes from the reader's position to rsn,
\* in order, and rahead holds only what is beyond, sorted: no byte is handed
\* out twice, skipped or out of place, however segments overlapped, repeated
\* or overtook each other on the way into rxData().
BytesInOrder ==
    ~endread =>
      /\ consumed + ravail = rsn
      /\ \A i \in DOMAIN rsegs :
            rsegs[i].tsn = IF i = 1 THEN consumed
                           ELSE rsegs[i - 1].tsn + rsegs[i - 1].size
      /\ IF rsegs = <<>> THEN ravail = 0
         ELSE Last(rsegs).tsn + Last(rsegs).size = rsn
      /\ \A i \in DOMAIN rahead :
            rahead[i].tsn > rsn /\ (i > 1 => rahead[i - 1].tsn <= rahead[i].tsn)

SizeOf(segs) == FoldLeft(LAMBDA sum, s : sum + s.size, 0, segs)

\* The buffer space the receive window is computed from is what the queued and
\* the reordered segments really hold, through trimming, dropping, reading and
\* end of stream.
BufferAccounting == rbufused = SizeOf(rsegs) + SizeOf(rahead)

=============================================================================
