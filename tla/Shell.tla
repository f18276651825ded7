------------------------------- MODULE Shell -------------------------------
(***************************************************************************)
(* The remote shell: ShellClient and ShellSession at the two ends of a     *)
(* stream, the framing of control messages within the character data       *)
(* (ShellStream), and the buffered output files (AsyncFile).               *)
(*                                                                         *)
(* The stream delivers the bytes in order, in pieces of any size.  The     *)
(* slot that receives takes a step per packet or part of one, while the    *)
(* child process, the kernel and the other host go on; the other slots of  *)
(* the same process wait until it has returned.  A byte has Radix values   *)
(* without and Radix with the high bit, where the code has 128 and 128.    *)
(***************************************************************************)
EXTENDS Integers, Sequences, SequencesExt

CONSTANTS
    Radix,              \* values of the low bits of a byte
    ControlMarker,
    MaxControlMessage,
    ShellBufferSize,
    ReadMax,            \* size of the buffers that input is read into
    MaxPiece,           \* bound: bytes the stream has ready at once
    MaxEscapes,         \* bound: times round the loop of sendData() that are seen
    Input, Output,      \* what standard input and the child process give
    IsTty, Tios,        \* standard input is a terminal, with these settings
    Portable, Speeds,   \* flags and speeds the protocol knows
    TerminalMsg, ShellMsg, ExitMsg, \* encoded control messages
    NoPty

Byte == 0 .. 2 * Radix - 1
High(b) == b >= Radix
Low(b) == b % Radix
NoMarker(s) == \A i \in DOMAIN s : s[i] # ControlMarker

(* What memchr() finds: the bytes before the first marker. *)
Plain(q) ==
    CHOOSE p \in Prefixes(q) :
        /\ NoMarker(p)
        /\ \A r \in Prefixes(q) : NoMarker(r) => Len(r) <= Len(p)

ASSUME ShellAssumption ==
    /\ Radix \in Nat \ {0, 1} /\ ControlMarker \in 0 .. Radix - 1
    /\ MaxControlMessage \in Nat /\ ShellBufferSize \in Nat /\ ReadMax \in Nat \ {0}
    /\ MaxPiece \in Nat \ {0} /\ MaxEscapes \in Nat \ {0}
    /\ Input \in Seq(Byte) /\ Output \in Seq(Byte)
    /\ \A m \in {TerminalMsg, ShellMsg, ExitMsg} :
          m \in Seq(Byte) /\ m # <<>> /\ Len(m) < Radix * Radix   \* two digits of length

Side == {"cli", "srv"}
Other(s) == IF s = "cli" THEN "srv" ELSE "cli"

VARIABLES
    wire,       \* bytes of the stream on their way to a side
    rx,         \* ShellStream: receive state of a side
    slot,       \* what runs at a side: nothing ("idle"), the receiving slot at
                \* the "top" of its loop or in "receive", or sendData ("escape")
    ttyopen,    \* ShellSession::inReady's copy of aftty.isOpen()
    file,       \* AsyncFile a side writes to
    rest,       \* what the source of a side has left to give
    sess,       \* ShellSession, its child process and its pseudo-terminal
    cli,        \* ShellClient: "new", "running" or "exited"
    sent, got   \* history: items sent to a side, and received by it

(* ShellServer::gotConnection makes a session for the client's stream. *)
NewSession == [state |-> "live", tios |-> NoPty, child |-> "none"]

vars == <<wire, rx, slot, ttyopen, file, rest, sess, cli, sent, got>>

Init ==
    /\ wire = [s \in Side |-> <<>>]
    /\ rx = [s \in Side |-> [rstate |-> "Normal", clen |-> 0, cbuf |-> <<>>, rbuf |-> <<>>]]
    /\ slot = [s \in Side |-> "idle"] /\ ttyopen = FALSE
    /\ file = [s \in Side |->
                 [open |-> FALSE, st |-> "Ok", outq |-> <<>>, outqd |-> 0, out |-> <<>>]]
    /\ rest = [s \in Side |-> IF s = "cli" THEN Input ELSE Output]
    /\ sess = NewSession
    /\ cli = "new"
    /\ sent = [s \in Side |-> <<>>] /\ got = [s \in Side |-> <<>>]

-----------------------------------------------------------------------------
(* ShellStream, sending.  An item is a data byte or a control message.     *)

(* The length of a control message, most significant digit first, with the *)
(* high bit set in the last.                                               *)
LengthBytesShort(n) == <<(n % Radix) + Radix>>    \* fault: one digit only

LengthBytes(n) ==
    IF n < Radix THEN <<n + Radix>> ELSE <<n \div Radix, (n % Radix) + Radix>>

ControlBytes(msg) == <<ControlMarker>> \o LengthBytes(Len(msg)) \o msg

DataItems(d) == [i \in DOMAIN d |-> <<"Data", d[i]>>]

Marker == <<"Data", ControlMarker>>

(* A marker that sendData has found, and the escapes it writes after it:   *)
(* as the loop never looks for the next marker it goes on for ever to      *)
(* write no data and one more escape.                                      *)
EscapedMarker == <<ControlMarker>> \o [i \in 1 .. MaxEscapes |-> Radix]

(* sendData.  Of data with a marker it writes what is before the marker    *)
(* and, as above, the marker.  It does not return, and its process does    *)
(* nothing else any more.                                                  *)
SendData(s, d) ==
    \/ /\ NoMarker(d)
       /\ wire' = [wire EXCEPT ![Other(s)] = @ \o d]
       /\ sent' = [sent EXCEPT ![Other(s)] = @ \o DataItems(d)]
       /\ UNCHANGED slot
    \/ /\ ~NoMarker(d)
       /\ wire' = [wire EXCEPT ![Other(s)] = @ \o (Plain(d) \o EscapedMarker)]
       /\ sent' = [sent EXCEPT ![Other(s)] = @ \o (DataItems(Plain(d)) \o <<Marker>>)]
       /\ slot' = [slot EXCEPT ![s] = "escape"]

(* sendControl, for the messages msgs one after the other. *)
SendControl(s, msgs) ==
    /\ wire' = [wire EXCEPT ![Other(s)] =
                  @ \o FlattenSeq([i \in DOMAIN msgs |-> ControlBytes(msgs[i])])]
    /\ sent' = [sent EXCEPT ![Other(s)] =
                  @ \o [i \in DOMAIN msgs |-> <<"Control", msgs[i]>>]]

-----------------------------------------------------------------------------
(* AsyncFile.                                                              *)
OpenFile(f) == IF f.open THEN [f EXCEPT !.st = "Error"] ELSE [f EXCEPT !.open = TRUE]
CloseFile(f) == [f EXCEPT !.open = FALSE]

(* writeData: the kernel takes n bytes, if nothing is queued before them. *)
WriteDataEager(f, d, n) ==      \* fault: bytes overtake the ones queued
    [f EXCEPT !.out = @ \o SubSeq(d, 1, n), !.outq = @ \o SubSeq(d, n + 1, Len(d)),
              !.outqd = @ + Len(d) - n]

WriteData(f, d, n) ==
    LET k == IF f.outq = <<>> THEN n ELSE 0
    IN  [f EXCEPT !.out = @ \o SubSeq(d, 1, k), !.outq = @ \o SubSeq(d, k + 1, Len(d)),
                  !.outqd = @ + Len(d) - k]

(* readyWrite does not touch outqd.  A real error empties the queue. *)
ReadyWrite(s) ==
    /\ file[s].open /\ file[s].outq # <<>>
    /\ s = "srv" \/ cli = "running"
    /\ slot[s] = "idle"
    /\ \/ \E n \in 1 .. Len(file[s].outq) :
             file' = [file EXCEPT ![s].out = @ \o SubSeq(file[s].outq, 1, n),
                                  ![s].outq = SubSeq(@, n + 1, Len(@))]
       \/ file' = [file EXCEPT ![s].outq = <<>>, ![s].st = "Error"]
    /\ UNCHANGED <<wire, rx, slot, ttyopen, rest, sess, cli, sent, got>>

BytesToWriteUnbounded(f) == 0   \* fault: the buffer never counts as full

BytesToWrite(f) == f.outqd

-----------------------------------------------------------------------------
(* The receiving slots: ShellSession::inReady and ShellClient::outReady.   *)
Alive(s) == IF s = "srv" THEN sess.state # "gone" ELSE cli = "running"

ReadyRead(s) ==
    /\ Alive(s) /\ slot[s] = "idle"
    /\ wire[s] # <<>> \/ (s = "cli" /\ sess.state = "gone")
    /\ slot' = [slot EXCEPT ![s] = "top"]
    /\ ttyopen' = IF s = "srv" THEN file[s].open ELSE ttyopen
    /\ UNCHANGED <<wire, rx, file, rest, sess, cli, sent, got>>

(* The top of the loop: wait until the write buffer empties a bit. *)
LoopTop(s) ==
    /\ slot[s] = "top"
    /\ slot' = [slot EXCEPT ![s] =
          IF (s = "srv" => ttyopen) /\ BytesToWrite(file[s]) >= ShellBufferSize
            THEN "idle" ELSE "receive"]
    /\ UNCHANGED <<wire, rx, ttyopen, file, rest, sess, cli, sent, got>>

(* receive() fills its buffer with what has arrived, or returns. *)
Fill(s) ==
    /\ slot[s] = "receive" /\ rx[s].rbuf = <<>>
    /\ \E n \in 1 .. MaxPiece :
          /\ n <= Len(wire[s])
          /\ rx' = [rx EXCEPT ![s].rbuf = SubSeq(wire[s], 1, n)]
          /\ wire' = [wire EXCEPT ![s] = SubSeq(@, n + 1, Len(@))]
    /\ UNCHANGED <<slot, ttyopen, file, rest, sess, cli, sent, got>>

(* At the end of the stream the client exits; the session shuts the        *)
(* child's input down, which changes nothing here.                         *)
NothingYet(s) ==
    /\ slot[s] = "receive" /\ rx[s].rbuf = <<>>
    /\ slot' = [slot EXCEPT ![s] = "idle"]
    /\ cli' = IF s = "cli" /\ wire[s] = <<>> /\ sess.state = "gone" THEN "exited" ELSE cli
    /\ UNCHANGED <<wire, rx, ttyopen, file, rest, sess, sent, got>>

(* Receiving in state st. *)
InState(s, st) == slot[s] = "receive" /\ rx[s].rbuf # <<>> /\ rx[s].rstate = st
Skip(r, n) == [r EXCEPT !.rbuf = SubSeq(@, n + 1, Len(@))]

(* A data packet goes to the file, or is an error if the session had no    *)
(* tty when the slot started.  A write that fails ends the session, and    *)
(* aborts the client.                                                      *)
Error(x) == [x EXCEPT !.state = "dying"]        \* deleteLater()

WriteFails(s) ==
    /\ file[s].outq = <<>> /\ file' = [file EXCEPT ![s].st = "Error"]
    /\ sess' = IF s = "srv" THEN Error(sess) ELSE sess
    /\ cli' = IF s = "cli" THEN "exited" ELSE cli
    /\ slot' = [slot EXCEPT ![s] = IF s = "cli" THEN "idle" ELSE "top"]

DeliverData(s, d) ==
    /\ got' = [got EXCEPT ![s] = @ \o DataItems(d)]
    /\ IF s = "srv" /\ ~ttyopen
          THEN /\ sess' = Error(sess) /\ slot' = [slot EXCEPT ![s] = "top"]
               /\ UNCHANGED <<file, cli>>
          ELSE \/ WriteFails(s)
               \/ /\ \E n \in 0 .. Len(d) : file' = [file EXCEPT ![s] = WriteData(@, d, n)]
                  /\ slot' = [slot EXCEPT ![s] = "top"]
                  /\ UNCHANGED <<sess, cli>>

GotMarker(s) ==
    /\ InState(s, "Normal") /\ Head(rx[s].rbuf) = ControlMarker
    /\ rx' = [rx EXCEPT ![s] = [Skip(@, 1) EXCEPT !.rstate = "Length", !.clen = 0]]
    /\ UNCHANGED <<wire, slot, ttyopen, file, rest, sess, cli, sent, got>>

GotData(s) ==
    LET d == Plain(rx[s].rbuf)
    IN  /\ InState(s, "Normal") /\ d # <<>>
        /\ rx' = [rx EXCEPT ![s] = Skip(@, Len(d))]
        /\ DeliverData(s, d)
        /\ UNCHANGED <<wire, ttyopen, rest, sent>>

(* A byte of the length.  An escaped marker leaves rstate as it is. *)
GotLength(s) ==
    LET r    == rx[s]
        b    == Head(r.rbuf)
        clen == r.clen * Radix + Low(b)
    IN  /\ InState(s, "Length")
        /\ IF r.clen < MaxControlMessage /\ High(b) /\ clen = 0
              THEN /\ rx' = [rx EXCEPT ![s] = Skip(@, 1)]
                   /\ DeliverData(s, <<ControlMarker>>)
              ELSE /\ rx' = [rx EXCEPT ![s] =
                         IF r.clen >= MaxControlMessage THEN [r EXCEPT !.rstate = "Reset"]
                         ELSE IF High(b)
                           THEN [Skip(r, 1) EXCEPT !.clen = clen, !.rstate = "Message", !.cbuf = <<>>]
                           ELSE [Skip(r, 1) EXCEPT !.clen = clen]]
                   /\ slot' = IF r.clen >= MaxControlMessage
                                 THEN [slot EXCEPT ![s] = "idle"] ELSE slot
                   /\ UNCHANGED <<file, sess, cli, got>>
        /\ UNCHANGED <<wire, ttyopen, rest, sent>>

(* The body: what is there of it, and no more than it has. *)
Wanted(r) == IF Len(r.rbuf) < r.clen - Len(r.cbuf) THEN Len(r.rbuf) ELSE r.clen - Len(r.cbuf)

GotPart(s) ==
    LET r == rx[s]
    IN  /\ InState(s, "Message") /\ Len(r.cbuf) + Wanted(r) < r.clen
        /\ rx' = [rx EXCEPT ![s] =
              [Skip(r, Wanted(r)) EXCEPT !.cbuf = @ \o SubSeq(r.rbuf, 1, Wanted(r))]]
        /\ UNCHANGED <<wire, slot, ttyopen, file, rest, sess, cli, sent, got>>

-----------------------------------------------------------------------------
(* Control messages.  Terminal settings are carried as the flags the       *)
(* protocol knows, whether characters have 8 bits, and a speed.            *)
TermPack(t) ==
    [flags |-> t.flags \cap Portable, cs8 |-> t.size = "CS8",
     speed |-> IF t.speed \in Speeds THEN t.speed ELSE 9600]

TermUnpack(p) ==
    [flags |-> p.flags, size |-> IF p.cs8 THEN "CS8" ELSE "CS7",
     speed |-> IF p.speed \in Speeds THEN p.speed ELSE 9600]

(* ShellSession::openPty and run; the system may refuse. *)
OpenPty ==
    /\ sess' \in {Error(sess)} \cup
          (IF sess.tios = NoPty /\ sess.child = "none"
             THEN {[sess EXCEPT !.tios = TermUnpack(TermPack(Tios))]} ELSE {})
    /\ UNCHANGED file

Run ==
    \/ sess' = Error(sess) /\ UNCHANGED file
    \/ /\ sess.child = "none" \/ sess.tios # NoPty       \* no socket pair yet
       /\ sess' = [sess EXCEPT !.child = "running"]
       /\ file' = [file EXCEPT !["srv"] = OpenFile(@)]

(* gotControl, of the session and of the client; an unknown message is     *)
(* ignored.                                                                *)
SrvControl(msg) ==
    /\ CASE msg = TerminalMsg -> OpenPty
         [] msg = ShellMsg -> Run
         [] OTHER -> UNCHANGED <<sess, file>>
    /\ UNCHANGED cli

CliControl(msg) ==
    /\ cli' = IF msg = ExitMsg THEN "exited" ELSE cli
    /\ UNCHANGED <<sess, file>>

GotControl(s) ==
    LET r   == rx[s]
        msg == r.cbuf \o SubSeq(r.rbuf, 1, Wanted(r))
    IN  /\ InState(s, "Message") /\ Len(msg) = r.clen
        /\ rx' = [rx EXCEPT ![s] = [Skip(r, Wanted(r)) EXCEPT !.rstate = "Normal", !.cbuf = <<>>]]
        /\ got' = [got EXCEPT ![s] = Append(@, <<"Control", msg>>)]
        /\ slot' = [slot EXCEPT ![s] = "top"]
        /\ IF s = "srv" THEN SrvControl(msg) ELSE CliControl(msg)
        /\ UNCHANGED <<wire, ttyopen, rest, sent>>

-----------------------------------------------------------------------------
(* The client: main, setupTerminal and runShell; then inReady. *)
Start ==
    /\ cli = "new" /\ cli' = "running"
    /\ SendControl("cli", IF IsTty THEN <<TerminalMsg, ShellMsg>> ELSE <<ShellMsg>>)
    /\ file' = [file EXCEPT !["cli"] = OpenFile(@)]
    /\ UNCHANGED <<rx, slot, ttyopen, rest, sess, got>>

(* A side forwards up to ReadMax bytes of its source. *)
Forward(s, n) ==
    /\ n <= Len(rest[s])
    /\ SendData(s, SubSeq(rest[s], 1, n))
    /\ rest' = [rest EXCEPT ![s] = SubSeq(@, n + 1, Len(@))]

CliInput(n) ==
    /\ cli = "running" /\ slot["cli"] = "idle" /\ Forward("cli", n)
    /\ UNCHANGED <<rx, ttyopen, file, sess, cli, got>>

(* ShellSession::outReady.  When it sees the end with the last bytes, it   *)
(* closes the tty and, reading on, fails.                                  *)
ChildOutput(n) ==
    /\ sess.state # "gone" /\ slot["srv"] = "idle" /\ file["srv"].open /\ Forward("srv", n)
    /\ \/ UNCHANGED <<file, sess>>
       \/ /\ sess.child # "running" /\ n = Len(rest["srv"]) /\ slot' = slot
          /\ file' = [file EXCEPT !["srv"] = CloseFile(@)]
          /\ sess' = Error(sess)
    /\ UNCHANGED <<rx, ttyopen, cli, got>>

(* The child exits, having written no more than the next k bytes. *)
ChildExit ==
    /\ sess.child = "running"
    /\ sess' = [sess EXCEPT !.child = "exited"]
    /\ \E p \in Prefixes(rest["srv"]) : rest' = [rest EXCEPT !["srv"] = p]
    /\ UNCHANGED <<wire, rx, slot, ttyopen, file, cli, sent, got>>

(* ShellSession::childDone, once the watching thread has finished. *)
ChildDone ==
    /\ sess.child = "exited" /\ sess.state # "gone" /\ slot["srv"] = "idle"
    /\ SendControl("srv", <<ExitMsg>>)
    /\ sess' = [Error(sess) EXCEPT !.child = "reaped"]
    /\ UNCHANGED <<rx, slot, ttyopen, file, rest, cli, got>>

(* ~ShellSession, which closes the stream gracefully. *)
Deleted ==
    /\ sess.state = "dying" /\ slot["srv"] = "idle"
    /\ sess' = [sess EXCEPT !.state = "gone"]
    /\ file' = [file EXCEPT !["srv"] = CloseFile(@)]
    /\ UNCHANGED <<wire, rx, slot, ttyopen, rest, cli, sent, got>>

Next ==
    \/ Start \/ ChildExit \/ ChildDone \/ Deleted
    \/ \E n \in 1 .. ReadMax : CliInput(n) \/ ChildOutput(n)
    \/ \E s \in Side :
          \/ ReadyRead(s) \/ LoopTop(s) \/ Fill(s) \/ NothingYet(s) \/ ReadyWrite(s)
          \/ GotMarker(s) \/ GotData(s) \/ GotLength(s) \/ GotPart(s) \/ GotControl(s)

Spec == Init /\ [][Next]_vars

-----------------------------------------------------------------------------
(* The other side's sendData met a marker, and stays there. *)
MarkerSent(s) == sent[s] # <<>> /\ Last(sent[s]) = Marker

(* However the stream cuts the bytes, each side receives the data and the  *)
(* control messages the other sent, whole and in order, up to and with the *)
(* first marker among the data; what it receives after that one is left    *)
(* open.  A marker within a control message does no harm.                  *)
FramesIntactToMarker ==
    \A s \in Side : \/ IsPrefix(got[s], sent[s])
                    \/ MarkerSent(s) /\ IsPrefix(sent[s], got[s])

(* What the comments in sendData() and receive() say, that a marker among  *)
(* the data is escaped and arrives as one marker, is not so.               *)
MarkersEscaped == \A s \in Side : IsPrefix(got[s], sent[s])

(* The bytes among the items received. *)
DataOf(items) ==
    LET upto[i \in 0 .. Len(items)] ==
          IF i = 0 THEN <<>>
          ELSE IF items[i][1] = "Data" THEN Append(upto[i - 1], items[i][2])
          ELSE upto[i - 1]
    IN  upto[Len(items)]

(* AsyncFile neither loses nor reorders: what the file took and what waits *)
(* for it are the data received, in order, while the session lives and the *)
(* file has not failed.                                                    *)
BytesForwarded ==
    \A s \in Side : (s = "cli" \/ sess.state = "live") /\ file[s].st = "Ok" =>
        file[s].out \o file[s].outq = DataOf(got[s])

(* A file that does not take its output stops the forwarding: less than a  *)
(* buffer and a piece of the stream ever wait for it.                      *)
BacklogBounded == \A s \in Side : Len(file[s].outq) < ShellBufferSize + MaxPiece
=============================================================================
