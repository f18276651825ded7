--------------------------- MODULE ReliableStream ---------------------------
(***************************************************************************)
(* What a stream promises the applications at its two ends (lib/stream.h): *)
(* the bytes written are read in order, none missing and none twice; a     *)
(* read returns bytes of one message only, whose end the writer marked;    *)
(* and the reader sees the end of the stream only after everything.        *)
(***************************************************************************)
EXTENDS Integers

VARIABLES
    written,    \* bytes written
    marks,      \* positions at which a message ends
    closed,     \* the writer wrote its end marker
    read,       \* bytes read
    end         \* how reading ended: "no", "peer" or "reader"

vars == <<written, marks, closed, read, end>>

Init == written = 0 /\ marks = {} /\ closed = FALSE /\ read = 0 /\ end = "no"

\* writeData, writeMessage, or closing with or without data.  An empty
\* message has no byte to deliver, so only the end of a non-empty one shows.
Write ==
    /\ ~closed
    /\ written' >= written /\ written' \in Nat
    /\ closed' \in BOOLEAN
    /\ marks' \in {marks, marks \cup {written'}}
    /\ closed' => marks' = marks \cup {written'}
    /\ UNCHANGED <<read, end>>

\* Bytes up to, and never across, the end of the current message.
Read ==
    /\ end = "no"
    /\ read' > read /\ read' <= written
    /\ \A m \in marks : read < m => read' <= m
    /\ UNCHANGED <<written, marks, closed, end>>

\* End of stream, once everything up to the writer's end marker was read.
AtEnd ==
    /\ end = "no" /\ closed /\ read = written
    /\ end' = "peer"
    /\ UNCHANGED <<written, marks, closed, read>>

\* The reader gives up.
Stop ==
    /\ end = "no"
    /\ end' = "reader"
    /\ UNCHANGED <<written, marks, closed, read>>

Next == Write \/ Read \/ AtEnd \/ Stop

Spec == Init /\ [][Next]_vars

=============================================================================
