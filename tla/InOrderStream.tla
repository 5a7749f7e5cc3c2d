---------------------------- MODULE InOrderStream ----------------------------
(***************************************************************************)
(* What the recovery layer promises the code behind it: one session opens  *)
(* at some sequence number, its messages are handed over one at a time in  *)
(* sequence, and the end is reported only after the last message, after    *)
(* which nothing more is handed over.                                      *)
(***************************************************************************)
EXTENDS Integers, Sequences

CONSTANTS SeqMax, StreamEnd

VARIABLES open,      \* the session has been joined
          base,      \* the sequence number it was joined at
          log,       \* the sequence numbers handed over
          closed     \* the end of the session has been reported

abstract == <<open, base, log, closed>>

\* The sequence number the consumer expects next.
Position == base + Len(log)

StreamInit == open = FALSE /\ base = 0 /\ log = <<>> /\ closed = FALSE

\* The packet that opens the session may also be the one that ends it.
Open == /\ ~open
        /\ open' = TRUE
        /\ base' \in 0 .. SeqMax
        /\ log' = log
        /\ \/ closed' = FALSE
           \/ closed' = TRUE /\ base' = StreamEnd

HandOver == /\ open
            /\ ~closed
            /\ log' = Append(log, Position)
            /\ UNCHANGED <<open, base, closed>>

Close == /\ open
         /\ Position = StreamEnd
         /\ closed' = TRUE
         /\ UNCHANGED <<open, base, log>>

StreamNext == Open \/ HandOver \/ Close

StreamSpec == StreamInit /\ [][StreamNext]_abstract
=============================================================================
