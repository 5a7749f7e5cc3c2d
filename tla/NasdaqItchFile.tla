--------------------------- MODULE NasdaqItchFile ----------------------------
(***************************************************************************)
(* scan_historical_file and BufferedFile (include/qtrader/                 *)
(* NasdaqItchFile.hpp): a file of records, each behind a 16-bit length, is *)
(* read through one buffer with reads of any length.                       *)
(*                                                                         *)
(* A scan is a record: the buffer and its two marks, the position in the   *)
(* file, and which of the two ensure() calls of a record is next: "size"   *)
(* for its length field or "body".                                         *)
(***************************************************************************)
EXTENDS Integers, Sequences

CONSTANT BufferBytes        \* kBufferBytes; every record fits into it

ASSUME BufferAssumption == BufferBytes \in Nat /\ BufferBytes >= 2

\* BufferedFile's constructor.
Opened == [buffer |-> [k \in 0 .. BufferBytes - 1 |-> 0], begin |-> 0, end |-> 0,
           eof |-> FALSE, offset |-> 0, part |-> "size", requested |-> 2]

available(scan) == scan.end - scan.begin

\* Mutant: the marks move and the bytes stay.
CompactedMarks(scan) ==
    [scan EXCEPT !.begin = 0, !.end = scan.end - scan.begin]

\* ensure: what is left moves to the start of the buffer.
Compacted(scan) ==
    [scan EXCEPT !.begin = 0, !.end = scan.end - scan.begin,
                 !.buffer = [k \in DOMAIN @ |-> IF k < scan.end - scan.begin
                                                THEN @[k + scan.begin] ELSE @[k]]]

\* ensure goes on reading until it has what was asked for or the file ends.
Reading(scan) == available(scan) < scan.requested /\ ~scan.eof
ensure(scan)  == available(scan) >= scan.requested

\* One read of n bytes, n as the system pleases; none at the end of the file.
ReadSizes(file, scan) ==
    LET capacity  == BufferBytes - available(scan)
        remaining == Len(file) - scan.offset
    IN  IF remaining = 0 THEN {0} ELSE {n \in 1 .. capacity : n <= remaining}

ReadBytes(file, scan, n) ==
    LET in == Compacted(scan)
    IN  [in EXCEPT !.eof = (n = 0), !.end = in.end + n, !.offset = in.offset + n,
                   !.buffer = [k \in DOMAIN @ |->
                                 IF k \in in.end .. in.end + n - 1
                                 THEN file[in.offset + k - in.end + 1] ELSE @[k]]]

read_u16(scan) == 256 * scan.buffer[scan.begin] + scan.buffer[scan.begin + 1]

\* The length field is consumed and the body asked for.
SizeTaken(scan) ==
    [scan EXCEPT !.begin = scan.begin + 2, !.part = "body", !.requested = read_u16(scan)]

\* What the callback is shown.
Body(scan) == [k \in 1 .. scan.requested |-> scan.buffer[scan.begin + k - 1]]

BodyTaken(scan) ==
    [scan EXCEPT !.begin = scan.begin + scan.requested, !.part = "size", !.requested = 2]
=============================================================================
