------------------------------ MODULE SseGuard ------------------------------
(***************************************************************************)
(* SseFrameGuard of src/src/sse_guard/mod.rs and the stream adapter that   *)
(* drives it: how many bytes an upstream may send between two blank lines  *)
(* before the answer is given up, counted chunk by chunk as they arrive.   *)
(*                                                                         *)
(* A byte is "r" (CR), "n" (LF) or "x".  A line ends with CR LF, CR or LF, *)
(* so a CR at the end of a chunk may be a line end or half of one: the     *)
(* guard holds back what may yet become part of a blank line.              *)
(***************************************************************************)
EXTENDS Integers, Sequences, FiniteSetsExt

CONSTANTS FrameCap,  \* max_frame_bytes
          MaxBytes,  \* bound on the length of the answer
          MaxChunk   \* bound on the length of a chunk

ASSUME SseAssumption == {FrameCap, MaxBytes, MaxChunk} \subseteq Nat

VARIABLES arrived,  \* the bytes that have arrived
          guard,    \* SseFrameGuard, and whether it has turned the answer down
          passed,   \* how many bytes were handed on to the parser
          ended     \* "no", "eof" or "error": how the upstream ended

sseVars == <<arrived, guard, passed, ended>>

-----------------------------------------------------------------------------
(* Line ends in a buffer.  atEof: no byte will follow the last one.        *)

Byte(b, i) == IF i \in DOMAIN b THEN b[i] ELSE "none"

\* eol_token_at: the length of the line end at i, 0 if there is none or if
\* the next byte has to be seen first.
EolAt(b, i, atEof) ==
    IF Byte(b, i) = "r" /\ Byte(b, i + 1) = "n" THEN 2
    ELSE IF Byte(b, i) = "n" \/ (Byte(b, i) = "r" /\ (i < Len(b) \/ atEof)) THEN 1
    ELSE 0

\* eol_run_end: the first place from i on where no complete line end begins.  The
\* code takes a CR LF in one step; its LF is a line end too, so it stops nowhere else.
RunEnd(b, i, atEof) == Min({k \in i..(Len(b) + 1) : EolAt(b, k, atEof) = 0})

\* The end of the blank line that begins at i.
BlankLine(b, i, atEof) ==
    LET first  == EolAt(b, i, atEof)
        second == EolAt(b, i + first, atEof)
    IN  IF first = 0 \/ second = 0 THEN 0 ELSE first + second

\* next_boundary, at or after i: the places where a blank line begins.
Boundaries(b, i, atEof) == {k \in i..Len(b) : BlankLine(b, k, atEof) # 0}

LastByteOnly(b) == IF b # <<>> /\ b[Len(b)] \in {"r", "n"} THEN 1 ELSE 0

\* boundary_prefix_suffix_len: how much of the tail may be part of a blank
\* line that is not complete.
PrefixSuffixLen(b) ==
    LET n == Len(b)
        last(k) == SubSeq(b, n - k + 1, n)
    IN  IF n >= 3 /\ last(3) = <<"r", "n", "r">> THEN 3
        ELSE IF n >= 2 /\ last(2) \in {<<"r", "n">>, <<"n", "r">>, <<"r", "r">>} THEN 2
        ELSE IF n >= 1 /\ last(1) \in {<<"r">>, <<"n">>} THEN 1
        ELSE 0

-----------------------------------------------------------------------------
(* The guard.                                                              *)

\* A new guard stands behind a blank line: leading ones belong to no frame.
NewGuard == [since |-> 0, carry |-> <<>>, inRun |-> TRUE, over |-> FALSE]

\* Within a run of blank lines nothing is charged.
InRun(carry) == [since |-> 0, carry |-> carry, inRun |-> TRUE, over |-> FALSE]

TooMuch == [NewGuard EXCEPT !.over = TRUE]

\* The frame that is not over at the end of the buffer.
OpenFrame(b, start, since, atEof) ==
    LET tail    == SubSeq(b, start, Len(b))
        charged == Len(tail) - (IF atEof THEN 0 ELSE PrefixSuffixLen(tail))
    IN  IF since + charged > FrameCap THEN TooMuch
        ELSE [since |-> since + charged, carry |-> SubSeq(tail, charged + 1, Len(tail)),
              inRun |-> FALSE, over |-> FALSE]

\* The loop of scan_frames_since_boundary.  frame[start] goes on with the frame
\* that starts there; of the first one, since bytes were charged before.
Frames(b, begin, since, atEof) ==
    LET frame[start \in 1..(Len(b) + 1)] ==
            LET blanks  == Boundaries(b, start, atEof)
                first   == Min(blanks)
                next    == RunEnd(b, first + BlankLine(b, first, atEof), atEof)
                charged == IF start = begin THEN since ELSE 0
            IN  IF blanks = {} THEN OpenFrame(b, start, charged, atEof)
                ELSE IF charged + (first - start) > FrameCap THEN TooMuch
                ELSE IF Byte(b, next) = "x" THEN frame[next]
                ELSE InRun(SubSeq(b, next, Len(b)))
    IN  frame[begin]

\* scan_frames_since_boundary: a run that the last chunk left open goes on first.
Scan(g, chunk, atEof) ==
    LET b     == g.carry \o chunk
        begin == IF g.inRun THEN RunEnd(b, 1, atEof) ELSE 1
    IN  IF g.inRun /\ Byte(b, begin) # "x"
        THEN InRun(SubSeq(b, begin, Len(b)))
        ELSE Frames(b, begin, g.since, atEof)

-----------------------------------------------------------------------------
(* bounded_sse_byte_stream.                                                *)

AtMost(n) == UNION {[1..k -> {"r", "n", "x"}] : k \in 0..n}
Chunks == AtMost(MaxChunk)

\* A chunk is judged before it is handed on.
ChunkArrives(chunk) ==
    /\ ended = "no" /\ ~guard.over
    /\ Len(arrived) + Len(chunk) <= MaxBytes
    /\ arrived' = arrived \o chunk
    /\ guard' = Scan(guard, chunk, FALSE)
    /\ passed' = IF guard'.over THEN passed ELSE Len(arrived')
    /\ UNCHANGED ended

\* finish: what was held back is judged as it stands.
UpstreamEnds ==
    /\ ended = "no" /\ ~guard.over
    /\ ended' = "eof"
    /\ guard' = Scan(guard, <<>>, TRUE)
    /\ UNCHANGED <<arrived, passed>>

ReadFails ==
    /\ ended = "no" /\ ~guard.over
    /\ ended' = "error"
    /\ UNCHANGED <<arrived, guard, passed>>

ReadingIsOver == (ended # "no" \/ guard.over) /\ UNCHANGED sseVars

SseInit == arrived = <<>> /\ guard = NewGuard /\ passed = 0 /\ ended = "no"

SseNext ==
    \/ \E chunk \in Chunks : ChunkArrives(chunk)
    \/ UpstreamEnds \/ ReadFails \/ ReadingIsOver

SseSpec == SseInit /\ [][SseNext]_sseVars

-----------------------------------------------------------------------------
(* Properties.                                                             *)

\* The line ends of a whole answer, without reading it in order: an LF after
\* a CR is the second half of one.
EolStarts(s) == {i \in DOMAIN s : s[i] = "r" \/ (s[i] = "n" /\ Byte(s, i - 1) # "r")}

EolBytes(s, i) == IF s[i] = "r" /\ Byte(s, i + 1) = "n" THEN {i, i + 1} ELSE {i}

\* The bytes of blank lines: line ends that touch another one or the start.
Blank(s) ==
    LET ends == EolStarts(s)
        behind(i) == IF s[i] = "r" /\ Byte(s, i + 1) = "n" THEN i + 2 ELSE i + 1
    IN  UNION {EolBytes(s, i) : i \in
                  {i \in ends : i = 1 \/ behind(i) \in ends \/ \E j \in ends : i = behind(j)}}

\* Some frame is longer than the limit.
TooLong(s, limit) == \E i \in 1..(Len(s) - limit) : i..(i + limit) \cap Blank(s) = {}

Continuations == AtMost(3)

\* However the answer is cut into chunks, it is given up at its end iff a frame
\* is too long, and earlier iff nothing that may follow can mend it; and the
\* parser is never handed more of a frame than the cap and what may turn out to
\* begin a blank line (sse_guard/mod.rs: "the verdict chunking-INDEPENDENT",
\* "an unterminated frame must not slip past the cap", "reject BEFORE
\* forwarding so the parser never sees the over-cap bytes").
VerdictIsTheAnswers ==
    /\ ended = "eof" => (guard.over <=> TooLong(arrived, FrameCap))
    /\ ended = "no" =>
          (guard.over <=> \A more \in Continuations : TooLong(arrived \o more, FrameCap))
    /\ ~TooLong(SubSeq(arrived, 1, passed), FrameCap + 3)
=============================================================================
