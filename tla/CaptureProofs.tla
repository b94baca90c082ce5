----------------------------- MODULE CaptureProofs -----------------------------
(***************************************************************************)
(* What TLAPS proves of turn captures.                                     *)
(*                                                                         *)
(* One turn (TurnCapture), for any number of sends, chunks and frames: the *)
(* artifact tells the last attempt, and whatever is published is final.    *)
(* The inductive invariant CaptureInv says where the two sides and the     *)
(* assembly stand (SidesInv), what each section's file and queue hold      *)
(* together (ServedInv, ResponseInv, RequestInv), what of the last attempt *)
(* is staged or flagged (AttemptInv), and that the artifact is assembled   *)
(* of sections that are flushed (EndInv).                                  *)
(*                                                                         *)
(* The files of several (CaptureFiles), for any turns, any age limit and   *)
(* any number of processes: what a sweep takes is older than the process   *)
(* that sweeps, and what a living capture needs is not.                    *)
(***************************************************************************)
EXTENDS TurnCapture, CaptureFiles, SequenceTheorems, TLAPS

-----------------------------------------------------------------------------
(* One turn.  First the invariant.                                         *)

Request  == sec["request"]
Response == sec["response"]
Served   == sec["served"]

SectionShape ==
    [open : BOOLEAN, sink : BOOLEAN, queue : Seq(Chunk), pending : Chunk \cup {NoChunk},
     sealed : BOOLEAN, file : Seq(Chunk), partial : BOOLEAN, closed : BOOLEAN]

\* A sealed section takes nothing more, and is sealed before it is closed.
Section ==
    {s \in SectionShape :
        /\ s.sealed => ~s.open /\ ~s.sink /\ s.queue = <<>> /\ s.pending = NoChunk
        /\ s.closed => s.sealed}

BarrierShape(b) ==
    b \in [served : BOOLEAN, engine : BOOLEAN, outcome : {b.outcome}, finalized : BOOLEAN]
FlagsShape(f) ==
    f \in [claimed : BOOLEAN, teed : BOOLEAN, written : BOOLEAN, streamed : BOOLEAN,
           present : BOOLEAN]
AttemptShape(l) ==
    l \in [send : 0..MaxSends, chunks : Seq(Chunk), clean : BOOLEAN, body : BOOLEAN]
BodyShape(b) ==
    b \in [at : {"none", "live", "closing", "closing last", "over"}, sent : Nat,
           ended : BOOLEAN, partial : BOOLEAN]
DiskShape(d) == d \in [work : BOOLEAN, artifact : {d.artifact}]

CaptureTypes ==
    /\ BarrierShape(barrier) /\ FlagsShape(flags)
    /\ AttemptShape(last) /\ BodyShape(body) /\ DiskShape(disk)
    /\ staged \in 0..MaxSends
    /\ sec \in [Sections -> Section]

\* Where the two sides and the assembly stand.
Dispatching == turn \in {"redacting", "sent", "tapping", "reserving", "broken"}
Reported == body.at \in {"closing", "closing last", "over"}
SidesInv ==
    /\ flags.claimed <=> turn # "handler"
    /\ mw \in {"next", "engine backstop"} => (turn = "handler" => ~barrier.engine)
    /\ barrier.engine => turn \in {"handler", "guard", "over"}
    /\ barrier.served <=> Reported
    /\ barrier.finalized => barrier.engine /\ barrier.served
    /\ body.at = "closing last" => barrier.finalized /\ asm = "idle"
    /\ asm # "idle" => barrier.finalized
    /\ mw = "next" => body.at = "none"
    /\ ~flags.teed /\ mw # "over" => body.at = "none"

\* The served section holds the frames sent, unless it says partial.
ServedInv ==
    /\ body.at # "over" => Served.open
    /\ body.at = "live" => Served.sink
    /\ Reported => body.partial \/ body.ended
    /\ body.at = "over" => Served.partial \/ body.ended
    /\ Served.pending = NoChunk
    /\ Served.partial \/ Served.file \o Served.queue = [k \in 1..body.sent |-> <<0, k>>]

Received == IF last.body THEN <<Whole(last.send)>> ELSE last.chunks
Unresolved == asm \in {"idle", "request", "resolve"}

\* What the last attempt received, and what is staged of it.
AttemptInv ==
    /\ flags.streamed <=> last.clean \/ last.chunks # <<>>
    /\ last.body => ~flags.streamed
    /\ turn \in {"redacting", "sent"} => ~flags.streamed
    /\ Dispatching => ~last.body /\ ~last.clean /\ last.send # 0
    /\ turn = "reserving" => last.chunks # <<>>
    /\ last.body => last.send # 0
    /\ Unresolved => staged = IF last.body THEN last.send ELSE 0

\* The current response section holds what the last attempt received.
ResponseInv ==
    /\ turn \in {"redacting", "sent"} => Response = Fresh
    /\ Dispatching => Response.open
    /\ turn \in {"tapping", "reserving"} => Response.sink
    /\ turn = "broken" => Response.partial
    /\ Unresolved /\ last.body => Response = Fresh
    /\ ~Unresolved => flags.present = (flags.streamed \/ last.body)
    /\ ~Unresolved /\ last.body => \/ Response.partial
                                   \/ Response.pending = Whole(last.send)
                                   \/ Response.file = <<Whole(last.send)>>
    /\ last.body => Response.queue = <<>>
    /\ Response.pending # NoChunk => last.body /\ Response.pending = Whole(last.send)
    /\ ToSet(Response.file) \subseteq ToSet(Received)
    /\ ToSet(Response.queue) \subseteq ToSet(Received)
    /\ ~last.body => \/ Response.partial
                     \/ Response.file \o Response.queue =
                            IF turn = "reserving" THEN Front(last.chunks) ELSE last.chunks
    /\ ~Dispatching /\ flags.streamed => Response.partial \/ last.clean

\* The request section holds the last send's request, once that was captured.
Captured == turn \in {"sent", "tapping", "reserving", "broken"} \/ flags.streamed \/ last.body
RequestInv ==
    /\ asm \in {"idle", "request"} => Request.open
    /\ Request.queue = <<>>
    /\ Captured => /\ flags.written
                   /\ \/ Request.pending = Whole(last.send)
                      \/ /\ Request.pending = NoChunk
                         /\ Request.partial \/ Request.file = <<Whole(last.send)>>

\* The sections are flushed before the artifact is built, and nothing that it
\* was made of changes afterwards.
EndInv ==
    /\ asm \notin {"idle", "request", "resolve"} => Request.closed
    /\ asm \notin {"idle", "request", "resolve", "await"} => Response.closed /\ Served.closed
    /\ asm \in {"remove", "remove only", "publish", "done"} => ~registry
    /\ Published => asm = "done" /\ disk.artifact = Assembled

CaptureInv ==
    /\ CaptureTypes
    /\ SidesInv
    /\ ServedInv
    /\ AttemptInv
    /\ ResponseInv
    /\ RequestInv
    /\ EndInv

-----------------------------------------------------------------------------
(* The operations of a section. *)

LEMMA ChunkTypes ==
    /\ NoChunk \notin Chunk
    /\ \A n \in 0..MaxSends : Whole(n) \in Chunk /\ Whole(n) # NoChunk
<1>1. \A c \in Chunk : c # <<>>
  BY DEF Chunk
<1> QED
  BY <1>1 DEF Chunk, Whole, NoChunk

LEMMA FreshType == Fresh \in Section
<1>1. <<>> \in Seq(Chunk)
  OBVIOUS
<1> QED
  BY <1>1 DEF Fresh, Section, SectionShape

LEMMA OpTypes ==
    ASSUME NEW s \in Section
    PROVE  /\ Degrade(s) \in Section /\ TakeSink(s) \in Section /\ DropSink(s) \in Section
           /\ \A p \in BOOLEAN : Close(s, p) \in Section
           /\ \A c \in Chunk : /\ Replace(s, c) \in Section
                               /\ s.open => SendTo(s, c) \in Section
<1>1. \A p \in BOOLEAN : Close(s, p) \in Section
  BY DEF Close, Section, SectionShape
<1>2. \A c \in Chunk : Replace(s, c) \in Section
  BY DEF Replace, Section, SectionShape
<1>3. ASSUME NEW c \in Chunk, s.open
      PROVE  SendTo(s, c) \in Section
  <2>1. Append(s.queue, c) \in Seq(Chunk)
    BY DEF Section, SectionShape
  <2> QED
    BY <1>3, <2>1 DEF SendTo, Section, SectionShape
<1>4. Degrade(s) \in Section /\ TakeSink(s) \in Section /\ DropSink(s) \in Section
  BY DEF Degrade, TakeSink, DropSink, Section, SectionShape
<1> QED
  BY <1>1, <1>2, <1>3, <1>4

LEMMA WriteTypes ==
    ASSUME NEW s \in Section
    PROVE  /\ ~s.sealed /\ s.pending # NoChunk =>
                 \A t \in Written(s, <<s.pending>>) : [t EXCEPT !.pending = NoChunk] \in Section
           /\ ~s.open /\ ~s.sink /\ s.queue = <<>> =>
                 \A t \in IF s.pending = NoChunk THEN {s} ELSE Written(s, <<s.pending>>) :
                    [t EXCEPT !.pending = NoChunk, !.sealed = TRUE] \in Section
           /\ s.queue # <<>> =>
                 \A t \in Written(s, Append(s.file, Head(s.queue))) :
                    [t EXCEPT !.queue = Tail(@)] \in Section
           /\ s.sealed => [s EXCEPT !.closed = TRUE] \in Section
<1>1. ASSUME s.pending # NoChunk
      PROVE  <<s.pending>> \in Seq(Chunk)
  BY <1>1 DEF Section, SectionShape
<1>2. ASSUME s.queue # <<>>
      PROVE  Append(s.file, Head(s.queue)) \in Seq(Chunk) /\ Tail(s.queue) \in Seq(Chunk)
  BY <1>2 DEF Section, SectionShape
<1>3. ASSUME ~s.sealed, s.pending # NoChunk, NEW t \in Written(s, <<s.pending>>)
      PROVE  [t EXCEPT !.pending = NoChunk] \in Section
  BY <1>1, <1>3 DEF Written, Section, SectionShape
<1>4. ASSUME s.queue # <<>>, NEW t \in Written(s, Append(s.file, Head(s.queue)))
      PROVE  [t EXCEPT !.queue = Tail(@)] \in Section
  BY <1>2, <1>4 DEF Written, Section, SectionShape
<1>5. ASSUME ~s.open, ~s.sink, s.queue = <<>>,
             NEW t \in IF s.pending = NoChunk THEN {s} ELSE Written(s, <<s.pending>>)
      PROVE  [t EXCEPT !.pending = NoChunk, !.sealed = TRUE] \in Section
  BY <1>1, <1>5 DEF Written, Section, SectionShape
<1>6. s.sealed => [s EXCEPT !.closed = TRUE] \in Section
  BY DEF Section, SectionShape
<1> QED
  BY <1>3, <1>4, <1>5, <1>6

-----------------------------------------------------------------------------
(* The two sides. *)

LEMMA SidesKept ==
    ASSUME CaptureTypes, SidesInv, [Next]_vars
    PROVE  SidesInv'
<1>1. /\ barrier \in [served : BOOLEAN, engine : BOOLEAN, outcome : {barrier.outcome},
                      finalized : BOOLEAN]
      /\ flags \in [claimed : BOOLEAN, teed : BOOLEAN, written : BOOLEAN,
                    streamed : BOOLEAN, present : BOOLEAN]
      /\ body \in [at : {"none", "live", "closing", "closing last", "over"}, sent : Nat,
                   ended : BOOLEAN, partial : BOOLEAN]
  BY DEF CaptureTypes, BarrierShape, FlagsShape, BodyShape
<1> USE DEF SidesInv, Reported
<1>2. CASE UNCHANGED vars
  BY <1>2 DEF vars
<1>3. ASSUME NEW n \in Sections, Writer(n)
      PROVE  SidesInv'
  BY <1>3 DEF Writer
<1>4. CASE Respond
  BY <1>1, <1>4 DEF Respond
<1>5. CASE HandlerDropped
  BY <1>1, <1>5 DEF HandlerDropped
<1>6. CASE BackstopEngine
  BY <1>1, <1>6 DEF BackstopEngine, EngineDone, TakeTrigger
<1>7. CASE BackstopServed
  BY <1>1, <1>7 DEF BackstopServed, ServedDone, TakeTrigger
<1>8. CASE CloseServed
  BY <1>1, <1>8 DEF CloseServed
<1>9. CASE BodyFrame \/ BodyEnds
  BY <1>1, <1>9 DEF BodyFrame, BodyEnds, Tee
<1>10. CASE BodyDropped
  BY <1>1, <1>10 DEF BodyDropped, ServedDone, TakeTrigger, Tee
<1>11. CASE Claim
  BY <1>1, <1>11 DEF Claim, Goto, Leaf
<1>12. CASE Spawn \/ SendFails \/ Shrink \/ HttpFails \/ TapStarts \/ SendChunk \/ RawFails
            \/ StreamDropped \/ Abandon
  BY <1>1, <1>12 DEF Spawn, SendFails, Shrink, HttpFails, TapStarts, SendChunk, RawFails,
                     StreamDropped, Abandon, Goto, Leaf
<1>13. CASE Reset
  BY <1>1, <1>13 DEF Reset, Goto
<1>14. CASE CaptureRequest \/ RawChunk \/ RawEnds
  BY <1>1, <1>14 DEF CaptureRequest, RawChunk, RawEnds, Goto, Leaf
<1>15. CASE Finalize
  BY <1>1, <1>15 DEF Finalize, EngineDone, TakeTrigger, Goto
<1>16. CASE GuardDropped
  BY <1>1, <1>16 DEF GuardDropped, EngineDone, TakeTrigger, Goto
<1>17. CASE CloseRequest \/ Build \/ Evict \/ RemoveWorkDir \/ Publish
  BY <1>1, <1>17 DEF CloseRequest, Build, Evict, RemoveWorkDir, Publish, AsmGoto
<1>18. CASE ResolveResponse
  BY <1>1, <1>18 DEF ResolveResponse, AsmGoto
<1> QED
  BY <1>2, <1>3, <1>4, <1>5, <1>6, <1>7, <1>8, <1>9, <1>10, <1>11, <1>12, <1>13, <1>14,
     <1>15, <1>16, <1>17, <1>18 DEF Next, Middleware, Body, Engine, Assembly

-----------------------------------------------------------------------------
(* Types, and what a sealed section is. *)

SecTypes == sec \in [Sections -> Section]

LEMMA SecTypesKept ==
    ASSUME CaptureTypes, CaptureAssumption, ServedInv, AttemptInv, ResponseInv, [Next]_vars
    PROVE  SecTypes'
<1>1. /\ sec \in [Sections -> Section] /\ staged \in 0..MaxSends
      /\ last.send \in 0..MaxSends /\ last.chunks \in Seq(Chunk) /\ body.sent \in Nat
      /\ body.partial \in BOOLEAN
      /\ {"request", "response", "served"} \subseteq Sections
  BY DEF CaptureTypes, Sections, AttemptShape, BodyShape
<1>2. CASE UNCHANGED sec
  BY <1>1, <1>2 DEF SecTypes
<1>3. ASSUME NEW n \in Sections, NEW s \in Section, sec' = [sec EXCEPT ![n] = s]
      PROVE  SecTypes'
  BY <1>1, <1>3 DEF SecTypes
<1>4. ASSUME NEW n \in Sections, Writer(n)
      PROVE  SecTypes'
  <2>1. sec[n] \in Section
    BY <1>1
  <2>2. CASE ApplyReplace(n)
    BY <1>3, <2>1, <2>2, WriteTypes DEF ApplyReplace
  <2>3. CASE WriteAppend(n)
    BY <1>3, <2>1, <2>3, WriteTypes DEF WriteAppend
  <2>4. CASE Seal(n)
    <3>1. PICK s \in IF sec[n].pending = NoChunk THEN {sec[n]}
                     ELSE Written(sec[n], <<sec[n].pending>>) :
             sec' = [sec EXCEPT ![n] = [s EXCEPT !.pending = NoChunk, !.sealed = TRUE]]
      BY <2>4 DEF Seal
    <3>2. ~sec[n].open /\ ~sec[n].sink /\ sec[n].queue = <<>>
      BY <2>4 DEF Seal
    <3>3. [s EXCEPT !.pending = NoChunk, !.sealed = TRUE] \in Section
      BY <2>1, <3>1, <3>2, WriteTypes
    <3> QED
      BY <1>3, <3>1, <3>3
  <2>5. CASE Flush(n)
    <3>1. sec' = [sec EXCEPT ![n] = [sec[n] EXCEPT !.closed = TRUE]] /\ sec[n].sealed
      BY <1>1, <2>5 DEF Flush
    <3> QED
      BY <1>3, <2>1, <3>1, WriteTypes
  <2> QED
    BY <1>4, <2>2, <2>3, <2>4, <2>5 DEF Writer
<1>5. CASE Respond
  BY <1>1, <1>3, <1>5, OpTypes DEF Respond
<1>6. CASE CloseServed
  <2>1. Close(sec["served"], body.partial) \in Section
    BY <1>1, OpTypes
  <2>2. DropSink(Close(sec["served"], body.partial)) \in Section
    BY <2>1, OpTypes
  <2> QED
    BY <1>1, <1>3, <1>6, <2>2 DEF CloseServed
<1>7. CASE BodyFrame
  <2>1. <<0, body.sent + 1>> \in Chunk
    BY <1>1, CaptureAssumption DEF Chunk, CaptureAssumption
  <2>2. SendTo(sec["served"], <<0, body.sent + 1>>) \in Section
    <3>1. sec["served"].open
      BY <1>7 DEF BodyFrame, ServedInv, Served
    <3> QED
      BY <1>1, <2>1, <3>1, OpTypes
  <2> QED
    BY <1>1, <1>3, <1>7, <2>2 DEF BodyFrame
<1>8. CASE Reset
  BY <1>1, <1>3, <1>8, FreshType DEF Reset
<1>9. CASE CaptureRequest
  <2>1. Replace(sec["request"], Whole(last.send)) \in Section
    BY <1>1, ChunkTypes, OpTypes
  <2> QED
    BY <1>1, <1>3, <1>9, <2>1 DEF CaptureRequest
<1>10. CASE TapStarts
  BY <1>1, <1>3, <1>10, OpTypes DEF TapStarts
<1>11. CASE SendChunk
  <2>0. last.chunks # <<>> /\ sec["response"].open
    BY <1>11 DEF SendChunk, Goto, AttemptInv, ResponseInv, Response, Dispatching
  <2>1. Last(last.chunks) \in Chunk
    BY <1>1, <2>0 DEF Last
  <2>2. SendTo(sec["response"], Last(last.chunks)) \in Section
    BY <1>1, <2>0, <2>1, OpTypes
  <2> QED
    BY <1>1, <1>3, <1>11, <2>2 DEF SendChunk
<1>12. CASE RawEnds \/ RawFails \/ StreamDropped
  <2>1. /\ Close(sec["response"], TRUE) \in Section /\ Close(sec["response"], FALSE) \in Section
        /\ Degrade(sec["response"]) \in Section
    BY <1>1, OpTypes, ChunkTypes
  <2>2. /\ DropSink(Close(sec["response"], TRUE)) \in Section
        /\ DropSink(Close(sec["response"], FALSE)) \in Section
        /\ DropSink(Degrade(sec["response"])) \in Section
    BY <2>1, OpTypes, ChunkTypes
  <2> QED
    BY <1>1, <1>3, <1>12, <2>2 DEF RawEnds, RawFails, StreamDropped
<1>13. CASE CloseRequest
  <2>1. Close(sec["request"], FALSE) \in Section
    BY <1>1, OpTypes, ChunkTypes
  <2> QED
    BY <1>1, <1>3, <1>13, <2>1 DEF CloseRequest
<1>14. CASE ResolveResponse
  <2>1. Replace(sec["response"], Whole(staged)) \in Section
    BY <1>1, ChunkTypes, OpTypes
  <2>2. \A s \in {Replace(sec["response"], Whole(staged)), sec["response"]} :
           Close(s, FALSE) \in Section
    BY <1>1, <2>1, ChunkTypes, OpTypes
  <2> QED
    BY <1>1, <1>3, <1>14, <2>2 DEF ResolveResponse
<1>15. CASE HandlerDropped \/ BackstopEngine \/ BackstopServed
  BY <1>2, <1>15 DEF HandlerDropped, BackstopEngine, BackstopServed
<1>16. CASE BodyEnds \/ BodyDropped
  BY <1>2, <1>16 DEF BodyEnds, BodyDropped
<1>17. CASE Claim \/ Spawn \/ Shrink \/ SendFails \/ HttpFails \/ RawChunk \/ Finalize
            \/ Abandon \/ GuardDropped
  BY <1>2, <1>17 DEF Claim, Spawn, Shrink, SendFails, HttpFails, RawChunk, Finalize,
                     Abandon, GuardDropped
<1>18. CASE Build \/ Evict \/ RemoveWorkDir \/ Publish
  BY <1>2, <1>18 DEF Build, Evict, RemoveWorkDir, Publish
<1>19. CASE UNCHANGED vars
  BY <1>2, <1>19 DEF vars
<1> QED
  BY <1>4, <1>5, <1>6, <1>7, <1>8, <1>9, <1>10, <1>11, <1>12, <1>13, <1>14, <1>15, <1>16,
     <1>17, <1>18, <1>19 DEF Next, Middleware, Body, Engine, Assembly

LEMMA BarrierTypes ==
    ASSUME BarrierShape(barrier)
    PROVE  /\ \A report : EngineDone(report) => BarrierShape(barrier')
           /\ BodyShape(body) => \A p \in BOOLEAN :
                 ServedDone(p) => BarrierShape(barrier') /\ BodyShape(body')
BY DEF EngineDone, ServedDone, TakeTrigger, BarrierShape, BodyShape

LEMMA TypesKept ==
    ASSUME CaptureTypes, CaptureAssumption, ServedInv, AttemptInv, ResponseInv, [Next]_vars
    PROVE  CaptureTypes'
<1> DEFINE Shapes == /\ BarrierShape(barrier') /\ FlagsShape(flags')
                     /\ AttemptShape(last') /\ BodyShape(body') /\ DiskShape(disk')
                     /\ staged' \in 0..MaxSends
<1> SUFFICES Shapes
  BY SecTypesKept DEF CaptureTypes, SecTypes
<1>1. /\ BarrierShape(barrier) /\ FlagsShape(flags)
      /\ AttemptShape(last) /\ BodyShape(body) /\ DiskShape(disk)
      /\ staged \in 0..MaxSends
      /\ MaxSends \in Nat /\ last.send \in 0..MaxSends /\ last.chunks \in Seq(Chunk)
  BY CaptureAssumption DEF CaptureTypes, CaptureAssumption, AttemptShape
<1>2. CASE UNCHANGED vars
  BY <1>1, <1>2 DEF vars
<1>3. ASSUME NEW n \in Sections, Writer(n)
      PROVE  Shapes
  BY <1>1, <1>3 DEF Writer
<1>4. CASE Respond
  <2>1. FlagsShape([flags EXCEPT !.teed = TRUE]) /\ BodyShape([body EXCEPT !.at = "live"])
    BY <1>1 DEF FlagsShape, BodyShape
  <2> QED
    BY <1>1, <1>4, <2>1 DEF Respond
<1>5. CASE HandlerDropped
  BY <1>1, <1>5 DEF HandlerDropped
<1>6. CASE CloseServed
  <2>1. BodyShape([body EXCEPT !.at = "over"])
    BY <1>1 DEF BodyShape
  <2> QED
    BY <1>1, <1>6, <2>1 DEF CloseServed
<1>7. CASE BackstopEngine
  BY <1>1, <1>7, BarrierTypes DEF BackstopEngine
<1>8. CASE BackstopServed
  BY <1>1, <1>8, BarrierTypes DEF BackstopServed
<1>9. CASE BodyFrame \/ BodyEnds
  <2>1. BodyShape([body EXCEPT !.ended = TRUE])
    BY <1>1 DEF BodyShape
  <2>4. body.sent \in Nat
    BY <1>1 DEF BodyShape
  <2>2. body.sent + 1 \in Nat
    BY <2>4
  <2>3. BodyShape([body EXCEPT !.sent = @ + 1])
    BY <1>1, <2>2 DEF BodyShape
  <2> QED
    BY <1>1, <1>9, <2>1, <2>3 DEF BodyFrame, BodyEnds, Tee
<1>10. CASE BodyDropped
  <2>1. ServedDone(~body.ended) /\ (~body.ended) \in BOOLEAN
    BY <1>10 DEF BodyDropped
  <2>2. BarrierShape(barrier') /\ BodyShape(body')
    BY <1>1, <2>1, BarrierTypes
  <2> QED
    BY <1>1, <1>10, <2>2 DEF BodyDropped, Tee
<1>11. CASE Spawn \/ SendFails \/ TapStarts \/ SendChunk \/ RawFails \/ StreamDropped \/ Abandon
  BY <1>1, <1>11 DEF Spawn, SendFails, TapStarts, SendChunk, RawFails, StreamDropped,
                     Abandon, Leaf
<1>12. CASE Claim
  <2>1. FlagsShape([flags EXCEPT !.claimed = TRUE])
    BY <1>1 DEF FlagsShape
  <2> QED
    BY <1>1, <1>12, <2>1 DEF Claim, Leaf
<1>13. CASE CaptureRequest
  <2>1. FlagsShape([flags EXCEPT !.written = @ \/ ~sec["request"].sealed])
    BY <1>1 DEF FlagsShape
  <2> QED
    BY <1>1, <1>13, <2>1 DEF CaptureRequest, Leaf
<1>14. CASE Shrink
  <2>1. AttemptShape([last EXCEPT !.send = @ + 1])
    BY <1>1, <1>14 DEF AttemptShape, Shrink
  <2> QED
    BY <1>1, <1>14, <2>1 DEF Shrink, Leaf
<1>15. CASE Reset
  <2>1. last.send < MaxSends
    BY <1>15 DEF Reset
  <2>5. last.send + 1 \in 0..MaxSends /\ <<>> \in Seq(Chunk)
    BY <1>1, <2>1
  <2>2. AttemptShape([Nothing EXCEPT !.send = last.send + 1])
    BY <2>5 DEF AttemptShape, Nothing
  <2>3. FlagsShape([flags EXCEPT !.streamed = FALSE]) /\ DiskShape([disk EXCEPT !.work = TRUE])
    BY <1>1 DEF FlagsShape, DiskShape
  <2>4. 0 \in 0..MaxSends
    BY <1>1
  <2> QED
    BY <1>1, <1>15, <2>2, <2>3, <2>4 DEF Reset
<1>16. CASE HttpFails
  <2>1. AttemptShape([last EXCEPT !.body = TRUE])
    BY <1>1 DEF AttemptShape
  <2> QED
    BY <1>1, <1>16, <2>1 DEF HttpFails, Leaf
<1>17. CASE RawChunk
  <2>1. <<last.send, Len(last.chunks) + 1>> \in Chunk
    BY <1>1 DEF Chunk
  <2>2. Append(last.chunks, <<last.send, Len(last.chunks) + 1>>) \in Seq(Chunk)
    BY <1>1, <2>1
  <2>3. AttemptShape([last EXCEPT !.chunks = Append(@, <<last.send, Len(@) + 1>>)])
    BY <1>1, <2>2 DEF AttemptShape
  <2>4. FlagsShape([flags EXCEPT !.streamed = TRUE])
    BY <1>1 DEF FlagsShape
  <2> QED
    BY <1>1, <1>17, <2>3, <2>4 DEF RawChunk, Leaf
<1>18. CASE RawEnds
  <2>1. /\ FlagsShape([flags EXCEPT !.streamed = TRUE])
        /\ AttemptShape([last EXCEPT !.clean = TRUE])
    BY <1>1 DEF FlagsShape, AttemptShape
  <2> QED
    BY <1>1, <1>18, <2>1 DEF RawEnds, Leaf
<1>19. CASE Finalize \/ GuardDropped
  BY <1>1, <1>19, BarrierTypes DEF Finalize, GuardDropped
<1>20. CASE CloseRequest \/ Build \/ Evict
  BY <1>1, <1>20 DEF CloseRequest, Build, Evict, AsmGoto
<1>21. CASE RemoveWorkDir
  <2>1. \A work \in BOOLEAN : DiskShape([disk EXCEPT !.work = work])
    BY <1>1 DEF DiskShape
  <2> QED
    BY <1>1, <1>21, <2>1 DEF RemoveWorkDir, AsmGoto
<1>22. CASE Publish
  <2>1. \A artifact \in {NoArtifact, Assembled} : DiskShape([disk EXCEPT !.artifact = artifact])
    BY <1>1 DEF DiskShape
  <2> QED
    BY <1>1, <1>22, <2>1 DEF Publish, AsmGoto
<1>23. CASE ResolveResponse
  <2>1. staged' \in 0..MaxSends
    BY <1>1, <1>23 DEF ResolveResponse
  <2>2. PICK b : flags' = [flags EXCEPT !.present = flags.streamed \/ b] /\ b \in BOOLEAN
    BY <1>23 DEF ResolveResponse
  <2>3. FlagsShape(flags')
    BY <1>1, <2>2 DEF FlagsShape
  <2> QED
    BY <1>1, <1>23, <2>1, <2>3 DEF ResolveResponse, AsmGoto
<1> QED
  BY <1>2, <1>3, <1>4, <1>5, <1>6, <1>7, <1>8, <1>9, <1>10, <1>11, <1>12, <1>13, <1>14,
     <1>15, <1>16, <1>17, <1>18, <1>19, <1>20, <1>21, <1>22, <1>23
  DEF Next, Middleware, Body, Engine, Assembly

-----------------------------------------------------------------------------
(* The served section. *)

\* What the operations change of a section.
LEMMA OpEffects ==
    ASSUME NEW s \in Section
    PROVE  /\ Degrade(s).open = s.open /\ Degrade(s).sink = s.sink /\ Degrade(s).queue = s.queue
           /\ Degrade(s).pending = s.pending /\ Degrade(s).file = s.file
           /\ Degrade(s).partial /\ Degrade(s).closed = s.closed
           /\ TakeSink(s).open = s.open /\ TakeSink(s).sink = s.open
           /\ TakeSink(s).queue = s.queue /\ TakeSink(s).pending = s.pending
           /\ TakeSink(s).file = s.file /\ TakeSink(s).partial = s.partial
           /\ TakeSink(s).closed = s.closed
           /\ DropSink(s).open = s.open /\ ~DropSink(s).sink /\ DropSink(s).queue = s.queue
           /\ DropSink(s).pending = s.pending /\ DropSink(s).file = s.file
           /\ DropSink(s).partial = s.partial /\ DropSink(s).closed = s.closed
BY DEF Degrade, TakeSink, DropSink, Section, SectionShape

LEMMA CloseEffects ==
    ASSUME NEW s \in Section, NEW p \in BOOLEAN
    PROVE  /\ ~Close(s, p).open /\ Close(s, p).sink = s.sink /\ Close(s, p).queue = s.queue
           /\ Close(s, p).pending = s.pending /\ Close(s, p).file = s.file
           /\ Close(s, p).partial = (s.partial \/ p) /\ Close(s, p).closed = s.closed
BY DEF Close, Section, SectionShape

LEMMA ChunkEffects ==
    ASSUME NEW s \in Section, NEW c \in Chunk
    PROVE  /\ Replace(s, c).open = s.open /\ Replace(s, c).sink = s.sink
           /\ Replace(s, c).queue = s.queue /\ Replace(s, c).file = s.file
           /\ Replace(s, c).pending = (IF s.sealed THEN s.pending ELSE c)
           /\ Replace(s, c).partial = s.partial /\ Replace(s, c).closed = s.closed
           /\ SendTo(s, c).open = s.open /\ SendTo(s, c).sink = s.sink
           /\ SendTo(s, c).queue = Append(s.queue, c) /\ SendTo(s, c).file = s.file
           /\ SendTo(s, c).pending = s.pending
           /\ SendTo(s, c).partial = s.partial /\ SendTo(s, c).closed = s.closed
BY DEF Replace, SendTo, Section, SectionShape

\* What the writer does to the section it is of.
Rewritten(s, t) ==
    /\ t.open = s.open /\ t.sink = s.sink
    /\ \/ /\ t.file = s.file /\ t.queue = s.queue /\ t.pending = s.pending
          /\ t.partial = s.partial
       \/ /\ t.queue = s.queue /\ s.pending # NoChunk /\ t.pending = NoChunk
          /\ t.partial \/ (t.file = <<s.pending>> /\ t.partial = s.partial)
          /\ t.file \in {s.file, <<s.pending>>}
       \/ /\ s.queue # <<>> /\ t.queue = Tail(s.queue) /\ t.pending = s.pending
          /\ t.partial \/ (t.file = Append(s.file, Head(s.queue)) /\ t.partial = s.partial)
          /\ t.file \in {s.file, Append(s.file, Head(s.queue))}

LEMMA WriterEffects ==
    ASSUME CaptureTypes, NEW n \in Sections, Writer(n)
    PROVE  /\ \A m \in Sections : m # n => sec'[m] = sec[m]
           /\ Rewritten(sec[n], sec'[n])
           /\ ~sec[n].closed
           /\ sec[n].open => sec[n].queue # <<>> \/ sec[n].pending # NoChunk
<1>1. sec \in [Sections -> Section] /\ sec[n] \in Section
  BY DEF CaptureTypes
<1> DEFINE s == sec[n]
<1>2. s \in Section
  BY <1>1
<1>3. ASSUME NEW c, NEW t \in Written(s, c)
      PROVE  /\ t.open = s.open /\ t.sink = s.sink /\ t.queue = s.queue
             /\ t.pending = s.pending
             /\ t.partial \/ (t.file = c /\ t.partial = s.partial)
             /\ t.file \in {s.file, c}
             /\ t \in [open : BOOLEAN, sink : BOOLEAN, queue : {t.queue}, pending : {t.pending},
                       sealed : BOOLEAN, file : {t.file}, partial : BOOLEAN, closed : BOOLEAN]
  BY <1>2, <1>3 DEF Written, Section, SectionShape
<1>4. CASE ApplyReplace(n)
  <2>1. PICK t \in Written(s, <<s.pending>>) :
           sec' = [sec EXCEPT ![n] = [t EXCEPT !.pending = NoChunk]]
    BY <1>4 DEF ApplyReplace
  <2>2. ~s.sealed /\ s.pending # NoChunk
    BY <1>4 DEF ApplyReplace
  <2>3. ~s.closed
    BY <1>2, <2>2 DEF Section
  <2>4. Rewritten(s, [t EXCEPT !.pending = NoChunk])
    <3> HIDE DEF s
    <3> QED
      BY <1>3, <2>2 DEF Rewritten
  <2> QED
    BY <1>1, <2>1, <2>2, <2>3, <2>4
<1>5. CASE WriteAppend(n)
  <2>1. PICK t \in Written(s, Append(s.file, Head(s.queue))) :
           sec' = [sec EXCEPT ![n] = [t EXCEPT !.queue = Tail(@)]]
    BY <1>5 DEF WriteAppend
  <2>2. s.queue # <<>>
    BY <1>5 DEF WriteAppend
  <2>3. ~s.closed
    BY <1>2, <2>2 DEF Section
  <2>4. Rewritten(s, [t EXCEPT !.queue = Tail(@)])
    <3> DEFINE c == Append(s.file, Head(s.queue))
               u == [t EXCEPT !.queue = Tail(@)]
    <3>1. /\ t.open = s.open /\ t.sink = s.sink /\ t.queue = s.queue
          /\ t.pending = s.pending
          /\ t.partial \/ (t.file = c /\ t.partial = s.partial)
          /\ t.file \in {s.file, c}
          /\ t \in [open : BOOLEAN, sink : BOOLEAN, queue : {t.queue}, pending : {t.pending},
                    sealed : BOOLEAN, file : {t.file}, partial : BOOLEAN, closed : BOOLEAN]
      BY <1>3
    <3> HIDE DEF s, c
    <3>2. /\ u.open = t.open /\ u.sink = t.sink /\ u.queue = Tail(t.queue)
          /\ u.pending = t.pending /\ u.partial = t.partial /\ u.file = t.file
      BY <3>1
    <3> HIDE DEF u
    <3>3. Rewritten(s, u)
      BY <2>2, <3>1, <3>2 DEF Rewritten, c
    <3> QED
      BY <3>3 DEF u
  <2> QED
    BY <1>1, <2>1, <2>2, <2>3, <2>4
<1>6. CASE Seal(n)
  <2>1. PICK t \in IF s.pending = NoChunk THEN {s} ELSE Written(s, <<s.pending>>) :
           sec' = [sec EXCEPT ![n] = [t EXCEPT !.pending = NoChunk, !.sealed = TRUE]]
    BY <1>6 DEF Seal
  <2>2. ~s.sealed /\ ~s.open
    BY <1>6 DEF Seal
  <2>3. ~s.closed
    BY <1>2, <2>2 DEF Section
  <2>4. Rewritten(s, [t EXCEPT !.pending = NoChunk, !.sealed = TRUE])
    <3>1. CASE s.pending = NoChunk
      BY <1>2, <2>1, <3>1 DEF Rewritten, Section, SectionShape
    <3>2. CASE s.pending # NoChunk
      <4> HIDE DEF s
      <4> QED
        BY <1>3, <2>1, <3>2 DEF Rewritten
    <3> QED
      BY <3>1, <3>2
  <2> QED
    BY <1>1, <2>1, <2>2, <2>3, <2>4
<1>7. CASE Flush(n)
  <2>1. sec' = [sec EXCEPT ![n] = [s EXCEPT !.closed = TRUE]] /\ ~s.closed /\ ~s.open
    BY <1>1, <1>7 DEF Flush, Section
  <2>2. Rewritten(s, [s EXCEPT !.closed = TRUE])
    BY <1>2 DEF Rewritten, Section, SectionShape
  <2> QED
    BY <1>1, <2>1, <2>2
<1> QED
  BY <1>4, <1>5, <1>6, <1>7 DEF Writer

\* Steps that change no other section, and of the served side nothing.
ServedAside == sec'["served"] = sec["served"] /\ body' = body

LEMMA ServedKept ==
    ASSUME CaptureTypes, CaptureAssumption, SidesInv, ServedInv, [Next]_vars
    PROVE  ServedInv'
<1>1. /\ sec \in [Sections -> Section] /\ Served \in Section /\ BodyShape(body)
      /\ {"request", "response", "served"} \subseteq Sections
      /\ body.sent \in Nat /\ body.partial \in BOOLEAN /\ body.ended \in BOOLEAN
      /\ Served.file \in Seq(Chunk) /\ Served.queue \in Seq(Chunk)
      /\ Served.partial \in BOOLEAN
  BY DEF CaptureTypes, Served, Sections, BodyShape, Section, SectionShape
<1>2. CASE ServedAside
  BY <1>2 DEF ServedInv, Served, ServedAside, Reported
<1>3. ASSUME NEW n \in Sections, Writer(n)
      PROVE  ServedInv'
  <2>1. body' = body
    BY <1>3 DEF Writer
  <2>2. CASE n # "served"
    BY <1>1, <1>2, <1>3, <2>1, <2>2, WriterEffects DEF ServedAside
  <2>3. CASE n = "served"
    <3>1. Rewritten(Served, Served')
      BY <1>1, <1>3, <2>3, WriterEffects DEF Served
    <3>2. Served.partial => Served'.partial
      BY <1>1, <3>1 DEF Rewritten
    <3>3. /\ Served'.open = Served.open /\ Served'.sink = Served.sink
          /\ Served'.pending = NoChunk
      BY <3>1 DEF Rewritten, ServedInv
    <3>4. Served'.partial \/ Served'.file \o Served'.queue = Served.file \o Served.queue
      <4>1. CASE Served'.file = Served.file /\ Served'.queue = Served.queue
        BY <4>1
      <4>2. CASE /\ Served.queue # <<>> /\ Served'.queue = Tail(Served.queue)
                 /\ Served'.file = Append(Served.file, Head(Served.queue))
        <5>1. Append(Served.file, Head(Served.queue)) \o Tail(Served.queue)
                = Served.file \o Served.queue
          <6> DEFINE f == Served.file
                     q == Served.queue
          <6>1. f \in Seq(Chunk) /\ q \in Seq(Chunk) /\ q # <<>>
            BY <1>1, <4>2
          <6> HIDE DEF f, q
          <6>2. Append(f, Head(q)) \o Tail(q) = f \o q
            BY <6>1
          <6> QED
            BY <6>2 DEF f, q
        <5> QED
          BY <4>2, <5>1
      <4> QED
        BY <3>1, <4>1, <4>2 DEF Rewritten, ServedInv
    <3> QED
      BY <2>1, <3>2, <3>3, <3>4 DEF ServedInv, Reported
  <2> QED
    BY <2>2, <2>3
<1>4. CASE Respond
  <2>1. Served' = TakeSink(Served) /\ body' = [body EXCEPT !.at = "live"]
    BY <1>1, <1>4 DEF Respond, Served
  <2>2. /\ body'.at = "live" /\ body'.sent = body.sent
    BY <1>1, <2>1 DEF BodyShape
  <2>3. Served.open
    BY <1>4 DEF Respond, SidesInv, ServedInv
  <2> QED
    BY <1>1, <2>1, <2>2, <2>3, OpEffects DEF ServedInv, Reported
<1>5. CASE BackstopServed \/ BodyDropped
  <2>1. sec' = sec
    BY <1>5 DEF BackstopServed, BodyDropped
  <2>2. CASE body' = body
    BY <1>2, <2>1, <2>2 DEF ServedAside
  <2>3. ASSUME NEW p \in BOOLEAN, p \/ body.ended, ServedDone(p), body.at # "over"
        PROVE  ServedInv'
    <3>1. /\ body'.at \in {"closing", "closing last"} /\ body'.sent = body.sent
          /\ body'.ended = body.ended /\ body'.partial = p
      BY <1>1, <2>3 DEF ServedDone, BodyShape
    <3> QED
      BY <2>1, <2>3, <3>1 DEF ServedInv, Served, Reported
  <2>4. CASE BackstopServed /\ ~flags.teed
    BY <2>3, <2>4 DEF BackstopServed, SidesInv
  <2>5. CASE BodyDropped
    <3>1. (~body.ended) \in BOOLEAN /\ ServedDone(~body.ended) /\ body.at # "over"
      BY <2>5 DEF BodyDropped
    <3>2. (~body.ended) \/ body.ended
      BY <1>1
    <3> QED
      BY <2>3, <3>1, <3>2
  <2> QED
    BY <1>5, <2>2, <2>4, <2>5 DEF BackstopServed
<1>6. CASE CloseServed
  <2>1. /\ Served' = DropSink(Close(Served, body.partial))
        /\ body' = [body EXCEPT !.at = "over"] /\ Reported
    BY <1>1, <1>6 DEF CloseServed, Served, Reported
  <2>2. /\ body'.at = "over" /\ body'.sent = body.sent /\ body'.ended = body.ended
        /\ body'.partial = body.partial
    BY <1>1, <2>1 DEF BodyShape
  <2>3. /\ Served'.pending = Served.pending
        /\ Served'.partial = (Served.partial \/ body.partial)
        /\ Served'.file = Served.file /\ Served'.queue = Served.queue
    <3>1. Close(Served, body.partial) \in Section
      BY <1>1, OpTypes
    <3> QED
      BY <1>1, <2>1, <3>1, OpEffects, CloseEffects
  <2> QED
    BY <1>1, <2>1, <2>2, <2>3 DEF ServedInv, Reported
<1>7. CASE BodyFrame
  <2> DEFINE c == <<0, body.sent + 1>>
  <2>1. c \in Chunk
    BY <1>1, CaptureAssumption DEF Chunk, CaptureAssumption
  <2>2. Served' = SendTo(Served, c) /\ body' = [body EXCEPT !.sent = @ + 1] /\ body.at = "live"
    BY <1>1, <1>7 DEF BodyFrame, Served
  <2>3. /\ body'.at = "live" /\ body'.sent = body.sent + 1
    BY <1>1, <2>2 DEF BodyShape
  <2>4. /\ Served'.open /\ Served'.sink /\ Served'.pending = NoChunk
        /\ Served'.partial = Served.partial
        /\ Served'.file = Served.file /\ Served'.queue = Append(Served.queue, c)
    <3> HIDE DEF c
    <3> QED
      BY <1>1, <2>1, <2>2, ChunkEffects DEF ServedInv
  <2>5. ASSUME ~Served.partial
        PROVE  Served'.file \o Served'.queue = [k \in 1..body'.sent |-> <<0, k>>]
    <3> DEFINE f == Served.file
               q == Served.queue
               N == body.sent
    <3>1. f \in Seq(Chunk) /\ q \in Seq(Chunk) /\ N \in Nat
      BY <1>1
    <3>2. f \o q = [k \in 1..N |-> <<0, k>>]
      BY <2>5 DEF ServedInv
    <3> HIDE DEF f, q, N, c
    <3>3. f \o Append(q, c) = Append(f \o q, c)
      BY <2>1, <3>1
    <3>4. f \o q \in Seq(Chunk)
      BY <3>1
    <3>5. Len(f \o q) = N
      BY <3>1, <3>2
    <3>6. Append(f \o q, c) = [k \in 1..(N + 1) |-> <<0, k>>]
      <4> DEFINE g == f \o q
                 h == [k \in 1..(N + 1) |-> <<0, k>>]
      <4>1. g \in Seq(Chunk) /\ Len(g) = N /\ \A k \in 1..N : g[k] = <<0, k>>
        BY <3>2, <3>4, <3>5
      <4>2. c = <<0, N + 1>>
        BY DEF c, N
      <4> HIDE DEF g
      <4>3. /\ Append(g, c) \in Seq(Chunk) /\ Len(Append(g, c)) = N + 1
            /\ \A k \in 1..N : Append(g, c)[k] = g[k]
            /\ Append(g, c)[N + 1] = c
        BY <2>1, <4>1
      <4>4. \A k \in 1..(N + 1) : Append(g, c)[k] = <<0, k>>
        BY <3>1, <4>1, <4>2, <4>3
      <4>5. h \in Seq(Chunk) /\ Len(h) = N + 1
        <5>1. h \in [1..(N + 1) -> Chunk]
          BY <3>1, CaptureAssumption DEF Chunk, CaptureAssumption
        <5> QED
          BY <3>1, <5>1, SeqDef
      <4>6. \A k \in 1..(N + 1) : h[k] = <<0, k>>
        OBVIOUS
      <4>7. Append(g, c) = h
        <5> HIDE DEF h
        <5> QED
          BY <4>3, <4>4, <4>5, <4>6, SeqEqual
      <4> QED
        BY <4>7 DEF g
    <3> QED
      BY <2>3, <2>4, <3>3, <3>6 DEF f, q, N
  <2> QED
    BY <2>3, <2>4, <2>5 DEF ServedInv, Reported
<1>8. CASE BodyEnds
  <2>1. Served' = Served /\ body' = [body EXCEPT !.ended = TRUE] /\ body.at = "live"
    BY <1>8 DEF BodyEnds, Served
  <2>2. body'.at = "live" /\ body'.sent = body.sent
    BY <1>1, <2>1 DEF BodyShape
  <2> QED
    BY <2>1, <2>2 DEF ServedInv, Reported
<1>9. CASE HandlerDropped \/ BackstopEngine \/ Claim \/ Spawn \/ Reset \/ CaptureRequest
           \/ Shrink \/ SendFails \/ HttpFails
  BY <1>1, <1>2, <1>9
  DEF ServedAside, HandlerDropped, BackstopEngine, Claim, Spawn, Reset, CaptureRequest,
      Shrink, SendFails, HttpFails, Leaf
<1>10. CASE TapStarts \/ RawChunk \/ SendChunk \/ RawEnds \/ RawFails \/ StreamDropped
            \/ Finalize \/ Abandon \/ GuardDropped
  BY <1>1, <1>2, <1>10
  DEF ServedAside, TapStarts, RawChunk, SendChunk, RawEnds, RawFails, StreamDropped,
      Finalize, Abandon, GuardDropped, Leaf
<1>11. CASE Assembly
  BY <1>1, <1>2, <1>11
  DEF ServedAside, Assembly, CloseRequest, ResolveResponse, Build, Evict, RemoveWorkDir,
      Publish, AsmGoto
<1>12. CASE UNCHANGED vars
  BY <1>2, <1>12 DEF vars, ServedAside
<1> QED
  BY <1>3, <1>4, <1>5, <1>6, <1>7, <1>8, <1>9, <1>10, <1>11, <1>12
  DEF Next, Middleware, Body, Engine

-----------------------------------------------------------------------------
(* The request section. *)

\* Steps that leave the request section, and what was captured of it, alone.
RequestAside ==
    /\ sec'["request"] = sec["request"]
    /\ asm' \in {"idle", "request"} => asm \in {"idle", "request"}
    /\ Captured' => Captured /\ flags'.written = flags.written /\ last'.send = last.send

LEMMA RequestKept ==
    ASSUME CaptureTypes, CaptureAssumption, SidesInv, AttemptInv, RequestInv, [Next]_vars
    PROVE  RequestInv'
<1>1. /\ sec \in [Sections -> Section] /\ Request \in Section
      /\ BarrierShape(barrier) /\ FlagsShape(flags) /\ AttemptShape(last)
      /\ {"request", "response", "served"} \subseteq Sections
      /\ last.send \in 0..MaxSends /\ Request.partial \in BOOLEAN
      /\ Request.sealed => ~Request.open
      /\ flags.written \in BOOLEAN /\ last.body \in BOOLEAN /\ flags.streamed \in BOOLEAN
  BY DEF CaptureTypes, Request, Sections, AttemptShape, FlagsShape, Section, SectionShape
<1>2. CASE RequestAside
  BY <1>2 DEF RequestInv, RequestAside, Request
<1>3. ASSUME NEW n \in Sections, Writer(n)
      PROVE  RequestInv'
  <2>1. turn' = turn /\ flags' = flags /\ last' = last /\ asm' = asm
    BY <1>3 DEF Writer
  <2>2. CASE n # "request"
    BY <1>1, <1>2, <1>3, <2>1, <2>2, WriterEffects DEF RequestAside, Captured
  <2>3. CASE n = "request"
    <3>1. Rewritten(Request, Request')
      BY <1>1, <1>3, <2>3, WriterEffects DEF Request
    <3>2. Request'.open = Request.open /\ Request'.queue = <<>>
      BY <3>1 DEF Rewritten, RequestInv
    <3>3. Whole(last.send) # NoChunk
      BY <1>1, ChunkTypes
    <3>4. ASSUME Captured
          PROVE  \/ Request'.pending = Whole(last.send)
                 \/ /\ Request'.pending = NoChunk
                    /\ Request'.partial \/ Request'.file = <<Whole(last.send)>>
      <4>1. \/ Request.pending = Whole(last.send)
            \/ /\ Request.pending = NoChunk
               /\ Request.partial \/ Request.file = <<Whole(last.send)>>
        BY <3>4 DEF RequestInv
      <4>2. Request.queue = <<>>
        BY DEF RequestInv
      <4> QED
        BY <1>1, <3>1, <3>3, <4>1, <4>2 DEF Rewritten
    <3> QED
      BY <2>1, <3>2, <3>4 DEF RequestInv, Captured
  <2> QED
    BY <2>2, <2>3
<1>4. CASE CaptureRequest
  <2>1. /\ turn = "redacting" /\ turn' = "sent" /\ last' = last /\ asm' = asm
        /\ Request' = Replace(Request, Whole(last.send))
        /\ flags' = [flags EXCEPT !.written = @ \/ ~Request.sealed]
    BY <1>1, <1>4 DEF CaptureRequest, Goto, Leaf, Request
  <2>2. asm = "idle"
    BY <1>1, <2>1 DEF SidesInv
  <2>3. ~Request.sealed /\ Request.open
    BY <1>1, <2>2 DEF RequestInv
  <2>4. /\ Request'.pending = Whole(last.send) /\ Request'.open /\ Request'.queue = <<>>
    BY <1>1, <2>1, <2>3, ChunkTypes, ChunkEffects DEF RequestInv
  <2>5. flags'.written
    BY <1>1, <2>1, <2>3 DEF FlagsShape
  <2> QED
    BY <2>1, <2>4, <2>5 DEF RequestInv
<1>5. CASE CloseRequest
  <2>1. /\ turn' = turn /\ flags' = flags /\ last' = last /\ asm' = "resolve"
        /\ Request' = Close(Request, FALSE)
    BY <1>1, <1>5 DEF CloseRequest, AsmGoto, Request
  <2>2. /\ Request'.queue = Request.queue /\ Request'.pending = Request.pending
        /\ Request'.partial = Request.partial /\ Request'.file = Request.file
    <3>1. /\ Request'.queue = Request.queue /\ Request'.pending = Request.pending
          /\ Request'.partial = (Request.partial \/ FALSE) /\ Request'.file = Request.file
      BY <1>1, <2>1, CloseEffects
    <3> QED
      BY <1>1, <3>1
  <2> QED
    BY <2>1, <2>2 DEF RequestInv, Captured
<1>6. CASE Respond
  <2>1. flags' = [flags EXCEPT !.teed = TRUE] /\ turn' = turn /\ last' = last /\ asm' = asm
    BY <1>6 DEF Respond
  <2>2. flags'.written = flags.written /\ flags'.streamed = flags.streamed
    BY <1>1, <2>1 DEF FlagsShape
  <2> QED
    BY <1>1, <1>2, <1>6, <2>1, <2>2 DEF Respond, RequestAside, Captured
<1>7. CASE HandlerDropped \/ Body
  BY <1>1, <1>2, <1>7
  DEF HandlerDropped, Body, BodyFrame, BodyEnds, BodyDropped, Tee, RequestAside, Captured
<1>8. CASE BackstopEngine \/ BackstopServed \/ CloseServed
  <2>1. turn' = turn /\ flags' = flags /\ last' = last /\ sec'["request"] = sec["request"]
    BY <1>1, <1>8 DEF BackstopEngine, BackstopServed, CloseServed
  <2>2. asm' \in {"idle", "request"} => asm \in {"idle", "request"}
    BY <1>1, <1>8 DEF BackstopEngine, BackstopServed, CloseServed, EngineDone, SidesInv
  <2> QED
    BY <1>2, <2>1, <2>2 DEF RequestAside, Captured
<1>9. CASE Finalize \/ GuardDropped
  <2>1. flags' = flags /\ last' = last /\ sec'["request"] = sec["request"]
    BY <1>1, <1>9 DEF Finalize, GuardDropped
  <2>2. asm' \in {"idle", "request"} => asm \in {"idle", "request"}
    BY <1>1, <1>9 DEF Finalize, GuardDropped, EngineDone, SidesInv
  <2>3. Captured' => Captured
    BY <1>9, <2>1 DEF Finalize, GuardDropped, Goto, Captured
  <2> QED
    BY <1>2, <2>1, <2>2, <2>3 DEF RequestAside
<1>10. CASE Claim
  <2>1. flags' = [flags EXCEPT !.claimed = TRUE] /\ turn' = "prep" /\ last' = last /\ asm' = asm
        /\ sec' = sec
    BY <1>10 DEF Claim, Goto, Leaf
  <2>2. flags'.written = flags.written /\ flags'.streamed = flags.streamed
    BY <1>1, <2>1 DEF FlagsShape
  <2> QED
    BY <1>2, <2>1, <2>2 DEF RequestAside, Captured
<1>11. CASE Spawn \/ SendFails \/ TapStarts \/ SendChunk \/ RawFails \/ StreamDropped
            \/ Abandon
  <2>1. flags' = flags /\ last' = last /\ asm' = asm /\ sec'["request"] = sec["request"]
    BY <1>1, <1>11 DEF Spawn, SendFails, TapStarts, SendChunk, RawFails, StreamDropped,
                       Abandon, Leaf
  <2>2. Captured' => Captured
    BY <1>11, <2>1 DEF Spawn, SendFails, TapStarts, SendChunk, RawFails, StreamDropped,
                       Abandon, Goto, Captured
  <2> QED
    BY <1>2, <2>1, <2>2 DEF RequestAside
<1>12. CASE Reset
  <2>1. /\ flags' = [flags EXCEPT !.streamed = FALSE] /\ turn' = "redacting"
        /\ last' = [Nothing EXCEPT !.send = last.send + 1] /\ asm' = asm
        /\ sec'["request"] = sec["request"]
    BY <1>1, <1>12 DEF Reset, Goto
  <2>2. ~flags'.streamed /\ ~last'.body
    BY <1>1, <2>1 DEF FlagsShape, Nothing
  <2> QED
    BY <1>2, <2>1, <2>2 DEF RequestAside, Captured
<1>13. CASE Shrink
  <2>1. /\ flags' = flags /\ turn = "sent" /\ turn' = "redacting"
        /\ last' = [last EXCEPT !.send = @ + 1] /\ asm' = asm /\ sec' = sec
    BY <1>13 DEF Shrink, Goto, Leaf
  <2>2. ~flags.streamed /\ ~last.body
    BY <2>1 DEF AttemptInv, Dispatching
  <2>3. ~last'.body
    BY <1>1, <2>1, <2>2 DEF AttemptShape
  <2> QED
    BY <1>2, <2>1, <2>2, <2>3 DEF RequestAside, Captured
<1>14. CASE HttpFails
  <2>1. /\ flags' = flags /\ turn = "sent" /\ last' = [last EXCEPT !.body = TRUE]
        /\ asm' = asm /\ sec' = sec
    BY <1>14 DEF HttpFails, Goto, Leaf
  <2>2. last'.send = last.send
    BY <1>1, <2>1 DEF AttemptShape
  <2> QED
    BY <1>2, <2>1, <2>2 DEF RequestAside, Captured
<1>15. CASE RawChunk \/ RawEnds
  <2>1. /\ flags' = [flags EXCEPT !.streamed = TRUE] /\ turn = "tapping"
        /\ asm' = asm /\ sec'["request"] = sec["request"]
        /\ \/ last' = [last EXCEPT !.chunks = Append(@, <<last.send, Len(@) + 1>>)]
           \/ last' = [last EXCEPT !.clean = TRUE]
    BY <1>1, <1>15 DEF RawChunk, RawEnds, Goto, Leaf
  <2>2. last'.send = last.send
    BY <1>1, <2>1 DEF AttemptShape
  <2>3. flags'.written = flags.written
    BY <1>1, <2>1 DEF FlagsShape
  <2> QED
    BY <1>2, <2>1, <2>2, <2>3 DEF RequestAside, Captured
<1>16. CASE Build \/ Evict \/ RemoveWorkDir \/ Publish
  BY <1>2, <1>16 DEF Build, Evict, RemoveWorkDir, Publish, AsmGoto, RequestAside, Captured
<1>17. CASE ResolveResponse
  <2>1. /\ turn' = turn /\ last' = last /\ asm' = "await" /\ sec'["request"] = sec["request"]
        /\ \E b : flags' = [flags EXCEPT !.present = b]
    BY <1>1, <1>17 DEF ResolveResponse, AsmGoto
  <2>2. flags'.written = flags.written /\ flags'.streamed = flags.streamed
    BY <1>1, <2>1 DEF FlagsShape
  <2> QED
    BY <1>2, <2>1, <2>2 DEF RequestAside, Captured
<1>18. CASE UNCHANGED vars
  BY <1>2, <1>18 DEF vars, RequestAside, Captured
<1> QED
  BY <1>3, <1>4, <1>5, <1>6, <1>7, <1>8, <1>9, <1>10, <1>11, <1>12, <1>13, <1>14, <1>15,
     <1>16, <1>17, <1>18 DEF Next, Middleware, Engine, Assembly

-----------------------------------------------------------------------------
(* The last attempt and its response section. *)

AttemptAside ==
    /\ last' = last /\ staged' = staged /\ flags'.streamed = flags.streamed
    /\ turn' \in {"redacting", "sent"} => turn \in {"redacting", "sent"}
    /\ Dispatching' => Dispatching
    /\ turn' = "reserving" => turn = "reserving"
    /\ Unresolved' => Unresolved

LEMMA AttemptKept ==
    ASSUME CaptureTypes, CaptureAssumption, SidesInv, AttemptInv, [Next]_vars
    PROVE  AttemptInv'
<1>1. /\ BarrierShape(barrier) /\ FlagsShape(flags) /\ AttemptShape(last)
      /\ last.send \in 0..MaxSends /\ last.chunks \in Seq(Chunk)
      /\ last.body \in BOOLEAN /\ flags.streamed \in BOOLEAN /\ last.clean \in BOOLEAN
  BY DEF CaptureTypes, AttemptShape, FlagsShape
<1>2. CASE AttemptAside
  BY <1>2 DEF AttemptInv, AttemptAside
<1>3. ASSUME NEW n \in Sections, Writer(n)
      PROVE  AttemptInv'
  BY <1>2, <1>3 DEF Writer, AttemptAside, Dispatching, Unresolved
<1>4. CASE Respond \/ Claim
  <2>1. /\ last' = last /\ staged' = staged /\ asm' = asm
        /\ turn' = turn \/ turn' = "prep"
        /\ \/ flags' = [flags EXCEPT !.teed = TRUE]
           \/ flags' = [flags EXCEPT !.claimed = TRUE]
    BY <1>4 DEF Respond, Claim, Goto, Leaf
  <2>2. flags'.streamed = flags.streamed
    BY <1>1, <2>1 DEF FlagsShape
  <2> QED
    BY <1>2, <2>1, <2>2 DEF AttemptAside, Dispatching, Unresolved
<1>5. CASE HandlerDropped \/ Body
  BY <1>2, <1>5
  DEF HandlerDropped, Body, BodyFrame, BodyEnds, BodyDropped, Tee, AttemptAside, Dispatching,
      Unresolved
<1>6. CASE BackstopEngine \/ BackstopServed \/ CloseServed
  <2>1. turn' = turn /\ flags' = flags /\ last' = last /\ staged' = staged
    BY <1>6 DEF BackstopEngine, BackstopServed, CloseServed
  <2>2. Unresolved' => Unresolved
    BY <1>6 DEF BackstopEngine, BackstopServed, CloseServed, EngineDone, SidesInv, Unresolved
  <2> QED
    BY <1>2, <2>1, <2>2 DEF AttemptAside, Dispatching
<1>7. CASE Finalize \/ GuardDropped
  <2>1. flags' = flags /\ last' = last /\ staged' = staged /\ turn' \in {"guard", "over"}
    BY <1>7 DEF Finalize, GuardDropped, Goto
  <2>2. Unresolved' => Unresolved
    BY <1>7 DEF Finalize, GuardDropped, EngineDone, SidesInv, Unresolved
  <2> QED
    BY <1>2, <2>1, <2>2 DEF AttemptAside, Dispatching
<1>8. CASE Spawn \/ SendFails \/ RawFails \/ StreamDropped \/ Abandon
  BY <1>2, <1>8
  DEF Spawn, SendFails, RawFails, StreamDropped, Abandon, Goto, Leaf, AttemptAside,
      Dispatching, Unresolved
<1>9. CASE CaptureRequest
  <2>1. /\ last' = last /\ staged' = staged /\ asm' = asm
        /\ turn = "redacting" /\ turn' = "sent"
        /\ flags' = [flags EXCEPT !.written = @ \/ ~sec["request"].sealed]
    BY <1>9 DEF CaptureRequest, Goto, Leaf
  <2>2. flags'.streamed = flags.streamed
    BY <1>1, <2>1 DEF FlagsShape
  <2> QED
    BY <1>2, <2>1, <2>2 DEF AttemptAside, Dispatching, Unresolved
<1>10. CASE TapStarts \/ SendChunk
  BY <1>10 DEF TapStarts, SendChunk, Goto, Leaf, AttemptInv, Dispatching, Unresolved
<1>11. CASE Reset
  <2>1. /\ flags' = [flags EXCEPT !.streamed = FALSE] /\ turn' = "redacting" /\ staged' = 0
        /\ last' = [Nothing EXCEPT !.send = last.send + 1]
    BY <1>11 DEF Reset, Goto
  <2>2. /\ ~flags'.streamed /\ ~last'.body /\ ~last'.clean /\ last'.chunks = <<>>
        /\ last'.send = last.send + 1
    BY <1>1, <2>1 DEF FlagsShape, Nothing
  <2>3. last'.send # 0
    BY <1>1, <2>2
  <2> QED
    BY <2>1, <2>2, <2>3 DEF AttemptInv, Dispatching
<1>12. CASE Shrink
  <2>1. /\ flags' = flags /\ turn = "sent" /\ turn' = "redacting"
        /\ last' = [last EXCEPT !.send = @ + 1] /\ asm' = asm /\ staged' = staged
    BY <1>12 DEF Shrink, Goto, Leaf
  <2>2. /\ last'.body = last.body /\ last'.clean = last.clean /\ last'.chunks = last.chunks
        /\ last'.send = last.send + 1
    BY <1>1, <2>1 DEF AttemptShape
  <2>3. last'.send # 0
    BY <1>1, <2>2
  <2> QED
    BY <2>1, <2>2, <2>3 DEF AttemptInv, Dispatching, Unresolved
<1>13. CASE HttpFails
  <2>1. /\ flags' = flags /\ turn = "sent" /\ turn' = "running" /\ staged' = last.send
        /\ last' = [last EXCEPT !.body = TRUE] /\ asm' = asm
    BY <1>13 DEF HttpFails, Goto, Leaf
  <2>2. /\ last'.body /\ last'.clean = last.clean /\ last'.chunks = last.chunks
        /\ last'.send = last.send
    BY <1>1, <2>1 DEF AttemptShape
  <2> QED
    BY <2>1, <2>2 DEF AttemptInv, Dispatching, Unresolved
<1>14. CASE RawChunk
  <2>1. /\ flags' = [flags EXCEPT !.streamed = TRUE] /\ turn = "tapping" /\ turn' = "reserving"
        /\ asm' = asm /\ staged' = staged
        /\ last' = [last EXCEPT !.chunks = Append(@, <<last.send, Len(@) + 1>>)]
    BY <1>14 DEF RawChunk, Goto, Leaf
  <2>2. /\ last'.body = last.body /\ last'.clean = last.clean
        /\ last'.chunks = Append(last.chunks, <<last.send, Len(last.chunks) + 1>>)
        /\ last'.send = last.send /\ flags'.streamed
    BY <1>1, <2>1 DEF AttemptShape, FlagsShape
  <2>3. last'.chunks # <<>>
    <3> DEFINE c == <<last.send, Len(last.chunks) + 1>>
    <3>1. c \in Chunk
      BY <1>1 DEF Chunk
    <3> HIDE DEF c
    <3>2. Append(last.chunks, c) # <<>>
      BY <1>1, <3>1, AppendProperties
    <3> QED
      BY <2>2, <3>2 DEF c
  <2> QED
    BY <2>1, <2>2, <2>3 DEF AttemptInv, Dispatching, Unresolved
<1>15. CASE RawEnds
  <2>1. /\ flags' = [flags EXCEPT !.streamed = TRUE] /\ turn = "tapping" /\ turn' = "running"
        /\ asm' = asm /\ staged' = staged /\ last' = [last EXCEPT !.clean = TRUE]
    BY <1>15 DEF RawEnds, Goto, Leaf
  <2>2. /\ last'.body = last.body /\ last'.clean /\ last'.chunks = last.chunks
        /\ last'.send = last.send /\ flags'.streamed
    BY <1>1, <2>1 DEF AttemptShape, FlagsShape
  <2> QED
    BY <2>1, <2>2 DEF AttemptInv, Dispatching, Unresolved
<1>16. CASE CloseRequest \/ Build \/ Evict \/ RemoveWorkDir \/ Publish
  BY <1>2, <1>16 DEF CloseRequest, Build, Evict, RemoveWorkDir, Publish, AsmGoto, AttemptAside,
                     Dispatching, Unresolved
<1>17. CASE ResolveResponse
  <2>1. /\ turn' = turn /\ last' = last /\ asm' = "await"
        /\ \E b : flags' = [flags EXCEPT !.present = b]
    BY <1>17 DEF ResolveResponse, AsmGoto
  <2>2. flags'.streamed = flags.streamed
    BY <1>1, <2>1 DEF FlagsShape
  <2> QED
    BY <2>1, <2>2 DEF AttemptInv, Dispatching, Unresolved
<1>18. CASE UNCHANGED vars
  BY <1>2, <1>18 DEF vars, AttemptAside, Dispatching, Unresolved
<1> QED
  BY <1>3, <1>4, <1>5, <1>6, <1>7, <1>8, <1>9, <1>10, <1>11, <1>12, <1>13, <1>14, <1>15,
     <1>16, <1>17, <1>18 DEF Next, Middleware, Engine, Assembly

-----------------------------------------------------------------------------
(* The response section. *)

\* Facts about the ends and the members of a sequence.
LEMMA SeqFacts ==
    ASSUME NEW S, NEW q \in Seq(S)
    PROVE  /\ ToSet(<<>>) = {} /\ \A x : ToSet(<<x>>) = {x}
           /\ \A x \in S : /\ ToSet(Append(q, x)) = ToSet(q) \cup {x}
                           /\ Front(Append(q, x)) = q
           /\ q # <<>> => /\ Head(q) \in ToSet(q) /\ ToSet(Tail(q)) \subseteq ToSet(q)
                          /\ Last(q) \in ToSet(q) /\ Last(q) \in S
                          /\ Front(q) \in Seq(S) /\ Append(Front(q), Last(q)) = q
<1>1. ToSet(<<>>) = {} /\ \A x : ToSet(<<x>>) = {x}
  BY DEF ToSet
<1>2. ASSUME NEW x \in S
      PROVE  ToSet(Append(q, x)) = ToSet(q) \cup {x} /\ Front(Append(q, x)) = q
  <2>1. /\ Append(q, x) \in Seq(S) /\ Len(Append(q, x)) = Len(q) + 1 /\ Len(q) \in Nat
        /\ \A k \in 1..Len(q) : Append(q, x)[k] = q[k]
        /\ Append(q, x)[Len(q) + 1] = x
    BY AppendProperties
  <2>2. DOMAIN Append(q, x) = DOMAIN q \cup {Len(q) + 1} /\ DOMAIN q = 1..Len(q)
    BY <2>1
  <2>3. ToSet(Append(q, x)) = ToSet(q) \cup {x}
    BY <2>1, <2>2 DEF ToSet
  <2>4. Front(Append(q, x)) = q
    <3> DEFINE a == Append(q, x)
    <3>1. a \in Seq(S) /\ Len(a) = Len(q) + 1 /\ \A k \in 1..Len(q) : a[k] = q[k] /\ a[k] \in S
      BY <2>1
    <3> HIDE DEF a
    <3>2. /\ SubSeq(a, 1, Len(q)) \in Seq(S) /\ Len(SubSeq(a, 1, Len(q))) = Len(q)
          /\ \A k \in 1..Len(q) : SubSeq(a, 1, Len(q))[k] = a[k]
      BY <2>1, <3>1
    <3>3. SubSeq(a, 1, Len(q)) = q
      BY <3>1, <3>2, SeqEqual
    <3> QED
      BY <2>1, <3>1, <3>3 DEF Front, a
  <2> QED
    BY <2>3, <2>4
<1>3. ASSUME q # <<>>
      PROVE  /\ Head(q) \in ToSet(q) /\ ToSet(Tail(q)) \subseteq ToSet(q)
             /\ Last(q) \in ToSet(q) /\ Last(q) \in S
             /\ Front(q) \in Seq(S) /\ Append(Front(q), Last(q)) = q
  <2>1. Len(q) \in Nat /\ Len(q) # 0 /\ DOMAIN q = 1..Len(q)
    BY <1>3
  <2>2. Head(q) \in ToSet(q) /\ Last(q) \in ToSet(q) /\ Last(q) \in S
    BY <2>1 DEF ToSet, Last
  <2>3. ToSet(Tail(q)) \subseteq ToSet(q)
    <3>1. /\ Tail(q) \in Seq(S) /\ Len(Tail(q)) = Len(q) - 1
          /\ \A k \in 1..Len(Tail(q)) : Tail(q)[k] = q[k + 1]
      BY <1>3, HeadTailProperties
    <3>2. \A k \in DOMAIN Tail(q) : Tail(q)[k] = q[k + 1] /\ k + 1 \in DOMAIN q
      BY <2>1, <3>1
    <3> QED
      BY <3>2 DEF ToSet
  <2>4. Front(q) \in Seq(S) /\ Append(Front(q), Last(q)) = q
    <3> DEFINE n == Len(q) - 1
               f == SubSeq(q, 1, n)
               a == Append(f, q[Len(q)])
    <3>1. n \in Nat /\ Len(q) = n + 1 /\ n <= Len(q)
      BY <2>1
    <3>2. f \in Seq(S) /\ Len(f) = n /\ \A k \in 1..n : f[k] = q[k]
      <4> HIDE DEF n
      <4> QED
        BY <2>1, <3>1
    <3> HIDE DEF f, n
    <3>3. /\ a \in Seq(S) /\ Len(a) = n + 1
          /\ \A k \in 1..n : a[k] = f[k]
          /\ a[n + 1] = q[Len(q)]
      BY <2>2, <3>1, <3>2, AppendProperties DEF Last
    <3> HIDE DEF a
    <3>4. \A k \in 1..(n + 1) : a[k] = q[k]
      BY <3>1, <3>2, <3>3
    <3>5. a = q
      BY <3>1, <3>3, <3>4, SeqEqual
    <3> QED
      BY <3>2, <3>5 DEF Front, Last, f, n, a
  <2> QED
    BY <2>2, <2>3, <2>4
<1> QED
  BY <1>1, <1>2, <1>3

LEMMA AppendFacts ==
    ASSUME NEW S, NEW q \in Seq(S), NEW x \in S
    PROVE  ToSet(Append(q, x)) = ToSet(q) \cup {x} /\ Front(Append(q, x)) = q
BY SeqFacts

\* Writing the head of the queue moves a chunk, and loses none.
LEMMA WrittenThrough ==
    ASSUME NEW S, NEW f \in Seq(S), NEW q \in Seq(S), q # <<>>
    PROVE  Append(f, Head(q)) \o Tail(q) = f \o q
OBVIOUS

\* The step of the response section's writer.
LEMMA ResponseWritten ==
    ASSUME CaptureTypes, CaptureAssumption, ResponseInv, Writer("response")
    PROVE  ResponseInv'
<1> DEFINE R == Response
           W == Whole(last.send)
<1>1. /\ R \in Section /\ "response" \in Sections
      /\ R.file \in Seq(Chunk) /\ R.queue \in Seq(Chunk)
      /\ last.body \in BOOLEAN /\ R.partial \in BOOLEAN
      /\ W # NoChunk /\ W \in Chunk
  BY ChunkTypes DEF CaptureTypes, Response, Sections, AttemptShape, Section, SectionShape
<1>2. turn' = turn /\ flags' = flags /\ last' = last /\ asm' = asm
  BY DEF Writer
<1>3. /\ Rewritten(R, R')
      /\ R.open => R.queue # <<>> \/ R.pending # NoChunk
  BY <1>1, WriterEffects DEF Response
<1>4. R # Fresh
  BY <1>3 DEF Fresh
<1>5. R'.open = R.open /\ R'.sink = R.sink
  BY <1>3 DEF Rewritten
<1>6. R.partial => R'.partial
  BY <1>1, <1>3 DEF Rewritten
<1>7. R.pending # NoChunk => last.body /\ R.pending = W
  BY DEF ResponseInv
<1>8. last.body => R.queue = <<>>
  BY DEF ResponseInv
<1>9. ToSet(R.file) \subseteq ToSet(Received) /\ ToSet(R.queue) \subseteq ToSet(Received)
  BY DEF ResponseInv
<1> HIDE DEF R, W
<1>10. last.body => R'.queue = <<>>
  BY <1>3, <1>8 DEF Rewritten
<1>11. R'.pending # NoChunk => last.body /\ R'.pending = W
  BY <1>3, <1>7 DEF Rewritten
<1>12. ToSet(R'.file) \subseteq ToSet(Received) /\ ToSet(R'.queue) \subseteq ToSet(Received)
  <2>1. CASE R'.file = R.file /\ R'.queue = R.queue
    BY <1>9, <2>1
  <2>2. CASE R'.queue = R.queue /\ R.pending # NoChunk /\ R'.file = <<R.pending>>
    <3>1. ToSet(<<W>>) = {W}
      BY <1>1, SeqFacts
    <3> QED
      BY <1>7, <1>9, <2>2, <3>1 DEF Received, W
  <2>3. CASE /\ R.queue # <<>> /\ R'.queue = Tail(R.queue)
             /\ R'.file \in {R.file, Append(R.file, Head(R.queue))}
    <3> DEFINE q == R.queue
               f == R.file
    <3>1. q \in Seq(Chunk) /\ q # <<>> /\ f \in Seq(Chunk)
      BY <1>1, <2>3
    <3> HIDE DEF q, f
    <3>2. Head(q) \in ToSet(q) /\ ToSet(Tail(q)) \subseteq ToSet(q)
      BY <3>1, SeqFacts
    <3>3. Head(q) \in Chunk
      BY <3>1
    <3>4. ToSet(Append(f, Head(q))) = ToSet(f) \cup {Head(q)}
      BY <3>1, <3>3, SeqFacts
    <3>5. /\ ToSet(f) \subseteq ToSet(Received) /\ ToSet(q) \subseteq ToSet(Received)
          /\ R'.queue = Tail(q) /\ R'.file \in {f, Append(f, Head(q))}
      BY <1>9, <2>3 DEF f, q
    <3>6. ToSet(Append(f, Head(q))) \subseteq ToSet(Received)
      BY <3>2, <3>4, <3>5
    <3>7. ToSet(Tail(q)) \subseteq ToSet(Received)
      BY <3>2, <3>5
    <3> QED
      BY <3>5, <3>6, <3>7
  <2> QED
    BY <1>3, <2>1, <2>2, <2>3 DEF Rewritten
<1>13. ASSUME ~last.body
       PROVE  R'.partial \/ R'.file \o R'.queue = R.file \o R.queue
  <2>1. R.pending = NoChunk
    BY <1>7, <1>13
  <2>2. R.queue # <<>> => Append(R.file, Head(R.queue)) \o Tail(R.queue) = R.file \o R.queue
    BY <1>1, WrittenThrough
  <2> QED
    BY <1>3, <2>1, <2>2 DEF Rewritten
<1>14. ASSUME last.body, R.partial \/ R.pending = W \/ R.file = <<W>>
       PROVE  R'.partial \/ R'.pending = W \/ R'.file = <<W>>
  BY <1>1, <1>3, <1>6, <1>7, <1>8, <1>14 DEF Rewritten
<1> QED
  <2>1. R = Response /\ W = Whole(last.send) /\ R' = Response'
    BY DEF R, W
  <2>2. Received' = Received /\ Dispatching' = Dispatching /\ Unresolved' = Unresolved
    BY <1>2 DEF Received, Dispatching, Unresolved
  <2> QED
    BY <1>2, <1>4, <1>5, <1>6, <1>10, <1>11, <1>12, <1>13, <1>14, <2>1, <2>2 DEF ResponseInv

\* An attempt that has received nothing has a fresh section.
LEMMA FreshResponse ==
    ASSUME Response' = Fresh, turn' \in {"redacting", "sent"}, Unresolved',
           ~last'.body, last'.chunks = <<>>
    PROVE  ResponseInv'
<1>1. /\ Fresh.open /\ ~Fresh.partial /\ Fresh.queue = <<>> /\ Fresh.file = <<>>
      /\ Fresh.pending = NoChunk
  BY DEF Fresh
<1>2. ToSet(<<>>) = {} /\ <<>> \o <<>> = <<>>
  BY DEF ToSet
<1> QED
  BY <1>1, <1>2 DEF ResponseInv, Dispatching

\* Steps that leave the response section, and what it answers, alone.
ContentAside ==
    /\ sec'["response"] = sec["response"] /\ last' = last
    /\ flags'.streamed = flags.streamed /\ flags'.present = flags.present
    /\ Unresolved' <=> Unresolved
    /\ \/ turn' = turn
       \/ turn' \in {"redacting", "sent"} /\ turn \in {"redacting", "sent"}
       \/ ~Dispatching' /\ (~Dispatching \/ turn \in {"redacting", "sent"})

LEMMA AsideKeepsResponse ==
    ASSUME CaptureTypes, AttemptInv, ResponseInv, ContentAside
    PROVE  ResponseInv'
<1>1. Response' = Response /\ Received' = Received
  BY DEF ContentAside, Response, Received
<1>2. CASE turn' = turn
  BY <1>1, <1>2 DEF ContentAside, ResponseInv, Dispatching
<1>3. CASE turn' \in {"redacting", "sent"} /\ turn \in {"redacting", "sent"}
  BY <1>1, <1>3 DEF ContentAside, ResponseInv, Dispatching
<1>4. CASE ~Dispatching' /\ (~Dispatching \/ turn \in {"redacting", "sent"})
  <2>1. turn # "reserving" /\ turn' \notin {"redacting", "sent", "tapping", "reserving", "broken"}
    BY <1>4 DEF Dispatching
  <2>2. flags'.streamed => Response.partial \/ last.clean
    BY <1>4 DEF ContentAside, ResponseInv, AttemptInv
  <2> QED
    BY <1>1, <1>4, <2>1, <2>2 DEF ContentAside, ResponseInv
<1> QED
  BY <1>2, <1>3, <1>4 DEF ContentAside

\* What giving up the sink does, at the end of a stream or on a transport error.
LEMMA GivenUp ==
    ASSUME NEW s \in Section
    PROVE  /\ \A p \in BOOLEAN :
                 /\ DropSink(Close(s, p)).pending = s.pending
                 /\ DropSink(Close(s, p)).file = s.file
                 /\ DropSink(Close(s, p)).queue = s.queue
                 /\ DropSink(Close(s, p)).partial = (s.partial \/ p)
           /\ DropSink(Degrade(s)).pending = s.pending
           /\ DropSink(Degrade(s)).file = s.file
           /\ DropSink(Degrade(s)).queue = s.queue
           /\ DropSink(Degrade(s)).open = s.open
           /\ DropSink(Degrade(s)).partial
BY DEF DropSink, Close, Degrade, Section, SectionShape

\* The steps of the attempt that touch the response section.
LEMMA AttemptKeepsResponse ==
    ASSUME CaptureTypes, CaptureAssumption, SidesInv, AttemptInv, ResponseInv,
           \/ Reset \/ Shrink \/ HttpFails \/ TapStarts \/ RawChunk \/ SendChunk
           \/ RawEnds \/ RawFails \/ StreamDropped
    PROVE  ResponseInv'
<1> DEFINE R == Response
<1>1. /\ R \in Section /\ R.file \in Seq(Chunk) /\ R.queue \in Seq(Chunk)
      /\ R.partial \in BOOLEAN /\ R.sink \in BOOLEAN
      /\ sec \in [Sections -> Section] /\ "response" \in Sections
      /\ FlagsShape(flags) /\ AttemptShape(last) /\ BarrierShape(barrier)
      /\ last.chunks \in Seq(Chunk)
  BY DEF CaptureTypes, Response, Sections, AttemptShape, Section, SectionShape
<1>2. asm' = asm
  BY DEF Reset, Shrink, HttpFails, TapStarts, RawChunk, SendChunk, RawEnds, RawFails,
         StreamDropped, Leaf
<1>3. asm = "idle" /\ Unresolved /\ Unresolved'
  <2>1. turn \notin {"handler", "guard", "over"}
    BY DEF Reset, Shrink, HttpFails, TapStarts, RawChunk, SendChunk, RawEnds, RawFails,
           StreamDropped, Goto
  <2>2. asm = "idle"
    BY <2>1 DEF SidesInv
  <2> QED
    BY <1>2, <2>2 DEF Unresolved
<1>4. CASE Reset
  <2>1. /\ sec' = [sec EXCEPT !["response"] = Fresh] /\ turn' = "redacting"
        /\ last' = [Nothing EXCEPT !.send = last.send + 1]
    BY <1>4 DEF Reset, Goto
  <2>2. Response' = Fresh /\ ~last'.body /\ last'.chunks = <<>>
    BY <1>1, <2>1 DEF Response, Nothing
  <2> QED
    BY <1>3, <2>1, <2>2, FreshResponse
<1>5. CASE Shrink
  <2>1. /\ turn = "sent" /\ turn' = "redacting" /\ Response' = Response
        /\ last' = [last EXCEPT !.send = @ + 1]
    BY <1>5 DEF Shrink, Goto, Response
  <2>2. Response = Fresh /\ ~last.body /\ last.chunks = <<>>
    BY <2>1 DEF ResponseInv, AttemptInv, Dispatching
  <2>3. ~last'.body /\ last'.chunks = <<>>
    BY <1>1, <2>1, <2>2 DEF AttemptShape
  <2> QED
    BY <1>3, <2>1, <2>2, <2>3, FreshResponse
<1>6. CASE HttpFails
  <2>1. /\ turn = "sent" /\ turn' = "running" /\ Response' = Response
        /\ last' = [last EXCEPT !.body = TRUE] /\ flags' = flags
    BY <1>6 DEF HttpFails, Goto, Response
  <2>2. Response = Fresh /\ ~flags.streamed
    BY <2>1 DEF ResponseInv, AttemptInv
  <2>3. last'.body
    BY <1>1, <2>1 DEF AttemptShape
  <2>4. /\ ~Fresh.partial /\ Fresh.queue = <<>> /\ Fresh.file = <<>> /\ Fresh.pending = NoChunk
        /\ ToSet(<<>>) = {}
    BY DEF Fresh, ToSet
  <2> QED
    BY <1>3, <2>1, <2>2, <2>3, <2>4 DEF ResponseInv, Dispatching
<1>7. CASE TapStarts
  <2>1. /\ turn = "sent" /\ turn' = "tapping" /\ Response' = TakeSink(Response)
        /\ last' = last /\ flags' = flags
    BY <1>1, <1>7 DEF TapStarts, Goto, Response
  <2>2. Response = Fresh /\ ~flags.streamed /\ ~last.body /\ last.chunks = <<>>
    BY <2>1 DEF ResponseInv, AttemptInv, Dispatching
  <2>3. /\ Response'.open /\ Response'.sink /\ ~Response'.partial /\ Response'.queue = <<>>
        /\ Response'.file = <<>> /\ Response'.pending = NoChunk
    BY <2>1, <2>2 DEF TakeSink, Fresh
  <2>4. ToSet(<<>>) = {} /\ <<>> \o <<>> = <<>>
    BY DEF ToSet
  <2> QED
    BY <1>3, <2>1, <2>2, <2>3, <2>4 DEF ResponseInv, Dispatching
<1>8. CASE RawChunk
  <2> DEFINE c == <<last.send, Len(last.chunks) + 1>>
  <2>1. /\ turn = "tapping" /\ turn' = "reserving" /\ Response' = Response
        /\ last' = [last EXCEPT !.chunks = Append(@, c)]
    BY <1>8 DEF RawChunk, Goto, Response
  <2>2. c \in Chunk
    BY <1>1 DEF Chunk, AttemptShape
  <2> HIDE DEF c
  <2>3. last'.chunks = Append(last.chunks, c) /\ last'.body = last.body
    BY <1>1, <2>1 DEF AttemptShape
  <2>4. ~last.body
    BY <2>1 DEF AttemptInv, Dispatching
  <2>5. ToSet(last'.chunks) = ToSet(last.chunks) \cup {c} /\ Front(last'.chunks) = last.chunks
    BY <1>1, <2>2, <2>3, AppendFacts
  <2>6. /\ Received = last.chunks /\ Received' = last'.chunks
    BY <2>3, <2>4 DEF Received
  <2>7. /\ Response.pending = NoChunk /\ Response.open /\ Response.sink
        /\ ToSet(Response.file) \subseteq ToSet(last.chunks)
        /\ ToSet(Response.queue) \subseteq ToSet(last.chunks)
        /\ Response.partial \/ Response.file \o Response.queue = last.chunks
    BY <2>1, <2>4, <2>6 DEF ResponseInv, Dispatching
  <2> QED
    BY <1>3, <2>1, <2>3, <2>4, <2>5, <2>6, <2>7 DEF ResponseInv, Dispatching
<1>9. CASE SendChunk
  <2> DEFINE c == Last(last.chunks)
  <2>1. /\ turn = "reserving" /\ turn' = "tapping" /\ Response' = SendTo(Response, c)
        /\ last' = last /\ flags' = flags
    BY <1>1, <1>9 DEF SendChunk, Goto, Response
  <2>2. last.chunks # <<>> /\ ~last.body /\ Received = last.chunks /\ Received' = Received
    BY <2>1 DEF AttemptInv, Dispatching, Received
  <2>3. c \in Chunk /\ c \in ToSet(last.chunks)
    BY <1>1, <2>2, SeqFacts
  <2>4. Append(Front(last.chunks), c) = last.chunks /\ Front(last.chunks) \in Seq(Chunk)
    BY <1>1, <2>2, SeqFacts
  <2>5. /\ Response.pending = NoChunk /\ Response.open /\ Response.sink
        /\ ToSet(Response.file) \subseteq ToSet(last.chunks)
        /\ ToSet(Response.queue) \subseteq ToSet(last.chunks)
        /\ Response.partial \/ Response.file \o Response.queue = Front(last.chunks)
    BY <2>1, <2>2 DEF ResponseInv, Dispatching
  <2> HIDE DEF c
  <2>6. /\ Response'.open /\ Response'.sink /\ Response'.pending = NoChunk
        /\ Response'.partial = Response.partial /\ Response'.file = Response.file
        /\ Response'.queue = Append(Response.queue, c)
    BY <1>1, <2>1, <2>3, <2>5, ChunkEffects
  <2>7. ToSet(Response'.queue) \subseteq ToSet(last.chunks)
    <3>1. ToSet(Append(R.queue, c)) = ToSet(R.queue) \cup {c}
      BY <1>1, <2>3, AppendFacts
    <3> QED
      BY <2>3, <2>5, <2>6, <3>1
  <2>8. Response'.partial \/ Response'.file \o Response'.queue = last.chunks
    <3> DEFINE f == R.file
               q == R.queue
    <3>1. f \in Seq(Chunk) /\ q \in Seq(Chunk)
      BY <1>1
    <3> HIDE DEF f, q
    <3>2. f \o Append(q, c) = Append(f \o q, c)
      BY <2>3, <3>1
    <3> QED
      BY <2>4, <2>5, <2>6, <3>2 DEF f, q
  <2> QED
    BY <1>3, <2>1, <2>2, <2>5, <2>6, <2>7, <2>8 DEF ResponseInv, Dispatching
<1>10. CASE RawEnds \/ RawFails \/ StreamDropped
  <2>1. /\ Dispatching /\ ~last.body /\ flags.streamed \in BOOLEAN /\ Received = last.chunks
    BY <1>1, <1>10
    DEF RawEnds, RawFails, StreamDropped, Goto, AttemptInv, Dispatching, FlagsShape, Received
  <2>2. /\ last'.body = last.body /\ last'.chunks = last.chunks
        /\ RawEnds => last'.clean
        /\ ~RawEnds => last' = last
    BY <1>1, <1>10 DEF RawEnds, RawFails, StreamDropped, AttemptShape
  <2>3. /\ turn' \in {"running", "broken"} /\ turn' = "broken" => ~RawEnds /\ ~StreamDropped
    BY <1>10 DEF RawEnds, RawFails, StreamDropped, Goto
  <2>4. /\ RawEnds => Response' = DropSink(Close(Response, FALSE))
        /\ RawFails => Response' = DropSink(Degrade(Response))
        /\ StreamDropped => Response' = DropSink(Close(Response, TRUE))
    BY <1>1 DEF RawEnds, RawFails, StreamDropped, Response
  <2>5. Response \in Section /\ Response.partial \in BOOLEAN
    BY <1>1
  <2>6. ASSUME NEW p \in BOOLEAN, Response' = DropSink(Close(Response, p))
        PROVE  /\ Response'.pending = Response.pending /\ Response'.file = Response.file
               /\ Response'.queue = Response.queue
               /\ Response'.partial = (Response.partial \/ p)
    BY <2>5, <2>6, GivenUp
  <2>7. ASSUME Response' = DropSink(Degrade(Response))
        PROVE  /\ Response'.pending = Response.pending /\ Response'.file = Response.file
               /\ Response'.queue = Response.queue
               /\ Response'.open = Response.open /\ Response'.partial
    BY <2>5, <2>7, GivenUp
  <2>9. /\ RawEnds => Response'.partial = Response.partial
        /\ ~RawEnds => Response'.partial
    BY <1>10, <2>4, <2>5, <2>6, <2>7
  <2>8. /\ Response.pending = NoChunk /\ Response.open
        /\ ToSet(Response.file) \subseteq ToSet(last.chunks)
        /\ ToSet(Response.queue) \subseteq ToSet(last.chunks)
        /\ turn # "reserving" =>
              Response.partial \/ Response.file \o Response.queue = last.chunks
    BY <2>1 DEF ResponseInv
  <2> QED
    BY <1>3, <1>10, <2>1, <2>2, <2>3, <2>4, <2>6, <2>7, <2>8, <2>9
    DEF ResponseInv, Dispatching, Received, RawEnds, RawFails, StreamDropped, Goto
<1> QED
  BY <1>4, <1>5, <1>6, <1>7, <1>8, <1>9, <1>10

LEMMA ResponseKept ==
    ASSUME CaptureTypes, CaptureAssumption, SidesInv, AttemptInv, ResponseInv, [Next]_vars
    PROVE  ResponseInv'
<1>1. /\ sec \in [Sections -> Section] /\ Response \in Section
      /\ FlagsShape(flags) /\ AttemptShape(last)
      /\ {"request", "response", "served"} \subseteq Sections
      /\ last.body \in BOOLEAN /\ last.send \in 0..MaxSends /\ Response.partial \in BOOLEAN
      /\ flags.streamed \in BOOLEAN
  BY DEF CaptureTypes, Response, Sections, AttemptShape, FlagsShape, Section, SectionShape
<1>2. CASE ContentAside
  BY <1>2, AsideKeepsResponse
<1>3. ASSUME NEW n \in Sections, Writer(n)
      PROVE  ResponseInv'
  <2>1. CASE n = "response"
    BY <1>3, <2>1, ResponseWritten
  <2>2. CASE n # "response"
    <3>1. sec'["response"] = sec["response"]
      BY <1>1, <1>3, <2>2, WriterEffects
    <3> QED
      BY <1>2, <1>3, <3>1 DEF Writer, ContentAside, Unresolved
  <2> QED
    BY <2>1, <2>2
<1>4. CASE Respond \/ Claim \/ CaptureRequest
  <2>1. /\ last' = last /\ asm' = asm /\ sec'["response"] = sec["response"]
        /\ \/ turn' = turn
           \/ turn' = "prep" /\ turn = "handler"
           \/ turn' = "sent" /\ turn = "redacting"
        /\ \/ flags' = [flags EXCEPT !.teed = TRUE]
           \/ flags' = [flags EXCEPT !.claimed = TRUE]
           \/ flags' = [flags EXCEPT !.written = @ \/ ~sec["request"].sealed]
    BY <1>1, <1>4 DEF Respond, Claim, CaptureRequest, Goto, Leaf
  <2>2. flags'.streamed = flags.streamed /\ flags'.present = flags.present
    BY <1>1, <2>1 DEF FlagsShape
  <2> QED
    BY <1>2, <2>1, <2>2 DEF ContentAside, Dispatching, Unresolved
<1>5. CASE HandlerDropped \/ Body
  BY <1>1, <1>2, <1>5
  DEF HandlerDropped, Body, BodyFrame, BodyEnds, BodyDropped, Tee, ContentAside, Dispatching,
      Unresolved
<1>6. CASE BackstopEngine \/ BackstopServed \/ CloseServed
  <2>1. /\ turn' = turn /\ flags' = flags /\ last' = last
        /\ sec'["response"] = sec["response"]
    BY <1>1, <1>6 DEF BackstopEngine, BackstopServed, CloseServed
  <2>2. Unresolved' <=> Unresolved
    BY <1>6 DEF BackstopEngine, BackstopServed, CloseServed, EngineDone, SidesInv, Unresolved
  <2> QED
    BY <1>2, <2>1, <2>2 DEF ContentAside
<1>7. CASE Finalize \/ GuardDropped
  <2>1. /\ flags' = flags /\ last' = last /\ sec' = sec
        /\ turn' \in {"guard", "over"} /\ turn \in {"prep", "running", "guard"}
    BY <1>7 DEF Finalize, GuardDropped, Goto
  <2>2. Unresolved' <=> Unresolved
    BY <1>7 DEF Finalize, GuardDropped, EngineDone, SidesInv, Unresolved
  <2> QED
    BY <1>2, <2>1, <2>2 DEF ContentAside, Dispatching
<1>8. CASE Spawn \/ Abandon \/ SendFails
  BY <1>2, <1>8 DEF Spawn, Abandon, SendFails, Goto, Leaf, ContentAside, Dispatching, Unresolved
<1>9. CASE \/ Reset \/ Shrink \/ HttpFails \/ TapStarts \/ RawChunk \/ SendChunk
           \/ RawEnds \/ RawFails \/ StreamDropped
  BY <1>9, AttemptKeepsResponse
<1>10. CASE CloseRequest \/ Build \/ Evict \/ RemoveWorkDir \/ Publish
  BY <1>1, <1>2, <1>10
  DEF CloseRequest, Build, Evict, RemoveWorkDir, Publish, AsmGoto, ContentAside, Unresolved
<1>11. CASE ResolveResponse
  <2> DEFINE commits == ~flags.streamed /\ staged # 0
             W == Whole(last.send)
  <2>1. /\ turn' = turn /\ last' = last /\ asm = "resolve" /\ asm' = "await"
        /\ flags' = [flags EXCEPT
                        !.present = flags.streamed \/ (commits /\ ~Response.sealed)]
        /\ Response' = Close(IF commits THEN Replace(Response, Whole(staged))
                             ELSE Response, FALSE)
    BY <1>1, <1>11 DEF ResolveResponse, AsmGoto, Response
  <2>2. ~Dispatching /\ Unresolved /\ ~Unresolved'
    BY <2>1 DEF SidesInv, Dispatching, Unresolved
  <2>3. commits <=> last.body
    BY <1>1, <2>2 DEF AttemptInv
  <2>4. flags'.streamed = flags.streamed
        /\ flags'.present = (flags.streamed \/ (commits /\ ~Response.sealed))
    BY <1>1, <2>1 DEF FlagsShape
  <2>5. Received' = Received /\ Dispatching' = Dispatching
    BY <2>1 DEF Received, Dispatching
  <2> HIDE DEF commits
  <2>6. CASE last.body
    <3>1. Response = Fresh /\ staged = last.send
      BY <2>2, <2>6 DEF ResponseInv, AttemptInv
    <3>2. Response' = Close(Replace(Fresh, W), FALSE)
      BY <2>1, <2>3, <2>6, <3>1
    <3>3. Response'.pending = W /\ Response'.queue = <<>> /\ Response'.file = <<>>
      BY <3>2 DEF Close, Replace, Fresh
    <3>4. flags'.present
      BY <2>3, <2>4, <2>6, <3>1 DEF Fresh
    <3>5. ~flags'.streamed /\ ToSet(<<>>) = {}
      BY <2>4, <2>6 DEF AttemptInv, ToSet
    <3>6. turn' \notin {"redacting", "sent", "tapping", "reserving", "broken"}
      BY <2>1, <2>2 DEF Dispatching
    <3> QED
      BY <2>1, <2>2, <2>5, <2>6, <3>3, <3>4, <3>5, <3>6 DEF ResponseInv
  <2>7. CASE ~last.body
    <3>1. Response' = Close(Response, FALSE)
      BY <2>1, <2>3, <2>7
    <3>2. /\ Response'.pending = Response.pending /\ Response'.queue = Response.queue
          /\ Response'.file = Response.file
          /\ Response'.partial = (Response.partial \/ FALSE)
      BY <1>1, <3>1, CloseEffects
    <3>3. Response'.partial = Response.partial
      BY <1>1, <3>2
    <3>4. flags'.present = (flags'.streamed \/ last.body)
      BY <1>1, <2>3, <2>4, <2>7
    <3>5. turn' \notin {"redacting", "sent", "tapping", "reserving", "broken"}
      BY <2>1, <2>2 DEF Dispatching
    <3>6. /\ turn \notin {"redacting", "sent", "tapping", "reserving", "broken"}
          /\ turn' = turn /\ last' = last /\ flags'.streamed = flags.streamed
      BY <2>1, <2>4, <3>5
    <3>7. /\ ToSet(Response'.file) \subseteq ToSet(Received')
          /\ ToSet(Response'.queue) \subseteq ToSet(Received')
      BY <2>5, <3>2 DEF ResponseInv
    <3>8. /\ Response'.partial \/ Response'.file \o Response'.queue = last'.chunks
          /\ ~Dispatching' /\ flags'.streamed => Response'.partial \/ last'.clean
      BY <2>5, <2>7, <3>2, <3>3, <3>6 DEF ResponseInv
    <3>9. Response'.pending = NoChunk
      BY <2>7, <3>2 DEF ResponseInv
    <3> QED
      BY <2>2, <2>5, <2>7, <3>4, <3>6, <3>7, <3>8, <3>9 DEF ResponseInv
  <2> QED
    BY <1>1, <2>6, <2>7
<1>12. CASE UNCHANGED vars
  BY <1>2, <1>12 DEF vars, ContentAside, Unresolved
<1> QED
  BY <1>3, <1>4, <1>5, <1>6, <1>7, <1>8, <1>9, <1>10, <1>11, <1>12
  DEF Next, Middleware, Engine, Assembly

-----------------------------------------------------------------------------
(* The end of the turn. *)

\* Once the response is resolved both sides have reported: the flags and the
\* outcome stand, and a section that is closed stays as it is.
LEMMA NothingMoves ==
    ASSUME CaptureTypes, SidesInv, ServedInv, ~Unresolved, [Next]_vars
    PROVE  /\ barrier' = barrier /\ flags' = flags
           /\ \A n \in Sections : sec[n].closed => sec'[n] = sec[n]
           /\ \/ Build \/ Evict \/ RemoveWorkDir \/ Publish
              \/ asm' = asm /\ disk' = disk /\ registry' = registry
<1>1. /\ sec \in [Sections -> Section] /\ BarrierShape(barrier)
      /\ {"request", "response", "served"} \subseteq Sections
      /\ sec["served"] \in Section
  BY DEF CaptureTypes, Sections
<1>2. /\ barrier.finalized /\ barrier.engine /\ barrier.served
      /\ turn \in {"handler", "guard", "over"} /\ Reported /\ mw # "next"
  BY DEF SidesInv, Unresolved, Reported
<1>3. sec["served"].closed => body.at = "over"
  BY <1>1 DEF ServedInv, Served, Section
<1>4. ASSUME NEW n \in Sections, Writer(n)
      PROVE  /\ barrier' = barrier /\ flags' = flags
             /\ \A m \in Sections : sec[m].closed => sec'[m] = sec[m]
             /\ asm' = asm /\ disk' = disk /\ registry' = registry
  <2>1. \A m \in Sections : sec[m].closed => sec'[m] = sec[m]
    BY <1>4, WriterEffects
  <2> QED
    BY <1>4, <2>1 DEF Writer
<1>5. CASE BackstopEngine
  BY <1>2, <1>5 DEF BackstopEngine, EngineDone
<1>6. CASE BackstopServed
  BY <1>2, <1>6 DEF BackstopServed, SidesInv, Reported
<1>7. CASE CloseServed
  <2>1. ~sec["served"].closed
    BY <1>3, <1>7 DEF CloseServed
  <2> QED
    BY <1>1, <1>7, <2>1 DEF CloseServed, SidesInv, Unresolved
<1>8. CASE GuardDropped
  BY <1>2, <1>8 DEF GuardDropped, EngineDone
<1>9. CASE Build \/ Evict \/ RemoveWorkDir \/ Publish
  BY <1>9 DEF Build, Evict, RemoveWorkDir, Publish, AsmGoto
<1>10. CASE UNCHANGED vars
  BY <1>10 DEF vars
<1>11. ~Respond /\ ~HandlerDropped /\ ~Body /\ ~CloseRequest /\ ~ResolveResponse
  BY <1>2 DEF Respond, HandlerDropped, Body, BodyFrame, BodyEnds, BodyDropped, CloseRequest,
              ResolveResponse, AsmGoto, Unresolved, Reported
<1>12. Engine => GuardDropped
  BY <1>2 DEF Engine, Claim, Spawn, Reset, CaptureRequest, Shrink, SendFails, HttpFails,
              TapStarts, RawChunk, SendChunk, RawEnds, RawFails, StreamDropped, Finalize,
              Abandon, Goto
<1> QED
  BY <1>4, <1>5, <1>6, <1>7, <1>8, <1>9, <1>10, <1>11, <1>12 DEF Next, Middleware, Assembly

\* Before that nothing is published, and the response is resolved only when the
\* request is flushed.
LEMMA NothingShown ==
    ASSUME CaptureTypes, SidesInv, Unresolved, [Next]_vars
    PROVE  /\ disk'.artifact = disk.artifact
           /\ Unresolved' \/ (asm' = "await" /\ sec["request"].closed
                              /\ sec'["request"] = sec["request"])
<1>1. DiskShape(disk) /\ sec \in [Sections -> Section] /\ {"request", "response"} \subseteq Sections
  BY DEF CaptureTypes, Sections
<1>2. ASSUME NEW n \in Sections, Writer(n)
      PROVE  disk' = disk /\ asm' = asm
  BY <1>2 DEF Writer
<1>3. Middleware => disk' = disk /\ asm' \in {asm, "request"}
  BY DEF Middleware, Respond, HandlerDropped, BackstopEngine, BackstopServed, CloseServed,
         EngineDone
<1>4. Body => disk' = disk /\ asm' = asm
  BY DEF Body, BodyFrame, BodyEnds, BodyDropped, Tee
<1>5. Engine => disk'.artifact = disk.artifact /\ asm' \in {asm, "request"}
  <2>1. Reset => disk'.artifact = disk.artifact /\ asm' = asm
    BY <1>1 DEF Reset, DiskShape
  <2>2. Engine /\ ~Reset => disk' = disk /\ asm' \in {asm, "request"}
    BY DEF Engine, Claim, Spawn, CaptureRequest, Shrink, SendFails, HttpFails,
           TapStarts, RawChunk, SendChunk, RawEnds, RawFails, StreamDropped, Finalize,
           Abandon, GuardDropped, EngineDone, Leaf
  <2> QED
    BY <2>1, <2>2
<1>6. CloseRequest => disk' = disk /\ asm' = "resolve"
  BY DEF CloseRequest, AsmGoto
<1>7. ResolveResponse => /\ disk' = disk /\ asm' = "await" /\ sec["request"].closed
                         /\ sec'["request"] = sec["request"]
  BY <1>1 DEF ResolveResponse, AsmGoto
<1>8. ~Build /\ ~Evict /\ ~RemoveWorkDir /\ ~Publish
  BY DEF Build, Evict, RemoveWorkDir, Publish, AsmGoto, Unresolved
<1> QED
  BY <1>2, <1>3, <1>4, <1>5, <1>6, <1>7, <1>8 DEF Next, Assembly, Unresolved, vars

\* What the artifact is assembled of.
LEMMA AssembledStays ==
    ASSUME barrier' = barrier, flags' = flags,
           Request' = Request, Response' = Response, Served' = Served
    PROVE  Assembled' = Assembled
BY DEF Assembled, Read, Request, Response, Served

LEMMA EndKept ==
    ASSUME CaptureTypes, SidesInv, ServedInv, EndInv, [Next]_vars
    PROVE  EndInv'
<1>0. /\ DiskShape(disk) /\ {"request", "response", "served"} \subseteq Sections
      /\ sec \in [Sections -> Section]
  BY DEF CaptureTypes, Sections
<1>1. CASE Unresolved
  <2>1. ~Published
    BY <1>1 DEF EndInv, Unresolved
  <2>2. ~Published'
    BY <1>1, <2>1, NothingShown DEF Published
  <2>3. Unresolved' \/ (asm' = "await" /\ Request'.closed)
    BY <1>1, NothingShown DEF Request
  <2> QED
    BY <2>2, <2>3 DEF EndInv, Unresolved
<1>2. CASE ~Unresolved
  <2>1. /\ barrier' = barrier /\ flags' = flags
        /\ Request.closed /\ Request' = Request
        /\ Response.closed => Response' = Response
        /\ Served.closed => Served' = Served
    BY <1>0, <1>2, NothingMoves DEF EndInv, Unresolved, Request, Response, Served
  <2>2. /\ asm \notin {"idle", "request", "resolve", "await"} => Response.closed /\ Served.closed
        /\ asm \in {"remove", "remove only", "publish", "done"} => ~registry
        /\ Published => asm = "done" /\ disk.artifact = Assembled
    BY DEF EndInv
  <2>3. Response.closed /\ Served.closed =>
            Response'.closed /\ Served'.closed /\ Assembled' = Assembled
    BY <2>1, AssembledStays
  <2>4. CASE asm' = asm /\ disk' = disk /\ registry' = registry
    BY <1>2, <2>1, <2>2, <2>3, <2>4 DEF EndInv, Published
  <2>5. CASE Build \/ Evict
    <3>1. /\ disk' = disk /\ sec' = sec
          /\ \/ asm' \in {"evict", "evict only"} /\ asm = "await" /\ registry' = registry
                /\ Response.closed /\ Served.closed
             \/ asm' \in {"remove", "remove only"} /\ asm \in {"evict", "evict only"}
                /\ registry' = FALSE
      BY <2>5 DEF Build, Evict, AsmGoto, Response, Served
    <3> QED
      BY <2>1, <2>2, <2>3, <3>1 DEF EndInv, Published
  <2>6. CASE RemoveWorkDir
    <3>1. /\ registry' = registry
          /\ asm \in {"remove", "remove only"} /\ asm' \in {"publish", "done"}
          /\ disk'.artifact = disk.artifact
      BY <1>0, <2>6 DEF RemoveWorkDir, AsmGoto, DiskShape
    <3> QED
      BY <2>1, <2>2, <2>3, <3>1 DEF EndInv, Published
  <2>7. CASE Publish
    <3>1. /\ registry' = registry /\ asm = "publish" /\ asm' = "done"
          /\ disk'.artifact \in {NoArtifact, Assembled}
      BY <1>0, <2>7 DEF Publish, AsmGoto, DiskShape
    <3> QED
      BY <2>1, <2>2, <2>3, <3>1 DEF EndInv, Published
  <2> QED
    BY <1>2, <2>4, <2>5, <2>6, <2>7, NothingMoves
<1> QED
  BY <1>1, <1>2

-----------------------------------------------------------------------------
(* The capture of a turn. *)

LEMMA CaptureStarts == CaptureAssumption /\ Init => CaptureInv
<1> SUFFICES ASSUME CaptureAssumption, Init
             PROVE  CaptureInv
  OBVIOUS
<1>1. /\ Request = Fresh /\ Response = Fresh /\ Served = Fresh
      /\ last = Nothing /\ turn = "handler" /\ asm = "idle" /\ mw = "next" /\ staged = 0
      /\ body = [at |-> "none", sent |-> 0, ended |-> FALSE, partial |-> FALSE]
      /\ disk = [work |-> TRUE, artifact |-> NoArtifact]
      /\ ~flags.claimed /\ ~flags.teed /\ ~flags.streamed
      /\ ~barrier.served /\ ~barrier.engine /\ ~barrier.finalized
  BY DEF Init, Request, Response, Served, Sections
<1>2. CaptureTypes
  <2>1. sec \in [Sections -> Section]
    BY FreshType DEF Init
  <2>2. MaxSends \in Nat /\ <<>> \in Seq(Chunk)
    BY DEF CaptureAssumption
  <2>3. AttemptShape(last) /\ staged \in 0..MaxSends
    BY <1>1, <2>2 DEF AttemptShape, Nothing
  <2> QED
    BY <2>1, <2>3 DEF CaptureTypes, Init, BarrierShape, FlagsShape, BodyShape, DiskShape
<1>3. /\ Fresh.open /\ ~Fresh.partial /\ Fresh.queue = <<>> /\ Fresh.file = <<>>
      /\ Fresh.pending = NoChunk
      /\ Nothing.chunks = <<>> /\ ~Nothing.clean /\ ~Nothing.body
  BY DEF Fresh, Nothing
<1>4. SidesInv
  BY <1>1 DEF SidesInv, Reported
<1>5. ServedInv
  <2>1. <<>> \o <<>> = [k \in 1..0 |-> <<0, k>>]
    OBVIOUS
  <2> QED
    BY <1>1, <1>3, <2>1 DEF ServedInv, Reported
<1>6. AttemptInv
  BY <1>1, <1>3 DEF AttemptInv, Dispatching
<1>7. ResponseInv
  <2>1. ToSet(<<>>) = {} /\ <<>> \o <<>> = <<>>
    BY DEF ToSet
  <2> QED
    BY <1>1, <1>3, <2>1 DEF ResponseInv, Dispatching, Unresolved
<1>8. RequestInv
  BY <1>1, <1>3 DEF RequestInv, Captured
<1>9. EndInv
  BY <1>1 DEF EndInv, Published
<1> QED
  BY <1>2, <1>4, <1>5, <1>6, <1>7, <1>8, <1>9 DEF CaptureInv

LEMMA CaptureKept == CaptureAssumption /\ CaptureInv /\ [Next]_vars => CaptureInv'
BY TypesKept, SidesKept, ServedKept, AttemptKept, ResponseKept, RequestKept, EndKept
DEF CaptureInv

\* The artifact of a turn is about its last dispatch attempt: its response is
\* there iff that attempt received something, comes from that attempt only, is
\* all of it unless marked partial, and stands beside the request it answers
\* (reset_upstream_response, the sticky marks of a section, the writers).
THEOREM ArtifactIsTheLastAttempts == Spec => []ArtifactTellsLastAttempt
<1>1. CaptureInv => ArtifactTellsLastAttempt
  <2> SUFFICES ASSUME CaptureInv, Published
               PROVE  /\ Read(flags.present, Response).there <=> last.clean \/ Received # <<>>
                      /\ LET shown == Read(flags.present, Response)
                         IN  /\ \A k \in DOMAIN shown.content :
                                   shown.content[k] \in ToSet(Received)
                             /\ shown.there /\ ~shown.partial =>
                                   shown.content = Received /\ (last.clean \/ last.body)
                      /\ Read(flags.present, Response).there
                           /\ ~Read(flags.written, Request).partial =>
                              Read(flags.written, Request).content = <<Whole(last.send)>>
    <3>1. ASSUME CaptureInv, Published
          PROVE  /\ disk.artifact.response = Read(flags.present, Response)
                 /\ disk.artifact.request = Read(flags.written, Request)
      BY <3>1 DEF CaptureInv, EndInv, Assembled, Request, Response
    <3> QED
      BY <3>1 DEF ArtifactTellsLastAttempt, Received
  <2>1. /\ asm = "done" /\ ~Unresolved
        /\ Request.closed /\ Response.closed /\ Served.closed
    BY DEF CaptureInv, EndInv, Unresolved
  <2>2. /\ ~Dispatching /\ turn # "reserving"
    BY <2>1 DEF CaptureInv, SidesInv, Dispatching
  <2>3. /\ Response \in Section /\ Request \in Section
        /\ last.body \in BOOLEAN /\ last.chunks \in Seq(Chunk) /\ last.send \in 0..MaxSends
        /\ flags.streamed \in BOOLEAN
        /\ Response.file \in Seq(Chunk)
    BY DEF CaptureInv, CaptureTypes, Sections, Request, Response, AttemptShape, FlagsShape,
           Section, SectionShape
  <2>4. /\ Response.queue = <<>> /\ Response.pending = NoChunk
        /\ Request.queue = <<>> /\ Request.pending = NoChunk
    BY <2>1, <2>3 DEF Section
  <2>5. Whole(last.send) # NoChunk
    BY <2>3, ChunkTypes
  <2>6. /\ flags.present = (flags.streamed \/ last.body)
        /\ flags.streamed <=> last.clean \/ last.chunks # <<>>
        /\ last.body => ~flags.streamed
    BY <2>1 DEF CaptureInv, ResponseInv, AttemptInv
  <2>7. flags.present <=> last.clean \/ Received # <<>>
    BY <2>3, <2>6 DEF Received
  <2>8. \A k \in DOMAIN Response.file : Response.file[k] \in ToSet(Received)
    <3>1. ToSet(Response.file) \subseteq ToSet(Received)
      BY DEF CaptureInv, ResponseInv
    <3>2. \A k \in DOMAIN Response.file : Response.file[k] \in ToSet(Response.file)
      BY DEF ToSet
    <3> QED
      BY <3>1, <3>2
  <2>9. ASSUME flags.present, ~Response.partial
        PROVE  Response.file = Received /\ (last.clean \/ last.body)
    <3>1. CASE last.body
      BY <2>1, <2>4, <2>5, <2>9, <3>1 DEF CaptureInv, ResponseInv, Received
    <3>2. CASE ~last.body
      <4>1. Response.file \o <<>> = last.chunks
        BY <2>2, <2>4, <2>9, <3>2 DEF CaptureInv, ResponseInv
      <4>2. Response.file \o <<>> = Response.file
        BY <2>3
      <4>3. last.clean
        BY <2>2, <2>6, <2>9, <3>2 DEF CaptureInv, ResponseInv
      <4> QED
        BY <3>2, <4>1, <4>2, <4>3 DEF Received
    <3> QED
      BY <2>3, <3>1, <3>2
  <2>10. ASSUME flags.present
         PROVE  flags.written /\ (Request.partial \/ Request.file = <<Whole(last.send)>>)
    BY <2>4, <2>5, <2>6, <2>10 DEF CaptureInv, RequestInv, Captured
  <2> QED
    BY <2>7, <2>8, <2>9, <2>10 DEF Read
<1> QED
  BY <1>1, CaptureAssumption, CaptureStarts, CaptureKept, PTL DEF Spec

\* What is published is over: the turn is evicted and nobody of it writes any
\* more, and a served section not marked partial is the whole body, which
\* reached its end (TeeBody's Drop, the barrier, assemble_blocking's order).
THEOREM ArtifactIsFinal == Spec => []ArtifactIsHonest
<1>1. CaptureInv => ArtifactIsHonest
  <2> SUFFICES ASSUME CaptureInv, Published
               PROVE  /\ ~registry /\ turn \in {"handler", "guard", "over"} /\ body.at = "over"
                      /\ ~Served.partial =>
                            /\ body.ended
                            /\ Served.file = [k \in 1..body.sent |-> <<0, k>>]
    <3>1. ASSUME CaptureInv, Published
          PROVE  /\ disk.artifact.served.content = Served.file
                 /\ disk.artifact.served.partial = Served.partial
      <4>1. disk.artifact = Assembled
        BY <3>1 DEF CaptureInv, EndInv
      <4>2. Assembled.served = [there |-> TRUE, content |-> Served.file,
                                partial |-> Served.partial]
        BY DEF Assembled, Read, Served
      <4> QED
        BY <4>1, <4>2
    <3> QED
      BY <3>1 DEF ArtifactIsHonest, ServedIsWhole, VisibleMeansOver
  <2>1. /\ asm = "done" /\ ~registry /\ Served.closed
    BY DEF CaptureInv, EndInv
  <2>2. turn \in {"handler", "guard", "over"} /\ Reported
    BY <2>1 DEF CaptureInv, SidesInv
  <2>3. Served \in Section /\ Served.file \in Seq(Chunk)
    BY DEF CaptureInv, CaptureTypes, Sections, Served, Section, SectionShape
  <2>4. ~Served.open /\ Served.queue = <<>>
    BY <2>1, <2>3 DEF Section
  <2>5. body.at = "over"
    BY <2>4 DEF CaptureInv, ServedInv
  <2>6. ~Served.partial => body.ended /\ Served.file \o <<>> = [k \in 1..body.sent |-> <<0, k>>]
    BY <2>4, <2>5 DEF CaptureInv, ServedInv
  <2>7. Served.file \o <<>> = Served.file
    BY <2>3
  <2> QED
    BY <2>1, <2>2, <2>5, <2>6, <2>7
<1> QED
  BY <1>1, CaptureAssumption, CaptureStarts, CaptureKept, PTL DEF Spec

-----------------------------------------------------------------------------
(* The files of captures, over several processes.                          *)

\* The captures a running process works on.
Living == {"open", "building", "built", "unbuilt", "emptied"}

SweepState == [pass : 0..4, since : 0..hour, left : SUBSET CapturedTurns,
               stuck : SUBSET (Kinds \X CapturedTurns)]

FileTypes ==
    /\ hour \in Nat \ {0}
    /\ runs \in BOOLEAN
    /\ capture \in [CapturedTurns -> Living \cup {"none", "over", "lost"}]
    /\ files \in [Kinds -> [CapturedTurns -> 0..hour]]
    /\ sweep \in SweepState

\* What is known of a turn's files: a capture of this process has touched
\* all of them since the process started.
Kept(t) ==
    /\ capture[t] \in Living => runs
    /\ capture[t] = "none" => \A kind \in Kinds : files[kind][t] = 0
    /\ capture[t] \in Living =>
          \A kind \in Kinds : files[kind][t] = 0 \/ files[kind][t] >= sweep.since
    /\ capture[t] \in {"open", "building", "built"} => files["work"][t] > 0
    /\ capture[t] \in {"building", "built", "emptied"} => files["tmp"][t] > 0
    /\ capture[t] \in {"built", "emptied"} \/ files["artifact"][t] > 0 => t \in whole

\* The sweep has looked at this entry.
Visited(kind, t) ==
    \E i \in DOMAIN Passes :
        Passes[i] = kind /\ (i < sweep.pass \/ (i = sweep.pass /\ t \notin sweep.left))

\* What it left, it could not take.
Swept(t) ==
    \A kind \in Kinds : Visited(kind, t) /\ Old(kind, t) => <<kind, t>> \in sweep.stuck

FilesInv ==
    /\ FileTypes
    /\ ~runs => sweep = NoSweep
    /\ \A t \in CapturedTurns : Kept(t) /\ Swept(t)
-----------------------------------------------------------------------------
(* Steps.                                                                  *)

\* A change of one file.
LEMMA OneFile ==
    ASSUME NEW t \in CapturedTurns, NEW kind \in Kinds, NEW n,
           NEW m \in Nat, NEW f \in [Kinds -> [CapturedTurns -> 0..m]], n \in 0..m
    PROVE  LET g == [f EXCEPT ![kind][t] = n]
           IN  /\ g \in [Kinds -> [CapturedTurns -> 0..m]]
               /\ \A k \in Kinds, u \in CapturedTurns :
                     g[k][u] = IF k = kind /\ u = t THEN n ELSE f[k][u]
  OBVIOUS

\* Nothing about turn u changes.
Still(u) ==
    /\ capture'[u] = capture[u]
    /\ \A kind \in Kinds : files'[kind][u] = files[kind][u]
    /\ u \in whole' <=> u \in whole

\* Nothing about the process and its sweep changes.
SameRun == UNCHANGED <<runs, sweep>>

\* What is known of a turn survives the steps of others.
LEMMA StillKept ==
    ASSUME NEW u \in CapturedTurns, Kept(u), Swept(u), Still(u), SameRun
    PROVE  Kept(u)' /\ Swept(u)'
  BY DEF Kept, Swept, Visited, Old, Still, SameRun, Kinds

\* A file that is gone or as young as the process is not old.
LEMMA YoungStays ==
    ASSUME FileTypes, NEW kind \in Kinds, NEW t \in CapturedTurns,
           files[kind][t] = 0 \/ files[kind][t] >= sweep.since
    PROVE  ~Old(kind, t)
  BY CaptureFilesAssumption DEF FileTypes, SweepState, Old

\* A living capture's step touches its own files only, and leaves each as it
\* was, gone, or as young as the hour.
LEMMA CaptureStep ==
    ASSUME FilesInv, NEW t \in CapturedTurns, runs, SameRun, hour' = hour,
           capture[t] \in Living \cup {"none"}, FileTypes',
           \A u \in CapturedTurns \ {t} : Still(u),
           \A kind \in Kinds :
              files'[kind][t] \in {0, hour} \cup {files[k][t] : k \in Kinds},
           Kept(t)'
    PROVE  FilesInv'
<1>1. \A kind \in Kinds : files[kind][t] = 0 \/ files[kind][t] >= sweep.since
  BY DEF FilesInv, Kept
<1>2. \A kind \in Kinds : files'[kind][t] = 0 \/ files'[kind][t] >= sweep.since
  BY <1>1 DEF FilesInv, FileTypes, SweepState
<1>3. \A kind \in Kinds : files'[kind][t] = 0 \/ files'[kind][t] >= sweep'.since
  BY <1>2 DEF SameRun
<1>4. \A kind \in Kinds : ~Old(kind, t)'
  BY <1>3, CaptureFilesAssumption DEF FileTypes, SweepState, Old
<1>5. Swept(t)'
  BY <1>4 DEF Swept
<1>6. \A u \in CapturedTurns \ {t} : Kept(u)' /\ Swept(u)'
  BY StillKept DEF FilesInv
<1> QED
  BY <1>5, <1>6 DEF FilesInv, SameRun, NoSweep
\* The steps that touch one file, or none, and move the capture on.
LEMMA OneFileStep ==
    ASSUME FilesInv, NEW t \in CapturedTurns, NEW from \in SUBSET (Living \cup {"none"}),
           NEW to \in Living \cup {"over"}, IsAt(t, from), Moves(t, to),
           NEW kind \in Kinds, NEW n \in {0, hour, files[kind][t]},
           files' = [files EXCEPT ![kind][t] = n],
           whole \subseteq whole', whole' \subseteq whole \cup {t},
           UNCHANGED <<hour, starts, runs, sweep>>, Kept(t)'
    PROVE  FilesInv'
<1>1. files[kind][t] \in 0..hour /\ n \in 0..hour
  BY DEF FilesInv, FileTypes
<1>2. /\ files' \in [Kinds -> [CapturedTurns -> 0..hour]]
      /\ \A k \in Kinds, u \in CapturedTurns :
            files'[k][u] = IF k = kind /\ u = t THEN n ELSE files[k][u]
  BY <1>1, OneFile DEF FilesInv, FileTypes
<1>3. FileTypes'
  BY <1>2 DEF FilesInv, FileTypes, SweepState, Moves
<1>4. \A u \in CapturedTurns \ {t} : Still(u)
  BY <1>2 DEF FilesInv, FileTypes, Moves, Still
<1>5. \A k \in Kinds : files'[k][t] \in {0, hour} \cup {files[j][t] : j \in Kinds}
  BY <1>2
<1> QED
  BY <1>3, <1>4, <1>5, CaptureStep DEF IsAt, SameRun

\* What such a step leaves of the turn's own files.
After(t, to, kind, n) ==
    /\ capture'[t] = to
    /\ files'[kind][t] = n
    /\ \A k \in Kinds \ {kind} : files'[k][t] = files[k][t]
    /\ \A k \in Kinds : files[k][t] \in 0..hour
    /\ hour > 0 /\ hour >= sweep.since

LEMMA OwnFiles ==
    ASSUME FilesInv, NEW t \in CapturedTurns, NEW to, Moves(t, to),
           NEW kind \in Kinds, NEW n \in {0, hour, files[kind][t]},
           files' = [files EXCEPT ![kind][t] = n]
    PROVE  After(t, to, kind, n)
<1>1. files[kind][t] \in 0..hour /\ n \in 0..hour
  BY DEF FilesInv, FileTypes
<1> QED
  BY <1>1, OneFile DEF FilesInv, FileTypes, SweepState, Moves, After

\* Starting, writing and building a capture, and taking its work dir out.
LEMMA BuildStep ==
    ASSUME FilesInv, NEW t \in CapturedTurns,
           \/ StartCapture(t) \/ WriteSection(t) \/ BeginBuild(t) \/ Built(t)
           \/ NotBuilt(t) \/ WorkDirRemoved(t) \/ NotRenamed(t)
    PROVE  FilesInv'
<1> USE DEF Living, Kinds
<1>1. Kept(t) /\ FileTypes
  BY DEF FilesInv
<1>2. \A kind \in Kinds : [files EXCEPT ![kind][t] = files[kind][t]] = files
  BY <1>1 DEF FileTypes
<1>3. CASE StartCapture(t)
  <2>1. After(t, "open", "work", hour)
    BY <1>3, OwnFiles DEF StartCapture, Changed
  <2>2. Kept(t)'
    BY <1>1, <1>3, <2>1 DEF StartCapture, IsAt, Kept, After
  <2> QED
    BY <1>3, <2>2, OneFileStep DEF StartCapture, Changed
<1>4. CASE WriteSection(t)
  <2>1. Moves(t, "open")
    BY <1>1, <1>4 DEF WriteSection, IsAt, Moves, FileTypes
  <2>2. After(t, "open", "work", hour)
    BY <1>4, <2>1, OwnFiles DEF WriteSection, Changed
  <2>3. Kept(t)'
    BY <1>1, <1>4, <2>2 DEF WriteSection, IsAt, Kept, After
  <2> QED
    BY <1>4, <2>1, <2>3, OneFileStep DEF WriteSection, Changed
<1>5. CASE BeginBuild(t)
  <2>1. After(t, "building", "tmp", hour)
    BY <1>5, OwnFiles DEF BeginBuild, Changed
  <2>2. Kept(t)'
    BY <1>1, <1>5, <2>1 DEF BeginBuild, IsAt, Kept, After
  <2> QED
    BY <1>5, <2>2, OneFileStep DEF BeginBuild, Changed
<1>6. CASE Built(t)
  <2>1. After(t, "built", "tmp", hour)
    BY <1>6, OwnFiles DEF Built, Changed
  <2>2. Kept(t)'
    BY <1>1, <1>6, <2>1 DEF Built, IsAt, Kept, After
  <2> QED
    BY <1>6, <2>2, OneFileStep DEF Built, Changed
<1>7. CASE NotBuilt(t)
  <2>1. PICK n \in {0, files["tmp"][t]} : files' = [files EXCEPT !["tmp"][t] = n]
    BY <1>2, <1>7 DEF NotBuilt, Removed
  <2>2. After(t, "unbuilt", "tmp", n)
    BY <1>7, <2>1, OwnFiles DEF NotBuilt
  <2>3. Kept(t)'
    BY <1>1, <1>7, <2>2 DEF NotBuilt, IsAt, Kept, After
  <2> QED
    BY <1>7, <2>1, <2>3, OneFileStep DEF NotBuilt
<1>8. CASE WorkDirRemoved(t)
  <2> DEFINE to == IF capture[t] = "built" THEN "emptied" ELSE "over"
  <2>1. PICK n \in {0, hour, files["work"][t]} : files' = [files EXCEPT !["work"][t] = n]
    BY <1>2, <1>8 DEF WorkDirRemoved, Removed, Changed
  <2>2. After(t, to, "work", n)
    BY <1>8, <2>1, OwnFiles DEF WorkDirRemoved
  <2>3. Kept(t)'
    BY <1>1, <1>8, <2>2 DEF WorkDirRemoved, IsAt, Kept, After
  <2> QED
    <3>1. IsAt(t, {"built", "unbuilt"}) /\ Moves(t, to) /\ to \in {"emptied", "over"}
      BY <1>8 DEF WorkDirRemoved
    <3> HIDE DEF to
    <3> QED
      BY <1>8, <2>1, <2>3, <3>1, OneFileStep DEF WorkDirRemoved
<1>9. CASE NotRenamed(t)
  <2>1. PICK n \in {0, files["tmp"][t]} : files' = [files EXCEPT !["tmp"][t] = n]
    BY <1>2, <1>9 DEF NotRenamed, Removed
  <2>2. After(t, "over", "tmp", n)
    BY <1>9, <2>1, OwnFiles DEF NotRenamed
  <2>3. Kept(t)'
    BY <1>1, <1>9, <2>2 DEF NotRenamed, IsAt, Kept, After
  <2> QED
    BY <1>9, <2>1, <2>3, OneFileStep DEF NotRenamed
<1> QED
  BY <1>3, <1>4, <1>5, <1>6, <1>7, <1>8, <1>9

\* The rename shows a file that is complete and that this process wrote.
LEMMA PublishStep ==
    ASSUME FilesInv, NEW t \in CapturedTurns, Renamed(t)
    PROVE  FilesInv'
<1> USE DEF Living, Kinds
<1> DEFINE mid == [files EXCEPT !["tmp"][t] = 0]
           n == files["tmp"][t]
<1>1. Kept(t) /\ FileTypes
  BY DEF FilesInv
<1>2. /\ mid \in [Kinds -> [CapturedTurns -> 0..hour]]
      /\ \A k \in Kinds, u \in CapturedTurns :
            mid[k][u] = IF k = "tmp" /\ u = t THEN 0 ELSE files[k][u]
  BY <1>1, OneFile DEF FileTypes
<1>3. n \in 0..hour
  BY <1>1 DEF FileTypes
<1>4. files' = [mid EXCEPT !["artifact"][t] = n]
  BY DEF Renamed, Removed
<1> HIDE DEF mid
<1>5. /\ files' \in [Kinds -> [CapturedTurns -> 0..hour]]
      /\ \A k \in Kinds, u \in CapturedTurns :
            files'[k][u] = IF k = "artifact" /\ u = t THEN n ELSE mid[k][u]
  BY <1>1, <1>2, <1>3, <1>4, OneFile DEF FileTypes
<1>6. FileTypes'
  BY <1>1, <1>5 DEF FileTypes, SweepState, Renamed, Moves
<1>7. \A u \in CapturedTurns \ {t} : Still(u)
  BY <1>1, <1>2, <1>5 DEF FileTypes, Renamed, Moves, Still
<1>8. Kept(t)'
  BY <1>1, <1>2, <1>5 DEF FileTypes, Renamed, Moves, IsAt, Kept, After
<1>9. \A kind \in Kinds : files'[kind][t] \in {0, hour} \cup {files[k][t] : k \in Kinds}
  BY <1>2, <1>5
<1> QED
  BY <1>6, <1>7, <1>8, <1>9, CaptureStep DEF Renamed, IsAt, SameRun
-----------------------------------------------------------------------------
(* The sweep and the processes.                                            *)

\* Each kind has its pass.
LEMMA PassKinds ==
    /\ DOMAIN Passes = 1..3 /\ Len(Passes) = 3
    /\ \A i \in 1..3 : Passes[i] \in Kinds
    /\ \A i, j \in 1..3 : Passes[i] = Passes[j] => i = j
    /\ \A kind \in Kinds : \E i \in 1..3 : Passes[i] = kind
  BY DEF Passes, Kinds

\* A turn's files survive the sweep's steps elsewhere.
LEMMA SweptElsewhere ==
    ASSUME NEW u \in CapturedTurns, Kept(u), Swept(u), Still(u),
           runs' = runs, sweep'.since = sweep.since, sweep.stuck \subseteq sweep'.stuck,
           \A kind \in Kinds : Visited(kind, u)' => Visited(kind, u)
    PROVE  Kept(u)' /\ Swept(u)'
  BY DEF Kept, Swept, Old, Still, Kinds

\* The sweep's own steps.
LEMMA SweepMoves ==
    ASSUME NEW s \in SweepState, NEW l \in SUBSET CapturedTurns,
           NEW x \in SUBSET (Kinds \X CapturedTurns)
    PROVE  /\ [s EXCEPT !.left = l] \in SweepState
           /\ [s EXCEPT !.left = l, !.stuck = x] \in SweepState
  BY DEF SweepState

\* What the sweep takes, no capture works on.
LEMMA VisitStep ==
    ASSUME FilesInv, NEW t \in CapturedTurns, Visit(t)
    PROVE  FilesInv'
<1> DEFINE kind == Passes[sweep.pass]
<1>1. /\ Kept(t) /\ Swept(t) /\ FileTypes
      /\ runs /\ sweep.pass \in 1..3 /\ kind \in Kinds
  BY PassKinds DEF FilesInv, Visit, Sweeping
<1>2. \/ sweep' = [sweep EXCEPT !.left = @ \ {t}]
      \/ sweep' = [sweep EXCEPT !.left = @ \ {t}, !.stuck = @ \cup {<<kind, t>>}]
  BY DEF Visit
<1>3. /\ sweep'.pass = sweep.pass /\ sweep'.since = sweep.since
      /\ sweep'.left = sweep.left \ {t} /\ sweep.stuck \subseteq sweep'.stuck
      /\ sweep' \in SweepState'
  <2> HIDE DEF kind
  <2> DEFINE l == sweep.left \ {t}
             x == sweep.stuck \cup {<<kind, t>>}
  <2>1. /\ sweep \in SweepState /\ SweepState' = SweepState
        /\ l \in SUBSET CapturedTurns /\ x \in SUBSET (Kinds \X CapturedTurns)
        /\ sweep.pass \in 0..4
    BY <1>1 DEF FileTypes, SweepState, Visit
  <2> HIDE DEF x
  <2>2. sweep' = [sweep EXCEPT !.left = l] \/ sweep' = [sweep EXCEPT !.left = l, !.stuck = x]
    BY <1>2 DEF x
  <2>3. sweep' \in SweepState
    <3> HIDE DEF l
    <3>1. CASE sweep' = [sweep EXCEPT !.left = l]
      BY <2>1, <3>1, SweepMoves
    <3>2. CASE sweep' = [sweep EXCEPT !.left = l, !.stuck = x]
      BY <2>1, <3>2, SweepMoves
    <3> QED
      BY <2>2, <3>1, <3>2
  <2>4. sweep'.pass = sweep.pass /\ sweep'.since = sweep.since /\ sweep'.left = l
    BY <2>1, <2>2 DEF SweepState
  <2>5. sweep'.stuck = sweep.stuck \/ sweep'.stuck = x
    BY <2>1, <2>2 DEF SweepState
  <2> QED
    BY <2>1, <2>3, <2>4, <2>5 DEF x
<1>4. \/ files' = files /\ (Old(kind, t) => <<kind, t>> \in sweep'.stuck)
      \/ Old(kind, t) /\ files' = [files EXCEPT ![kind][t] = 0]
      \/ Old(kind, t) /\ files' = [files EXCEPT ![kind][t] = hour]
                       /\ <<kind, t>> \in sweep'.stuck
  BY <1>1, <1>3 DEF Visit, Removed, Changed, FileTypes, SweepState
<1>5. UNCHANGED <<hour, runs, capture, whole>>
  BY DEF Visit
<1> HIDE DEF kind
<1>6. /\ files' \in [Kinds -> [CapturedTurns -> 0..hour]]
      /\ \A k \in Kinds, u \in CapturedTurns :
            k # kind \/ u # t => files'[k][u] = files[k][u]
      /\ files'[kind][t] = files[kind][t] \/ Old(kind, t)
  <2>1. /\ hour \in Nat /\ 0 \in 0..hour /\ hour \in 0..hour
        /\ files \in [Kinds -> [CapturedTurns -> 0..hour]]
    BY <1>1 DEF FileTypes
  <2>2. CASE files' = files
    BY <1>1, <2>1, <2>2
  <2>3. ASSUME NEW n \in {0, hour}, files' = [files EXCEPT ![kind][t] = n], Old(kind, t)
        PROVE  /\ files' \in [Kinds -> [CapturedTurns -> 0..hour]]
               /\ \A k \in Kinds, u \in CapturedTurns :
                     k # kind \/ u # t => files'[k][u] = files[k][u]
    BY <1>1, <2>1, <2>3, OneFile
  <2> QED
    BY <1>4, <2>2, <2>3
<1>7. FileTypes'
  BY <1>1, <1>3, <1>5, <1>6 DEF FileTypes
<1>8. ASSUME NEW u \in CapturedTurns \ {t}
      PROVE  Kept(u)' /\ Swept(u)'
  <2>1. Still(u)
    BY <1>5, <1>6 DEF Still
  <2>2. \A k \in Kinds : Visited(k, u)' => Visited(k, u)
    BY <1>3 DEF Visited
  <2> QED
    BY <1>3, <1>5, <2>1, <2>2, SweptElsewhere DEF FilesInv
<1>9. Kept(t)'
  <2>1. CASE files' = files
    BY <1>1, <1>3, <1>5, <2>1 DEF Kept
  <2>2. CASE Old(kind, t)
    <3>1. capture[t] \notin Living \cup {"none"}
      BY <1>1, <2>2, YoungStays DEF Kept
    <3>2. files'["artifact"][t] > 0 => files["artifact"][t] > 0
      <4>1. files[kind][t] > 0
        BY <1>1, <2>2 DEF FileTypes, Old
      <4> QED
        BY <1>6, <4>1 DEF Kinds
    <3> QED
      BY <1>1, <1>5, <3>1, <3>2 DEF Kept, Living
  <2> QED
    BY <1>4, <2>1, <2>2
<1>10. Swept(t)'
  <2> SUFFICES ASSUME NEW k \in Kinds, Visited(k, t)', Old(k, t)'
               PROVE  <<k, t>> \in sweep'.stuck
    BY DEF Swept
  <2>1. CASE k = kind
    <3>1. ~(files' = [files EXCEPT ![kind][t] = 0])
      BY <1>1, <2>1, <1>6 DEF FileTypes, Old
    <3> QED
      BY <1>3, <1>4, <2>1, <3>1 DEF Old
  <2>2. CASE k # kind
    <3>1. Old(k, t)
      BY <1>3, <1>6, <2>2 DEF Old
    <3>2. Visited(k, t)
      BY <1>1, <1>3, <2>2, PassKinds DEF Visited, kind
    <3> QED
      BY <1>1, <1>3, <3>1, <3>2 DEF Swept
  <2> QED
    BY <2>1, <2>2
<1> QED
  BY <1>1, <1>5, <1>7, <1>8, <1>9, <1>10 DEF FilesInv

\* The passes, the processes and the clock.
LEMMA ProcessStep ==
    ASSUME FilesInv, \/ NextPass \/ Stop \/ HourPasses \/ UNCHANGED fileVars
                     \/ \E sweeps \in BOOLEAN : Start(sweeps)
    PROVE  FilesInv'
<1>0. FileTypes /\ \A u \in CapturedTurns : Kept(u) /\ Swept(u)
  BY DEF FilesInv
<1>1. CASE NextPass
  <2>1. /\ sweep' = [sweep EXCEPT !.pass = @ + 1, !.left = CapturedTurns]
        /\ sweep.left = {} /\ sweep.pass \in 1..3 /\ runs
        /\ UNCHANGED <<hour, starts, runs, capture, files, whole>>
    BY <1>1, PassKinds DEF NextPass, Sweeping
  <2>2. /\ sweep'.pass = sweep.pass + 1 /\ sweep'.left = CapturedTurns
        /\ sweep'.since = sweep.since /\ sweep'.stuck = sweep.stuck
        /\ sweep' \in SweepState'
    <3>1. /\ sweep \in SweepState /\ SweepState' = SweepState
          /\ sweep.pass + 1 \in 0..4
      BY <1>0, <2>1 DEF FileTypes, SweepState
    <3>2. sweep' \in SweepState
      BY <2>1, <3>1 DEF SweepState
    <3>3. /\ sweep'.since = sweep.since /\ sweep'.left = CapturedTurns
          /\ sweep'.pass = sweep.pass + 1 /\ sweep'.stuck = sweep.stuck
      BY <2>1, <3>1 DEF SweepState
    <3> QED
      BY <3>1, <3>2, <3>3
  <2>3. ASSUME NEW u \in CapturedTurns
        PROVE  Kept(u)' /\ Swept(u)'
    <3>1. Still(u)
      BY <2>1 DEF Still
    <3>2. \A k \in Kinds : Visited(k, u)' => Visited(k, u)
      BY <2>1, <2>2, PassKinds DEF Visited
    <3> QED
      BY <1>0, <2>1, <2>2, <3>1, <3>2, SweptElsewhere
  <2> QED
    BY <1>0, <2>1, <2>2, <2>3 DEF FilesInv, FileTypes
<1>2. CASE Stop
  <2>1. /\ runs' = FALSE /\ sweep' = NoSweep
        /\ capture' = [t \in CapturedTurns |->
                         IF capture[t] \in {"none", "over"} THEN capture[t] ELSE "lost"]
        /\ UNCHANGED <<hour, starts, files, whole>>
    BY <1>2 DEF Stop
  <2>2. sweep' \in SweepState'
    BY <1>0, <2>1 DEF FileTypes, SweepState, NoSweep
  <2>3. \A u \in CapturedTurns : Kept(u)'
    BY <1>0, <2>1 DEF Kept, FileTypes, Living
  <2>4. \A u \in CapturedTurns : Swept(u)'
    BY <2>1, PassKinds DEF Swept, Visited, NoSweep
  <2> QED
    BY <1>0, <2>1, <2>2, <2>3, <2>4 DEF FilesInv, FileTypes
<1>3. CASE HourPasses \/ UNCHANGED fileVars
  <2>1. /\ UNCHANGED <<runs, capture, files, whole, sweep>>
        /\ hour' \in Nat \ {0} /\ hour' >= hour
    BY <1>0, <1>3 DEF HourPasses, fileVars, FileTypes
  <2>2. \A u \in CapturedTurns : Still(u)
    BY <2>1 DEF Still
  <2>3. FileTypes'
    <3>1. files \in [Kinds -> [CapturedTurns -> 0..hour']] /\ SweepState \subseteq SweepState'
      BY <1>0, <2>1 DEF FileTypes, SweepState
    <3> QED
      BY <1>0, <2>1, <3>1 DEF FileTypes
  <2> QED
    BY <1>0, <2>1, <2>2, <2>3, StillKept DEF FilesInv, SameRun, NoSweep
<1>4. ASSUME NEW sweeps \in BOOLEAN, Start(sweeps)
      PROVE  FilesInv'
  <2>1. /\ ~runs /\ runs' /\ runs' \in BOOLEAN /\ UNCHANGED <<hour, capture, files, whole>>
        /\ \/ sweep' = [pass |-> 1, since |-> hour, left |-> CapturedTurns, stuck |-> {}]
           \/ sweep' = NoSweep
    BY <1>4 DEF Start
  <2>2. sweep' \in SweepState'
    BY <1>0, <2>1 DEF FileTypes, SweepState, NoSweep
  <2>3. \A u \in CapturedTurns : Kept(u)'
    BY <1>0, <2>1 DEF Kept, FileTypes, Living
  <2>4. \A u \in CapturedTurns : Swept(u)'
    BY <2>1, PassKinds DEF Swept, Visited, NoSweep
  <2> QED
    BY <1>0, <2>1, <2>2, <2>3, <2>4 DEF FilesInv, FileTypes
<1> QED
  BY <1>1, <1>2, <1>3, <1>4

-----------------------------------------------------------------------------
\* Wherever processes stop and whatever calls fail: what is shown is whole,
\* what is in use is spared, and what is left behind goes with a later sweep.
THEOREM FilesAreSound == FilesSpec => []CaptureFilesSound
<1>1. FilesInit => FilesInv
  <2> SUFFICES ASSUME FilesInit
               PROVE  FilesInv
    OBVIOUS
  <2>1. NoSweep \in SweepState
    BY DEF FilesInit, SweepState, NoSweep
  <2>2. FileTypes
    <3>1. files \in [Kinds -> [CapturedTurns -> 0..hour]]
      BY DEF FilesInit
    <3>2. capture \in [CapturedTurns -> Living \cup {"none", "over", "lost"}]
      BY DEF FilesInit
    <3>3. hour \in Nat \ {0}
      BY DEF FilesInit
    <3>4. runs \in BOOLEAN
      BY DEF FilesInit
    <3>5. sweep \in SweepState
      BY <2>1 DEF FilesInit
    <3> QED
      BY <3>1, <3>2, <3>3, <3>4, <3>5 DEF FileTypes
  <2>3. ASSUME NEW t \in CapturedTurns
        PROVE  Kept(t) /\ Swept(t)
    <3>1. \A kind \in Kinds : files[kind][t] = 0
      BY DEF FilesInit
    <3>2. capture[t] = "none"
      BY DEF FilesInit
    <3>3. Kept(t)
      BY <3>1, <3>2 DEF Kept, Living, Kinds
    <3>4. Swept(t)
      BY <3>1 DEF Swept, Old
    <3> QED
      BY <3>3, <3>4
  <2> QED
    BY <2>2, <2>3 DEF FilesInv, FilesInit
<1>2. FilesInv /\ [FilesNext]_fileVars => FilesInv'
  BY BuildStep, PublishStep, VisitStep, ProcessStep DEF FilesNext
<1>3. ASSUME FilesInv
      PROVE  CaptureFilesSound
  <2>1. VisibleIsWhole
    BY <1>3 DEF FilesInv, Kept, VisibleIsWhole
  <2>2. LivingAreSpared
    BY <1>3 DEF FilesInv, Kept, LivingAreSpared
  <2>3. ASSUME SweepIsOver, NEW kind \in Kinds, NEW t \in CapturedTurns, Old(kind, t)
        PROVE  <<kind, t>> \in sweep.stuck
    <3>1. Visited(kind, t)
      BY <1>3, <2>3, PassKinds DEF FilesInv, FileTypes, SweepState, SweepIsOver, Visited
    <3> QED
      BY <1>3, <2>3, <3>1 DEF FilesInv, Swept
  <2> QED
    BY <2>1, <2>2, <2>3 DEF CaptureFilesSound, ResidueIsReclaimed
<1> QED
  BY <1>1, <1>2, <1>3, PTL DEF FilesSpec

==============================================================================
