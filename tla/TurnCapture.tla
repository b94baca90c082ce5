---------------------------- MODULE TurnCapture ----------------------------
(***************************************************************************)
(* The durable capture of one turn (src/src/turn_capture.rs).  Sections    *)
(* stream to disk on writers of their own: the request is replaced by each *)
(* send, the upstream response starts over with each dispatch attempt, the *)
(* served response is teed off the body that goes to the client.  When the *)
(* engine side and the served side have both reported, the artifact is     *)
(* assembled.  Turns share nothing but the registry, which is keyed by the *)
(* turn, so one turn is modelled; each lock hold is one step.              *)
(***************************************************************************)
EXTENDS Integers, Sequences, SequencesExt

CONSTANTS MaxSends,     \* bound on the requests sent upstream in the turn
          MaxChunks,    \* bound on the chunks of an upstream response
          MaxFrames,    \* bound on the frames of the served body
          ChannelCap    \* SECTION_CHANNEL_CAPACITY

ASSUME CaptureAssumption ==
    /\ MaxSends \in Nat \ {0} /\ MaxChunks \in Nat \ {0} /\ MaxFrames \in Nat \ {0}
    /\ ChannelCap \in Nat \ {0}

VARIABLES barrier,    \* AssemblyBarrier
          flags,      \* the state's AtomicBools
          staged,     \* pending_upstream_body: the send it answers, or 0
          sec,        \* the sections: request, current response, served
          mw,         \* where log_api_call stands after start
          turn,       \* where the engine and its leaf client stand
          last,       \* what the last attempt received, told from outside
          body,       \* the body served to the client
          asm,        \* the assembly task
          disk,       \* the work directory and the artifact
          registry    \* whether the registry holds the turn

vars == <<barrier, flags, staged, sec, mw, turn, last, body, asm, disk,
          registry>>

Sections == {"request", "response", "served"}

\* A chunk names the send it answers (0: the served body) and its place in the
\* stream; place 0 is a body written whole.
Chunk == (0..MaxSends) \X Nat
Whole(send) == <<send, 0>>
NoChunk == <<>>

Fresh == [open |-> TRUE, sink |-> FALSE, queue |-> <<>>, pending |-> NoChunk,
          sealed |-> FALSE, file |-> <<>>, partial |-> FALSE, closed |-> FALSE]

Nothing == [send |-> 0, chunks |-> <<>>, clean |-> FALSE, body |-> FALSE]

NoArtifact == [outcome |-> "none"]

Init ==
    /\ barrier = [served |-> FALSE, engine |-> FALSE,
                  outcome |-> "none", finalized |-> FALSE]
    /\ flags = [claimed |-> FALSE, teed |-> FALSE, written |-> FALSE,
                streamed |-> FALSE, present |-> FALSE]
    /\ staged = 0
    /\ sec = [s \in Sections |-> Fresh]
    /\ mw = "next"
    /\ turn = "handler"
    /\ last = Nothing
    /\ body = [at |-> "none", sent |-> 0, ended |-> FALSE, partial |-> FALSE]
    /\ asm = "idle"
    /\ disk = [work |-> TRUE, artifact |-> NoArtifact]
    /\ registry = TRUE

-----------------------------------------------------------------------------
(* Section.                                                                *)

Close(s, partial) == [s EXCEPT !.open = FALSE, !.partial = @ \/ partial]
Degrade(s) == [s EXCEPT !.partial = TRUE]
Replace(s, chunk) == IF s.sealed THEN s ELSE [s EXCEPT !.pending = chunk]
TakeSink(s) == [s EXCEPT !.sink = s.open]
DropSink(s) == [s EXCEPT !.sink = FALSE]
HasSlot(s) == Len(s.queue) < ChannelCap
SendTo(s, chunk) == [s EXCEPT !.queue = Append(@, chunk)]

(* section_writer.  A pending replacement goes before the queue.  A write  *)
(* that fails marks the section partial.                                   *)

Written(s, content) ==
    {[s EXCEPT !.file = content], [s EXCEPT !.partial = TRUE]}

ApplyReplace(n) ==
    /\ ~sec[n].sealed
    /\ sec[n].pending # NoChunk
    /\ \E s \in Written(sec[n], <<sec[n].pending>>) :
          sec' = [sec EXCEPT ![n] = [s EXCEPT !.pending = NoChunk]]

WriteAppend(n) ==
    /\ sec[n].pending = NoChunk
    /\ sec[n].queue # <<>>
    /\ \E s \in Written(sec[n], Append(sec[n].file, Head(sec[n].queue))) :
          sec' = [sec EXCEPT ![n] = [s EXCEPT !.queue = Tail(@)]]

\* Every sender is gone: the last replacement is taken and the slot sealed.
Seal(n) ==
    /\ ~sec[n].open /\ ~sec[n].sink
    /\ sec[n].queue = <<>>
    /\ ~sec[n].sealed
    /\ \E s \in IF sec[n].pending = NoChunk THEN {sec[n]}
                ELSE Written(sec[n], <<sec[n].pending>>) :
          sec' = [sec EXCEPT ![n] = [s EXCEPT !.pending = NoChunk,
                                              !.sealed = TRUE]]

Flush(n) ==
    /\ sec[n].sealed /\ ~sec[n].closed
    /\ sec' = [sec EXCEPT ![n].closed = TRUE]

Writer(n) ==
    /\ ApplyReplace(n) \/ WriteAppend(n) \/ Seal(n) \/ Flush(n)
    /\ UNCHANGED <<barrier, flags, staged, mw, turn, last, body, asm,
                   disk, registry>>

-----------------------------------------------------------------------------
(* The barrier: each side reports once, and the second report assembles.   *)

TakeTrigger(b) == [b EXCEPT !.finalized = @ \/ (b.engine /\ b.served)]

\* engine_done; the assembly is spawned by whoever completes the barrier.
EngineDone(report) ==
    /\ barrier' = IF barrier.engine THEN barrier
                  ELSE TakeTrigger([barrier EXCEPT !.engine = TRUE,
                                                   !.outcome = report])
    /\ asm' = IF barrier'.finalized /\ ~barrier.finalized THEN "request" ELSE asm

\* served_done latches under the barrier's lock and closes the section, and
\* spawns the assembly it may have won, after it.
ServedDone(partial) ==
    /\ barrier' = TakeTrigger([barrier EXCEPT !.served = TRUE])
    /\ body' = [body EXCEPT
                  !.at = IF barrier'.finalized THEN "closing last" ELSE "closing",
                  !.partial = partial]

CloseServed ==
    /\ body.at \in {"closing", "closing last"}
    /\ sec' = [sec EXCEPT !["served"] = DropSink(Close(@, body.partial))]
    /\ body' = [body EXCEPT !.at = "over"]
    /\ asm' = IF body.at = "closing last" THEN "request" ELSE asm
    /\ UNCHANGED <<barrier, flags, staged, mw, turn, last, disk, registry>>

-----------------------------------------------------------------------------
(* log_api_call: the handler runs inside next.run, then the tee and the    *)
(* guard's Drop.                                                           *)

\* The handler answers: it rejected the request, failed it before the spawn, or
\* hands out the stream of the spawned turn.
Respond ==
    /\ mw = "next"
    /\ turn # "prep"
    /\ mw' = "engine backstop"
    /\ flags' = [flags EXCEPT !.teed = TRUE]
    /\ sec' = [sec EXCEPT !["served"] = TakeSink(@)]
    /\ body' = [body EXCEPT !.at = "live"]
    /\ UNCHANGED <<barrier, staged, turn, last, asm, disk, registry>>

\* The client leaves, or the handler panics: its future is dropped, with the
\* engine's guard if the turn is not spawned yet.
HandlerDropped ==
    /\ mw = "next"
    /\ mw' = "engine backstop"
    /\ turn' = IF turn = "prep" THEN "guard" ELSE turn
    /\ UNCHANGED <<barrier, flags, staged, sec, last, body, asm, disk,
                   registry>>

\* MiddlewareCaptureGuard: an unclaimed turn has no engine to report it.
BackstopEngine ==
    /\ mw = "engine backstop"
    /\ mw' = "served backstop"
    /\ IF flags.claimed THEN UNCHANGED <<barrier, asm>> ELSE EngineDone("unhandled")
    /\ UNCHANGED <<flags, staged, sec, turn, last, body, disk, registry>>

BackstopForgotten ==
    /\ mw = "served backstop"
    /\ mw' = "over"
    /\ UNCHANGED <<barrier, body, flags, staged, sec, turn, last, asm,
                   disk, registry>>

\* Without a tee nobody else reports the served side.
BackstopServed ==
    /\ mw = "served backstop"
    /\ mw' = "over"
    /\ IF flags.teed THEN UNCHANGED <<barrier, body>> ELSE ServedDone(TRUE)
    /\ UNCHANGED <<flags, staged, sec, turn, last, asm, disk, registry>>

Middleware ==
    Respond \/ HandlerDropped \/ BackstopEngine \/ BackstopServed \/ CloseServed

-----------------------------------------------------------------------------
(* TeeBody.                                                                *)

Tee == UNCHANGED <<flags, staged, mw, turn, last, asm, disk, registry>>

\* A slot is reserved before the frame is pulled.
BodyFrame ==
    /\ body.at = "live" /\ ~body.ended
    /\ body.sent < MaxFrames
    /\ HasSlot(sec["served"])
    /\ body' = [body EXCEPT !.sent = @ + 1]
    /\ sec' = [sec EXCEPT !["served"] = SendTo(@, <<0, body.sent + 1>>)]
    /\ UNCHANGED barrier /\ Tee

\* Seen from the body: a converter may end it before the turn is over.
BodyEnds ==
    /\ body.at = "live" /\ ~body.ended
    /\ body' = [body EXCEPT !.ended = TRUE]
    /\ UNCHANGED <<barrier, sec>> /\ Tee

BodyDroppedAsClean ==
    /\ body.at = "live"
    /\ ServedDone(FALSE)
    /\ UNCHANGED sec /\ Tee

\* Dropped at its end, or earlier because the client left.
BodyDropped ==
    /\ body.at = "live"
    /\ ServedDone(~body.ended)
    /\ UNCHANGED sec /\ Tee

Body == BodyFrame \/ BodyEnds \/ BodyDropped

-----------------------------------------------------------------------------
(* The engine, and the leaf client it dispatches to.                       *)

Goto(from, to) == turn \in from /\ turn' = to

\* A step of the turn that leaves the barrier and the served side alone.
Leaf == UNCHANGED <<barrier, mw, body, asm, disk, registry>>

\* CaptureGuard::new.
Claim ==
    /\ mw = "next"
    /\ Goto({"handler"}, "prep")
    /\ flags' = [flags EXCEPT !.claimed = TRUE]
    /\ UNCHANGED <<staged, sec, last>> /\ Leaf

Spawn ==
    /\ mw = "next"
    /\ Goto({"prep"}, "running")
    /\ UNCHANGED <<flags, staged, sec, last>> /\ Leaf

ResetKeepsStreamed ==
    /\ last.send < MaxSends
    /\ Goto({"running"}, "redacting")
    /\ sec' = [sec EXCEPT !["response"] = Fresh]
    /\ staged' = 0
    /\ last' = [Nothing EXCEPT !.send = last.send + 1]
    /\ UNCHANGED flags /\ Leaf

\* reset_upstream_response, at the start of a dispatch attempt: a fresh section
\* on a path of its own, whose file (and directory) Section::new creates.  The
\* superseded section is closed and detached; its writer drains to a file that
\* nobody reads, and is left out.
Reset ==
    /\ last.send < MaxSends
    /\ Goto({"running"}, "redacting")
    /\ sec' = [sec EXCEPT !["response"] = Fresh]
    /\ flags' = [flags EXCEPT !.streamed = FALSE]
    /\ staged' = 0
    /\ last' = [Nothing EXCEPT !.send = last.send + 1]
    /\ disk' = [disk EXCEPT !.work = TRUE]
    /\ UNCHANGED <<barrier, mw, body, asm, registry>>

\* write_upstream_request.
CaptureRequest ==
    /\ Goto({"redacting"}, "sent")
    /\ sec' = [sec EXCEPT !["request"] = Replace(@, Whole(last.send))]
    /\ flags' = [flags EXCEPT !.written = @ \/ ~sec["request"].sealed]
    /\ UNCHANGED <<staged, last>> /\ Leaf

\* A context overflow is sent once more, within the attempt.
Shrink ==
    /\ last.send < MaxSends
    /\ Goto({"sent"}, "redacting")
    /\ last' = [last EXCEPT !.send = @ + 1]
    /\ UNCHANGED <<flags, staged, sec>> /\ Leaf

\* The send fails, or the dispatch is dropped during its waits.
SendFails ==
    /\ Goto({"redacting", "sent"}, "running")
    /\ UNCHANGED <<flags, staged, sec, last>> /\ Leaf

\* stage_upstream_response_body.
HttpFails ==
    /\ Goto({"sent"}, "running")
    /\ staged' = last.send
    /\ last' = [last EXCEPT !.body = TRUE]
    /\ UNCHANGED <<flags, sec>> /\ Leaf

\* The tap takes its sink of the current section when it is first polled.
TapStarts ==
    /\ Goto({"sent"}, "tapping")
    /\ sec' = [sec EXCEPT !["response"] = TakeSink(@)]
    /\ UNCHANGED <<flags, staged, last>> /\ Leaf

\* The flag is set before the slot is reserved.
RawChunk ==
    /\ Len(last.chunks) < MaxChunks
    /\ Goto({"tapping"}, "reserving")
    /\ flags' = [flags EXCEPT !.streamed = TRUE]
    /\ last' = [last EXCEPT !.chunks = Append(@, <<last.send, Len(@) + 1>>)]
    /\ UNCHANGED <<staged, sec>> /\ Leaf

SendChunk ==
    /\ HasSlot(sec["response"])
    /\ Goto({"reserving"}, "tapping")
    /\ sec' = [sec EXCEPT !["response"] = SendTo(@, Last(last.chunks))]
    /\ UNCHANGED <<flags, staged, last>> /\ Leaf

\* The clean end: UpstreamTapGuard closes the section, not partial.
RawEnds ==
    /\ Goto({"tapping"}, "running")
    /\ flags' = [flags EXCEPT !.streamed = TRUE]
    /\ sec' = [sec EXCEPT !["response"] = DropSink(Close(@, FALSE))]
    /\ last' = [last EXCEPT !.clean = TRUE]
    /\ UNCHANGED <<staged>> /\ Leaf

\* A transport error: the sink is given up, then the stream is dropped.
RawFails ==
    /\ Goto({"tapping"}, "broken")
    /\ sec' = [sec EXCEPT !["response"] = DropSink(Degrade(@))]
    /\ UNCHANGED <<flags, staged, last>> /\ Leaf

\* The stream is dropped before its end: by a failover, an oversized frame, the
\* end of the turn.  The guard closes the section, partial.
StreamDropped ==
    /\ Goto({"tapping", "reserving", "broken"}, "running")
    /\ sec' = [sec EXCEPT !["response"] = DropSink(Close(@, TRUE))]
    /\ UNCHANGED <<flags, staged, last>> /\ Leaf

\* The terminal seam, before or after the spawn; a turn that panics or is
\* abandoned reports nothing before its guard is dropped.
Finalize ==
    /\ Goto({"prep", "running"}, "guard")
    /\ EngineDone("terminal")
    /\ UNCHANGED <<flags, staged, sec, mw, last, body, disk, registry>>

Abandon ==
    /\ Goto({"running"}, "guard")
    /\ UNCHANGED <<flags, staged, sec, last>> /\ Leaf

\* CaptureGuard's Drop, inert after an explicit report.
GuardDropped ==
    /\ Goto({"guard"}, "over")
    /\ EngineDone("dropped")
    /\ UNCHANGED <<flags, staged, sec, mw, last, body, disk, registry>>

Engine ==
    \/ Claim \/ Spawn \/ Reset \/ CaptureRequest \/ Shrink \/ SendFails
    \/ HttpFails \/ TapStarts \/ RawChunk \/ SendChunk \/ RawEnds \/ RawFails
    \/ StreamDropped \/ Finalize \/ Abandon \/ GuardDropped

-----------------------------------------------------------------------------
(* finalize_and_assemble and assemble_blocking.                            *)

AsmGoto(from, to) ==
    /\ asm = from /\ asm' = to
    /\ UNCHANGED <<barrier, mw, turn, last, body>>

CloseRequest ==
    /\ AsmGoto("request", "resolve")
    /\ sec' = [sec EXCEPT !["request"] = Close(@, FALSE)]
    /\ UNCHANGED <<flags, staged, disk, registry>>

\* A streamed response wins over a staged body; the section is closed after
\* the body is in its slot.
ResolveResponse ==
    /\ sec["request"].closed
    /\ AsmGoto("resolve", "await")
    /\ LET commits == ~flags.streamed /\ staged # 0
       IN  /\ flags' = [flags EXCEPT
                 !.present = flags.streamed \/ (commits /\ ~sec["response"].sealed)]
           /\ staged' = IF flags.streamed THEN staged ELSE 0
           /\ sec' = [sec EXCEPT !["response"] =
                 Close(IF commits THEN Replace(@, Whole(staged)) ELSE @, FALSE)]
    /\ UNCHANGED <<disk, registry>>

Read(present, s) ==
    IF present THEN [there |-> TRUE, content |-> s.file, partial |-> s.partial]
    ELSE [there |-> FALSE, content |-> <<>>, partial |-> FALSE]

Assembled ==
    [outcome |-> barrier.outcome,
     request |-> Read(flags.written, sec["request"]),
     response |-> Read(flags.present, sec["response"]),
     served |-> Read(TRUE, sec["served"])]

PublishFirst ==
    /\ AsmGoto("await", "evict")
    /\ sec["response"].closed /\ sec["served"].closed
    /\ disk' = [disk EXCEPT !.artifact = Assembled]
    /\ UNCHANGED <<flags, staged, sec, registry>>

\* The temporary artifact is written, or cannot be.
Build ==
    /\ sec["response"].closed /\ sec["served"].closed
    /\ \E to \in {"evict", "evict only"} : AsmGoto("await", to)
    /\ UNCHANGED <<flags, staged, sec, disk, registry>>

Evict ==
    /\ \/ AsmGoto("evict", "remove")
       \/ AsmGoto("evict only", "remove only")
    /\ registry' = FALSE
    /\ UNCHANGED <<flags, staged, sec, disk>>

\* Best effort: the directory may stay, for the age-based sweep.
RemoveWorkDir ==
    /\ \/ AsmGoto("remove", "publish")
       \/ AsmGoto("remove only", "done")
    /\ \E work \in BOOLEAN : disk' = [disk EXCEPT !.work = work]
    /\ UNCHANGED <<flags, staged, sec, registry>>

\* The rename, which may fail.
Publish ==
    /\ AsmGoto("publish", "done")
    /\ \E artifact \in {NoArtifact, Assembled} :
          disk' = [disk EXCEPT !.artifact = artifact]
    /\ UNCHANGED <<flags, staged, sec, registry>>

Assembly ==
    CloseRequest \/ ResolveResponse \/ Build \/ Evict \/ RemoveWorkDir \/ Publish

-----------------------------------------------------------------------------

Next == \/ \E n \in Sections : Writer(n)
        \/ Middleware \/ Body \/ Engine \/ Assembly

Spec == Init /\ [][Next]_vars

\* Tasks are scheduled, drops happen, and the turn and the body come to an end:
\* the upstream answers or the client gives up, and a turn without a client is
\* cancelled.
Fairness ==
    /\ \A n \in Sections : WF_vars(Writer(n))
    /\ WF_vars(Middleware)
    /\ WF_vars(Body)
    /\ WF_vars(Engine)
    /\ WF_vars(Assembly)

FairSpec == Spec /\ Fairness

-----------------------------------------------------------------------------
(* Properties.                                                             *)

Published == disk.artifact # NoArtifact

\* The artifact shows the last attempt and nothing of those it superseded: its
\* response is there iff that attempt received something, comes from that
\* attempt only, and answers the request shown beside it; a response not
\* marked partial is everything the attempt received, and it ended cleanly
\* (turn_capture.rs: "FINAL-ATTEMPT-ONLY", "don't-lie-with-zeros").
ArtifactTellsLastAttempt ==
    LET shown == disk.artifact.response
        received == IF last.body THEN <<Whole(last.send)>> ELSE last.chunks
    IN  Published =>
          /\ shown.there <=> last.clean \/ received # <<>>
          /\ \A k \in DOMAIN shown.content : shown.content[k] \in ToSet(received)
          /\ shown.there /\ ~shown.partial =>
                /\ shown.content = received
                /\ last.clean \/ last.body
          /\ shown.there /\ ~disk.artifact.request.partial =>
                disk.artifact.request.content = <<Whole(last.send)>>

\* A served section that is not marked partial is the whole body, and the body
\* reached its end (TeeBody's Drop and the sticky marks).
ServedIsWhole ==
    Published /\ ~disk.artifact.served.partial =>
        /\ body.ended
        /\ disk.artifact.served.content = [k \in 1..body.sent |-> <<0, k>>]

\* Whoever sees the artifact finds the turn evicted and nobody writing to it:
\* both sides have reported and no dispatch is under way.
VisibleMeansOver ==
    Published => /\ ~registry
                 /\ turn \in {"handler", "guard", "over"}
                 /\ body.at = "over"

\* What a reader of the artifact may rely on: it is shown after all that could
\* change it, and calls complete only what is (assemble_blocking's INVARIANT).
ArtifactIsHonest == ServedIsWhole /\ VisibleMeansOver

\* Every captured turn is evicted, whichever side ends first and however: the
\* barrier never waits for a report that nobody will make.
EveryTurnIsEvicted == <>(~registry)
=============================================================================
