----------------------------- MODULE MonitorHub -----------------------------
(***************************************************************************)
(* MonitorHub (src/src/monitor.rs): the transcript of every response, kept *)
(* as bounded records behind one mutex, and the updates it broadcasts.     *)
(* An event is applied under the lock and numbered there; the update it    *)
(* produced is sent after the lock is released, so updates of different    *)
(* emitters can be broadcast in another order than they are numbered.      *)
(*                                                                         *)
(* Text is a sequence of character classes: "b" a backslash, "n" the       *)
(* letter n, "N" a newline, "d" and ":" the two halves of a URI's prefix,   *)
(* any other member stands for itself.  The hub's clock is in units of the *)
(* retention period's granularity.                                         *)
(***************************************************************************)
EXTENDS Integers, Sequences, FiniteSets
LOCAL INSTANCE SequencesExt

CONSTANTS
    Ids,            \* response ids; the task of a response emits its events
    HistoryLimit,   \* records kept
    EventLimit,     \* REQUEST_EVENT_LIMIT
    TextLimit,      \* REQUEST_TEXT_CHAR_LIMIT
    PreviewLimit,   \* REQUEST_PAYLOAD_PREVIEW_CHAR_LIMIT
    TotalLimit,     \* MONITOR_PAYLOAD_PREVIEW_CHAR_LIMIT
    Retention,      \* DEBUG_HISTORY_RETENTION_MS
    MaxSequence,    \* bound on the events emitted
    MaxNow          \* bound on the clock

ASSUME HubAssumption ==
    /\ {HistoryLimit, EventLimit, TextLimit} \subseteq Nat \ {0}
    /\ {PreviewLimit, TotalLimit, Retention, MaxSequence, MaxNow} \subseteq Nat

VARIABLES
    records,       \* newest first
    hubSequence,   \* last_sequence
    now,
    unsent         \* per emitter, the update applied and not yet broadcast

hubVars == <<records, hubSequence, now, unsent>>

None == "none"
NoUpdate == [sequence |-> 0, messages |-> <<>>]

PayloadKinds == {"request_payload", "upstream_request"}
CarriesPayload(ev) ==
    ev.t \in PayloadKinds \cup {"final_response", "response_item"}

NewRecord(id, sequence) ==
    [id |-> id, status |-> "running", usage |-> 0, updated |-> now,
     segs |-> <<>>, events |-> <<>>,
     event |-> sequence, payload |-> 0,
     call |-> None, backslash |-> FALSE,
     textOmitted |-> 0, eventsOmitted |-> 0, previewsOmitted |-> 0]

IndexOf(rs, id) == SelectInSeq(rs, LAMBDA r : r.id = id)
Has(rs, id) == IndexOf(rs, id) # 0

-----------------------------------------------------------------------------
(* Bounded transcripts. *)

Chars(segs) ==
    LET upTo[i \in 0..Len(segs)] ==
            IF i = 0 THEN 0 ELSE upTo[i - 1] + Len(segs[i].text)
    IN  upTo[Len(segs)]

\* The characters above the limit go from the front; a segment that is used
\* up goes with them.
Excess(segs) == IF Chars(segs) > TextLimit THEN Chars(segs) - TextLimit ELSE 0

TrimPrefix(segs) ==
    LET before(i) == Chars(SubSeq(segs, 1, i - 1))
        cut(i)    == Excess(segs) - before(i)
        rest(i)   == IF cut(i) > 0
                     THEN SubSeq(segs[i].text, cut(i) + 1, Len(segs[i].text))
                     ELSE segs[i].text
        trimmed   == [i \in DOMAIN segs |-> [segs[i] EXCEPT !.text = rest(i)]]
    IN  SelectSeq(trimmed, LAMBDA s : s.text # <<>>)

Previews(events) ==
    LET upTo[i \in 0..Len(events)] ==
            IF i = 0 THEN 0 ELSE upTo[i - 1] + events[i].preview
    IN  upTo[Len(events)]

\* Oldest previews go until what is left, and what is kept elsewhere, fits.
TrimPreviews(r, elsewhere, limit) ==
    LET from(i) == Previews(SubSeq(r.events, i, Len(r.events))) + elsewhere
        drop    == {i \in DOMAIN r.events :
                        r.events[i].preview > 0 /\ from(i) > limit}
    IN  [r EXCEPT
            !.events = [i \in DOMAIN @ |->
                IF i \in drop THEN [@[i] EXCEPT !.preview = 0, !.omitted = TRUE]
                ELSE @[i]],
            !.previewsOmitted = @ + Cardinality(drop)]

\* Oldest records yield first.
TrimTotal(rs) ==
    LET newer[k \in 1..Len(rs)] ==
            IF k = 1 THEN 0 ELSE newer[k - 1] + Previews(rs[k - 1].events)
    IN  [k \in DOMAIN rs |-> TrimPreviews(rs[k], newer[k], TotalLimit)]

-----------------------------------------------------------------------------
(* Edits: a record and the messages that tell viewers of the change. *)

NoEdit(r) == [r |-> r, out |-> <<>>]

\* Text joins the last segment if that is of its kind and of its round.
Joins(r, kind) ==
    r.segs # <<>> /\ Last(r.segs).kind = kind /\ Last(r.segs).payload = r.payload

AppendText(e, kind, text) ==
    LET r     == e.r
        seg   == [sequence |-> r.event, payload |-> r.payload,
                  kind |-> kind, text |-> text]
        grown == IF Joins(r, kind)
                 THEN [r.segs EXCEPT ![Len(r.segs)].text = @ \o text]
                 ELSE Append(r.segs, seg)
    IN  IF text = <<>> THEN e
        ELSE [r |-> [r EXCEPT !.updated = now,
                              !.segs = TrimPrefix(grown),
                              !.textOmitted = @ + Excess(grown)],
              out |-> Append(e.out, [t |-> "segment_append", id |-> r.id, seg |-> seg])]

EndsLine(r) == r.segs # <<>> /\ Last(Last(r.segs).text) = "N"

EnsureNewline(e, kind) ==
    IF e.r.segs # <<>> /\ ~EndsLine(e.r) THEN AppendText(e, kind, <<"N">>) ELSE e

EnsureNewlineAfterKindChange(e, kind) ==
    IF e.r.segs # <<>> /\ Last(e.r.segs).kind # kind THEN EnsureNewline(e, kind) ELSE e

FlushBackslash(e) ==
    IF e.r.backslash
    THEN AppendText([e EXCEPT !.r.backslash = FALSE], "output", <<"b">>)
    ELSE e

Prepare(e, kind) ==
    IF e.r.call # None
    THEN EnsureNewline([e EXCEPT !.r.call = None], kind)
    ELSE EnsureNewlineAfterKindChange(e, kind)

\* An escaped newline becomes a newline; a backslash at the end of the delta
\* waits for the next one.
Normalize(pending, delta) ==
    LET all == IF pending THEN <<"b">> \o delta ELSE delta
        \* after[i]: the character at i is the second of an escape
        second[i \in 0..Len(all)] ==
            i > 1 /\ all[i - 1] = "b" /\ ~second[i - 1]
        piece(i) == CASE all[i] = "b" /\ ~second[i] -> <<>>
                      [] second[i] /\ all[i] = "n"  -> <<"N">>
                      [] second[i] /\ all[i] # "n"  -> <<"b", all[i]>>
                      [] OTHER                      -> <<all[i]>>
        n == Len(all)
    IN  [text |-> FlattenSeq([i \in 1..n |-> piece(i)]),
         pending |-> n > 0 /\ all[n] = "b" /\ ~second[n]]

OutputDelta(e, delta) ==
    LET p == Prepare(e, "output")
        m == Normalize(p.r.backslash, delta)
    IN  AppendText([p EXCEPT !.r.backslash = m.pending], "output", m.text)

UnflushedDelta(e, kind, delta) == AppendText(Prepare(e, kind), kind, delta)

StyledDelta(e, kind, delta) ==
    LET f == IF kind # "output" THEN FlushBackslash(e) ELSE e
    IN  AppendText(Prepare(f, kind), kind, delta)

CallDelta(e, call, delta) ==
    LET f == FlushBackslash(e)
        h == IF f.r.call = call THEN f
             ELSE [AppendText(EnsureNewline(f, "tool"), "tool", <<"h", "N">>)
                       EXCEPT !.r.call = call]
    IN  AppendText(h, "tool", delta)

Line(e, kind, text) ==
    LET f == [FlushBackslash(e) EXCEPT !.r.call = None]
    IN  AppendText(AppendText(EnsureNewline(f, kind), kind, text), kind, <<"N">>)

PushEvent(e, sequence, kind, preview) ==
    LET event  == [sequence |-> sequence, kind |-> kind, preview |-> preview,
                   omitted |-> FALSE]
        longer == Append(e.r.events, event)
        over   == IF Len(longer) > EventLimit THEN Len(longer) - EventLimit ELSE 0
        pushed == [e.r EXCEPT !.updated = now,
                              !.events = SubSeq(longer, over + 1, Len(longer)),
                              !.eventsOmitted = @ + over]
        fitted == IF preview > 0 THEN TrimPreviews(pushed, 0, PreviewLimit) ELSE pushed
    IN  [r |-> IF kind \in PayloadKinds THEN [fitted EXCEPT !.payload = sequence]
               ELSE fitted,
         out |-> Append(e.out, [t |-> "event_append", id |-> e.r.id, event |-> event])]

Close(e, status) ==
    LET f == FlushBackslash(e)
    IN  [f EXCEPT !.r.call = None, !.r.status = status, !.r.updated = now]
Tell(e, status) ==
    [e EXCEPT !.out = Append(@, [t |-> "request_status", id |-> e.r.id, status |-> status])]

\* What an event does to the record of its response.
Apply(e, ev, sequence) ==
    CASE ev.t = "request_started" -> PushEvent(e, sequence, ev.t, 0)
      [] CarriesPayload(ev)       -> PushEvent(e, sequence, ev.t, ev.preview)
      [] ev.t = "output"          -> OutputDelta(e, ev.delta)
      [] ev.t = "reasoning"       -> StyledDelta(e, "reasoning", ev.delta)
      [] ev.t = "refusal"         -> StyledDelta(e, "output", ev.delta)
      [] ev.t = "arguments"       -> CallDelta(e, ev.call, ev.delta)
      [] ev.t = "phase"           -> PushEvent(Line(e, "tool", ev.delta), sequence, ev.t, 0)
      [] ev.t = "detected"        -> PushEvent(e, sequence, ev.t, 0)
      [] ev.t = "usage"           ->
            [r |-> [e.r EXCEPT !.usage = ev.usage, !.updated = now],
             out |-> Append(e.out, [t |-> "usage", id |-> e.r.id, usage |-> ev.usage])]
      [] ev.t = "completed"       ->
            PushEvent(Tell(Close(e, "completed"), "completed"), sequence, ev.t, 0)
      [] ev.t = "failed"          ->
            PushEvent(Tell(Line(Close(e, "failed"), "tool", <<"f">>), "failed"),
                      sequence, ev.t, 0)

-----------------------------------------------------------------------------
(* The record an event is applied to: its own, or one that is started.     *)

Removal(r, why) == [t |-> "request_remove", id |-> r.id, why |-> why]

\* A new record goes to the front; the oldest make room for it.
MakeRoom(rs) ==
    LET keep == IF Len(rs) >= HistoryLimit THEN HistoryLimit - 1 ELSE Len(rs)
    IN  [kept |-> SubSeq(rs, 1, keep),
         out  |-> [i \in 1..(Len(rs) - keep) |-> Removal(rs[Len(rs) + 1 - i], "capacity")]]

Started(rs, id, sequence) ==
    LET room == MakeRoom(rs)
        r    == NewRecord(id, sequence)
    IN  [records |-> <<r>> \o room.kept,
         out |-> Append(room.out, [t |-> "request_upsert", id |-> id, status |-> r.status])]

Ensured(rs, ev, id, sequence) ==
    IF ev.t = "request_started"
    THEN Started(SelectSeq(rs, LAMBDA r : r.id # id), id, sequence)
    ELSE IF Has(rs, id)
         THEN [records |-> [rs EXCEPT ![IndexOf(rs, id)].event = sequence,
                                      ![IndexOf(rs, id)].updated = now],
               out |-> <<>>]
         ELSE Started(rs, id, sequence)

Expired(r) == r.updated < now - Retention
PruneExpired(rs) == SelectSeq(rs, LAMBDA r : ~Expired(r))
ExpiryNotices(rs) ==
    LET gone == SelectSeq(rs, Expired)
    IN  [i \in DOMAIN gone |-> Removal(gone[i], "expired")]

-----------------------------------------------------------------------------
(* What leaves the process.                                                *)

\* The places of a text that lie in a URI: from its prefix to a delimiter.  A
\* prefix within a URI begins no other.
InUri(text) ==
    LET begins(i) == i < Len(text) /\ text[i] = "d" /\ text[i + 1] = ":"
        within[i \in 0..Len(text)] ==
            i > 0 /\ (begins(i) \/ (within[i - 1] /\ text[i] # "N"))
    IN  {i \in DOMAIN text : within[i]}

\* redact_image_uris: each URI is replaced as a whole by words of its own,
\* which may be longer or shorter than it.
RedactedUri == <<"[", "u", "]">>
Redacted(text) ==
    LET uri == InUri(text)
    IN  FlattenSeq([i \in DOMAIN text |->
            CASE i \notin uri    -> <<text[i]>>
              [] i - 1 \in uri   -> <<>>
              [] OTHER           -> RedactedUri])

\* redact_ws_message_image_uris.  The other texts a message carries are told
\* whole in one message, live and replayed, and are not modelled.
RedactMessage(m) ==
    IF m.t = "segment_append" THEN [m EXCEPT !.seg.text = Redacted(@)] ELSE m
RedactAll(messages) == [i \in DOMAIN messages |-> RedactMessage(messages[i])]

\* The event of the response id, from the taking of the lock to its release.
Emit(id, ev) ==
    /\ unsent[id] = NoUpdate
    /\ hubSequence < MaxSequence
    /\ hubSequence' = hubSequence + 1
    /\ \E ensured \in {Ensured(records, ev, id, hubSequence + 1)} :
       \E k \in {IndexOf(ensured.records, id)} :
       \E edit \in {Apply(NoEdit(ensured.records[k]), ev, hubSequence + 1)} :
       \E edited \in {[ensured.records EXCEPT ![k] = edit.r]} :
       \E trimmed \in {IF CarriesPayload(ev) THEN TrimTotal(edited) ELSE edited} :
           /\ records' = PruneExpired(trimmed)
           /\ unsent' = [unsent EXCEPT ![id] =
                  [sequence |-> hubSequence + 1,
                   messages |-> ensured.out \o edit.out \o ExpiryNotices(trimmed)]]
    /\ UNCHANGED now

\* The snapshot for a viewer that connects: what every record retains, in the
\* order of its sequence numbers, segments before events of the same number.
Replay(r) ==
    LET item(s, m) == [at |-> s, msg |-> m]
        segs   == [i \in DOMAIN r.segs |->
                     item(r.segs[i].sequence,
                          [t |-> "segment_append", id |-> r.id, seg |-> r.segs[i]])]
        events == [i \in DOMAIN r.events |->
                     item(r.events[i].sequence,
                          [t |-> "event_append", id |-> r.id, event |-> r.events[i]])]
        all    == segs \o events
        before(i, j) == all[i].at < all[j].at \/ (all[i].at = all[j].at /\ i < j)
        rank   == [i \in DOMAIN all |-> 1 + Cardinality({j \in DOMAIN all : before(j, i)})]
        sorted == [p \in DOMAIN all |-> all[CHOOSE i \in DOMAIN all : rank[i] = p].msg]
        usage  == IF r.usage = 0 THEN <<>>
                  ELSE <<[t |-> "usage", id |-> r.id, usage |-> r.usage]>>
    IN  <<[t |-> "request_upsert", id |-> r.id, status |-> r.status]>> \o usage
        \o sorted \o <<[t |-> "request_status", id |-> r.id, status |-> r.status]>>

\* A replayed segment is redacted as it was joined and trimmed.
SnapshotMessages(rs) ==
    RedactAll(<<[t |-> "hello"]>> \o FlattenSeq([k \in DOMAIN rs |-> Replay(rs[k])])
              \o <<[t |-> "snapshot_done"]>>)

TickHub ==
    /\ now < MaxNow
    /\ now' = now + 1
    /\ UNCHANGED <<records, hubSequence, unsent>>

HubInit ==
    /\ records = <<>>
    /\ hubSequence = 0
    /\ now = 0
    /\ unsent = [id \in Ids |-> NoUpdate]
=============================================================================
