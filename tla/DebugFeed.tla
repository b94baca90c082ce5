------------------------------ MODULE DebugFeed ------------------------------
(***************************************************************************)
(* /debug/ws: the socket that replays the hub's snapshot and then forwards *)
(* its updates (src/src/debug_ui.rs), and the page that folds the messages *)
(* into request cards (src/src/debug_app.js).  The broadcast channel is a  *)
(* bounded queue for the one socket: a socket that falls behind loses the  *)
(* oldest updates, is told so, and starts over from a new snapshot.        *)
(***************************************************************************)
EXTENDS MonitorHub
LOCAL INSTANCE SequencesExt
LOCAL INSTANCE Functions

CONSTANTS
    Inputs,     \* the events the tasks emit
    ChannelCap, \* updates the broadcast channel holds
    MaxWatched  \* bound on the events emitted while a socket is open

ASSUME DebugFeedAssumption == ChannelCap \in Nat \ {0} /\ MaxWatched \in Nat

VARIABLES
    task,       \* per id, the task that emits its events: "new", "running", "over"
    socket,     \* "off", "subscribed", "live"
    queue,      \* updates the socket has not received
    lagged,     \* the channel dropped an update the socket had not received
    base,       \* last_sequence of the snapshot in force
    page,       \* the page's cards: the messages of an id folded
    overtaken,  \* an update was broadcast before one of a smaller number
    untold,     \* the ids whose removal no update told of
    raw,        \* per id, the text events emitted since its record was started
    heard       \* per id, the pieces of text appended since its record was started

socketVars == <<socket, queue, lagged, base, page>>
ghosts == <<overtaken, untold, raw, heard>>
debugVars == <<hubVars, task, socketVars, ghosts>>

-----------------------------------------------------------------------------
(* The page. *)

EmptyCard == [status |-> "running", usage |-> 0, segs |-> <<>>, events |-> <<>>, brk |-> FALSE]
NoCards == [x \in {} |-> EmptyCard]
CardOf(p, id) == IF id \in DOMAIN p THEN p[id] ELSE EmptyCard
WithCard(p, id, card) == [x \in DOMAIN p \cup {id} |-> IF x = id THEN card ELSE p[x]]

Merge(card, seg) ==
    LET s == [payload |-> seg.payload, kind |-> seg.kind, text |-> seg.text]
        joins == /\ card.segs # <<>>
                 /\ Last(card.segs).kind = seg.kind
                 /\ Last(card.segs).payload = seg.payload
                 /\ ~card.brk
    IN  IF joins
        THEN [card EXCEPT !.segs =
                 TrimPrefix([card.segs EXCEPT ![Len(card.segs)].text = @ \o seg.text])]
        ELSE [card EXCEPT !.segs = TrimPrefix(Append(@, s)), !.brk = FALSE]

\* brk keeps the text of a new upstream round apart; a replay does not set it.
Show(p, m, replaying) ==
    CASE m.t = "hello"          -> NoCards
      [] m.t = "request_remove" -> [x \in DOMAIN p \ {m.id} |-> p[x]]
      [] m.t = "snapshot_done"  -> p
      [] m.t = "request_upsert" -> WithCard(p, m.id, [CardOf(p, m.id) EXCEPT !.status = m.status])
      [] m.t = "segment_append" -> WithCard(p, m.id, Merge(CardOf(p, m.id), m.seg))
      [] m.t = "event_append"   ->
            WithCard(p, m.id, [CardOf(p, m.id) EXCEPT
                !.events = Append(@, m.event.sequence),
                !.brk = @ \/ (m.event.kind \in PayloadKinds /\ ~replaying)])
      [] m.t = "usage"          -> WithCard(p, m.id, [CardOf(p, m.id) EXCEPT !.usage = m.usage])
      [] m.t = "request_status" -> WithCard(p, m.id, [CardOf(p, m.id) EXCEPT !.status = m.status])

ShowAll(p, messages, replaying) ==
    FoldLeft(LAMBDA q, m : Show(q, m, replaying), p, messages)

Replayed == ShowAll(page, SnapshotMessages(PruneExpired(records)), TRUE)

-----------------------------------------------------------------------------
(* The socket. *)

Snapshot ==
    /\ records' = PruneExpired(records)
    /\ base' = hubSequence
    /\ page' = Replayed
    /\ overtaken' = FALSE
    /\ untold' = {}

Connect ==
    /\ socket = "off"
    /\ socket' = "subscribed"
    /\ UNCHANGED <<hubVars, task, queue, lagged, base, page, ghosts>>

ReplaySnapshot ==
    /\ socket = "subscribed"
    /\ Snapshot
    /\ socket' = "live"
    /\ UNCHANGED <<hubSequence, now, unsent, task, queue, lagged, raw, heard>>

ReceiveAll ==
    /\ socket = "live"
    /\ ~lagged
    /\ queue # <<>>
    /\ queue' = Tail(queue)
    /\ page' = ShowAll(page, Head(queue).messages, FALSE)
    /\ UNCHANGED <<hubVars, task, socket, lagged, base, ghosts>>

Receive ==
    /\ socket = "live"
    /\ ~lagged
    /\ queue # <<>>
    /\ queue' = Tail(queue)
    /\ page' = IF Head(queue).sequence <= base THEN page
               ELSE ShowAll(page, Head(queue).messages, FALSE)
    /\ UNCHANGED <<hubVars, task, socket, lagged, base, ghosts>>

\* RecvError::Lagged: a new snapshot replaces what the page shows.
Resync ==
    /\ socket = "live"
    /\ lagged
    /\ Snapshot
    /\ lagged' = FALSE
    /\ UNCHANGED <<hubSequence, now, unsent, task, socket, queue, raw, heard>>

\* The session expires, or a message cannot be sent: the receiver is dropped.
\* What the page shows without a socket is not looked at: the next replay
\* begins with a hello that clears it.
Disconnect ==
    /\ socket # "off"
    /\ socket' = "off"
    /\ queue' = <<>>
    /\ lagged' = FALSE
    /\ base' = 0
    /\ page' = NoCards
    /\ UNCHANGED <<hubVars, task, ghosts>>

-----------------------------------------------------------------------------
(* The hub, and what its tasks said. *)

PiecesOf(messages, id) ==
    LET told == SelectSeq(messages, LAMBDA m : m.t = "segment_append" /\ m.id = id)
    IN  [i \in DOMAIN told |-> [kind |-> told[i].seg.kind, payload |-> told[i].seg.payload,
                                text |-> told[i].seg.text]]

TextSources == {"output", "reasoning", "refusal", "arguments", "phase", "failed", "completed"}

\* A task starts its response once, before its other events.
DebugEmit(id, ev) ==
    LET fresh == ev.t = "request_started" \/ ~Has(records, id)
    IN  /\ task[id] = (IF ev.t = "request_started" THEN "new" ELSE "running")
        /\ task' = [task EXCEPT ![id] =
               IF ev.t \in {"completed", "failed"} THEN "over" ELSE "running"]
        /\ socket = "off" \/ hubSequence < MaxWatched
        /\ Emit(id, ev)
        /\ raw' = [raw EXCEPT ![id] =
               (IF fresh THEN <<>> ELSE @) \o (IF ev.t \in TextSources THEN <<ev>> ELSE <<>>)]
        /\ heard' = [heard EXCEPT ![id] =
               (IF fresh THEN <<>> ELSE @) \o PiecesOf(unsent'[id].messages, id)]
        /\ UNCHANGED <<socketVars, overtaken, untold>>

\* After the lock was released, the URIs are redacted message by message, and
\* tx.send(update).
Broadcast(id) ==
    LET u      == unsent[id]
        longer == Append(queue, [u EXCEPT !.messages = RedactAll(@)])
        over   == Len(longer) > ChannelCap
    IN  /\ u # NoUpdate
        /\ unsent' = [unsent EXCEPT ![id] = NoUpdate]
        /\ overtaken' = (overtaken \/ \E o \in Ids : unsent[o].sequence \in 1..(u.sequence - 1))
        /\ IF socket = "off" THEN UNCHANGED <<queue, lagged>>
           ELSE /\ queue' = IF over THEN Tail(longer) ELSE longer
                /\ lagged' = (lagged \/ over)
        /\ UNCHANGED <<records, hubSequence, now, task, socket, base, page, untold, raw, heard>>

DebugTick == TickHub /\ UNCHANGED <<task, socketVars, ghosts>>

\* Another viewer's snapshot, or the detail view's replay of the transcript,
\* prunes the records too and drops the notices.
SnapshotElsewhere ==
    /\ records' = PruneExpired(records)
    /\ untold' = untold \cup {r.id : r \in {q \in Range(records) : Expired(q)}}
    /\ UNCHANGED <<hubSequence, now, unsent, task, socketVars, overtaken, raw, heard>>

DebugInit ==
    /\ HubInit
    /\ task = [id \in Ids |-> "new"]
    /\ socket = "off"
    /\ queue = <<>>
    /\ lagged = FALSE
    /\ base = 0
    /\ page = NoCards
    /\ overtaken = FALSE
    /\ untold = {}
    /\ raw = [id \in Ids |-> <<>>]
    /\ heard = [id \in Ids |-> <<>>]

DebugNext ==
    \/ \E id \in Ids, ev \in Inputs : DebugEmit(id, ev)
    \/ \E id \in Ids : Broadcast(id)
    \/ DebugTick \/ SnapshotElsewhere
    \/ Connect \/ ReplaySnapshot \/ Receive \/ Resync \/ Disconnect

-----------------------------------------------------------------------------
Quiet ==
    /\ socket = "live"
    /\ queue = <<>> /\ ~lagged
    /\ \A id \in Ids : unsent[id] = NoUpdate

SameSegment(p, q) == p.kind = q.kind /\ p.payload = q.payload

\* A URI in p goes on in q.
Continues(p, q) ==
    LET uri == InUri(p.text \o q.text)
    IN  SameSegment(p, q) /\ {Len(p.text), Len(p.text) + 1} \subseteq uri

Longer(texts) == Len(FlattenSeq(texts)) > TextLimit

\* The pieces redacted one by one are the text redacted as a whole, and no URI
\* is in a text that the hub, or the page, has trimmed.
RedactedAlike(pieces) ==
    LET told == [i \in DOMAIN pieces |-> pieces[i].text]
        sent == [i \in DOMAIN pieces |-> Redacted(told[i])]
    IN  /\ \A i \in 2..Len(pieces) : ~Continues(pieces[i - 1], pieces[i])
        /\ told = sent \/ (~Longer(told) /\ ~Longer(sent))

\* A page that followed the updates shows of every record what a page that
\* connects now is shown (emit_with's updates against snapshot's messages, and
\* the socket's choice between them by sequence number and after a lag),
\* unless updates overtook each other on their way to the channel.  Left out
\* are records that expired in another viewer's snapshot: nobody is told, and
\* the page drops their cards by its own clock.  The texts are the same unless
\* URIs are redacted in other pieces than they were told: a URI that goes on in
\* the next delta (redact_ws_message_image_uris: "only partially matched in the
\* per-chunk live message"), or one in a text that was long enough to be trimmed.
PageShowsRecords ==
    Quiet /\ ~overtaken =>
        LET fresh == ShowAll(NoCards, SnapshotMessages(records), TRUE)
        IN  \A id \in DOMAIN fresh \ untold :
                /\ id \in DOMAIN page
                /\ page[id].status = fresh[id].status
                /\ page[id].usage = fresh[id].usage
                /\ RedactedAlike(heard[id]) => page[id].segs = fresh[id].segs
                /\ IsSuffix(fresh[id].events, page[id].events)

\* The output text with its escapes undone as if it had come in one piece; a
\* "|" is where text of another source ends a run of output.
Stream(events) ==
    FlattenSeq([i \in DOMAIN events |->
        CASE events[i].t = "output"  -> events[i].delta
          [] events[i].t = "refusal" -> <<>>
          [] OTHER                   -> <<"|">>])
Unescaped(s) ==
    LET escape[i \in 0..Len(s)] ==
            /\ i > 0 /\ i < Len(s) /\ s[i] = "b" /\ s[i + 1] # "|"
            /\ ~escape[i - 1]
    IN  FlattenSeq([i \in DOMAIN s |->
            CASE escape[i] /\ s[i + 1] = "n" -> <<>>
              [] escape[i - 1] /\ s[i] = "n" -> <<"N">>
              [] OTHER                       -> <<s[i]>>])
OutputChars == {"b", "n", "d", ":"}
OtherText(events) ==
    FlattenSeq([i \in DOMAIN events |->
        IF events[i].t \in {"output", "completed", "failed"} THEN <<>> ELSE events[i].delta])

\* But for newlines, every character of every delta is told to the viewers once
\* and in its source's order, and the escaped newlines of the output are undone
\* the same way however the upstream cuts its deltas (normalize_output_newlines
\* and its pending backslash, flushed by whatever comes between).  This is said
\* of the messages as the hub makes them, before URIs are redacted; newlines
\* are not compared, because the hub adds some of its own between sources.
EveryCharacterIsTold ==
    \A k \in DOMAIN records :
        LET r == records[k]
            text     == FlattenSeq([i \in DOMAIN heard[r.id] |-> heard[r.id][i].text])
            told(cs) == SelectSeq(text, LAMBDA c : c \in cs)
            pending == IF r.backslash THEN <<"b">> ELSE <<>>
        IN  /\ told(OutputChars) \o pending
                  = SelectSeq(Unescaped(Stream(raw[r.id])), LAMBDA c : c \in OutputChars)
            /\ told({"g", "r", "a", "p"}) = OtherText(raw[r.id])

=============================================================================
