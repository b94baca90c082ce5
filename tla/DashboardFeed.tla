---------------------------- MODULE DashboardFeed ----------------------------
(***************************************************************************)
(* /dashboard/ws (src/src/dashboard_ws.rs): what a connected dashboard is  *)
(* shown of the flow store, the metrics, the provider topology and the     *)
(* monitor hub.  The socket subscribes to the hub, reads each store under  *)
(* its own lock, sends one snapshot, and goes on with the hub's updates    *)
(* and two tickers.  The page (dashboard-frontend/src/api/ws.ts) keeps one *)
(* cursor per domain and drops a frame that is not above it.               *)
(*                                                                         *)
(* The engine's side is the part of a turn that the stores and the hub     *)
(* see.  Of the hub (MonitorHub has all of it) there is the numbering of   *)
(* the updates under its lock, the sending after the lock, and the ids     *)
(* whose status an update tells.  A frame is applied when it is sent, for  *)
(* the socket is in order and a frame lost with the socket is a socket     *)
(* closed before it.                                                       *)
(***************************************************************************)
EXTENDS Integers, Sequences, FiniteSets
LOCAL INSTANCE SequencesExt

CONSTANTS
    Ids,         \* response ids; the task of a response emits its events
    MaxSequence, \* bound on the events emitted
    ChannelCap,  \* updates the broadcast channel holds
    MaxVersion,  \* bound on the topology's versions
    MaxSockets   \* bound on the sockets opened

ASSUME DashboardFeedAssumption ==
    /\ ChannelCap \in Nat \ {0}
    /\ {MaxSequence, MaxVersion, MaxSockets} \subseteq Nat

VARIABLES
    hubSequence, \* the hub's last_sequence
    unsent,     \* per emitter, the update applied and not yet broadcast
    turn,       \* per flow, where its turn is
    status,     \* per flow, the record's status in the flow store
    counted,    \* metrics_seq: the terminals recorded
    version,    \* the version of the published topology
    socket,     \* where dashboard_socket is
    sockets,    \* sockets opened so far
    local,      \* what the socket has read
    queue,      \* updates of the hub the socket has not received
    page,       \* what the page shows
    cursor,     \* the page's cursor per domain
    heard,      \* numbers of the live updates the page applied
    overtaken   \* since the snapshot's number was read, an update was
                \* broadcast before one of a smaller number

hubVars    == <<hubSequence, unsent>>
storeVars  == <<turn, status, counted, version>>
socketVars == <<socket, sockets, local, queue>>
pageVars   == <<page, cursor, heard>>
feedVars   == <<hubVars, storeVars, socketVars, pageVars, overtaken>>

None == "none"
NoUpdate == [sequence |-> 0, tells |-> {}]

Terminal == {"completed", "failed", "cancelled"}
Active == Cardinality({id \in Ids : status[id] = "open"})

-----------------------------------------------------------------------------
(* The turns. *)

\* emit_with: the event is numbered under the hub's lock; tells are the ids
\* of its RequestStatus messages.
Emit(id, tells) ==
    /\ hubSequence < MaxSequence
    /\ hubSequence' = hubSequence + 1
    /\ unsent' = [unsent EXCEPT ![id] = [sequence |-> hubSequence + 1, tells |-> tells]]

TurnStep(id, from, to) ==
    /\ turn[id] = from
    /\ unsent[id] = NoUpdate
    /\ turn' = [turn EXCEPT ![id] = to]
    /\ UNCHANGED <<socketVars, pageVars, overtaken, version>>

Finalize(id, s) ==
    status' = [status EXCEPT ![id] = s]

\* The middleware opens the record.
OpenFlow(id) ==
    /\ TurnStep(id, "new", "opened")
    /\ Finalize(id, "open")
    /\ UNCHANGED <<hubVars, counted>>

\* The client leaves before the turn is spawned: the dropped guard finalizes
\* the record, and no event tells of it.
Abandon(id) ==
    /\ TurnStep(id, "opened", "over")
    /\ Finalize(id, "cancelled")
    /\ UNCHANGED <<hubVars, counted>>

StartTurn(id) ==
    /\ TurnStep(id, "opened", "running")
    /\ Emit(id, {})
    /\ UNCHANGED <<status, counted>>

\* run_turn emits Completed and returns; its caller finalizes the record and
\* records the terminal.
TellCompleted(id) ==
    /\ TurnStep(id, "running", "returned")
    /\ Emit(id, {id})
    /\ UNCHANGED <<status, counted>>

FinalizeCompleted(id) ==
    /\ TurnStep(id, "returned", "finalized")
    /\ Finalize(id, "completed")
    /\ UNCHANGED <<hubVars, counted>>

\* A turn that failed, or was cancelled, is finalized and recorded before
\* Failed is emitted.
FinalizeFailed(id) ==
    /\ TurnStep(id, "running", "finalized")
    /\ Finalize(id, "failed")
    /\ UNCHANGED <<hubVars, counted>>

RecordTerminal(id) ==
    /\ TurnStep(id, "finalized", IF status[id] = "completed" THEN "over" ELSE "recorded")
    /\ counted' = counted + 1
    /\ UNCHANGED <<hubVars, status>>

FailSilently(id) ==
    /\ TurnStep(id, "recorded", "over")
    /\ UNCHANGED <<hubVars, status, counted>>

TellFailed(id) ==
    /\ TurnStep(id, "recorded", "over")
    /\ Emit(id, {id})
    /\ UNCHANGED <<status, counted>>

\* The socket subscribes before it reads anything.
ListensAfterReading == socket \notin {"off", "subscribed", "transcript"}
Listens == socket # "off"

\* tx.send(update), after the lock was released.
Broadcast(id) ==
    LET u      == unsent[id]
        full   == Len(queue) >= ChannelCap
        passes == \E o \in Ids : unsent[o].sequence \in 1..(u.sequence - 1)
    IN  /\ u # NoUpdate
        /\ unsent' = [unsent EXCEPT ![id] = NoUpdate]
        /\ overtaken' = (socket # "off" /\ (overtaken \/ passes))
        /\ queue' = CASE ~Listens -> queue
                      [] Listens /\ full -> Append(Tail(queue), u)
                      [] OTHER -> Append(queue, u)
        /\ local' = IF Listens /\ full THEN [local EXCEPT !.lagged = TRUE] ELSE local
        /\ UNCHANGED <<hubSequence, storeVars, socket, sockets, pageVars>>

PublishTopology ==
    /\ version < MaxVersion
    /\ version' = version + 1
    /\ UNCHANGED <<hubVars, turn, status, counted, socketVars, pageVars, overtaken>>

-----------------------------------------------------------------------------
(* The page. *)

\* One cursor per domain.
Domains == {"flow", "monitor", "metrics", "topology"}

\* A live frame of the domain: applied if it is above the cursor.
Fresh(domain, seq) == seq > cursor[domain]

\* The snapshot replaces rows and cursors; the transcript it is followed by
\* is stamped with the hub's number too, and the monitor's cursor begins at 0.
InstallSnapshot(rows) ==
    /\ page' = [rows |-> rows, counted |-> local.counted, active |-> local.active,
                version |-> local.version]
    /\ cursor' = [flow |-> local.last, monitor |-> local.last,
                  metrics |-> local.counted, topology |-> local.version]
    /\ heard' = {}

-----------------------------------------------------------------------------
(* The socket. *)

NothingRead == [last |-> 0, counted |-> 0, active |-> 0, version |-> 0,
                emitted |-> 0, lagged |-> FALSE, tick |-> 0]

SocketStep(from, to) ==
    /\ socket = from
    /\ socket' = to
    /\ overtaken' = (overtaken /\ to # "transcript")
    /\ UNCHANGED storeVars

Reads(from, to, read) ==
    /\ SocketStep(from, to)
    /\ local' = read
    /\ UNCHANGED <<sockets, queue, pageVars>>

Subscribe ==
    /\ sockets < MaxSockets
    /\ SocketStep("off", "subscribed")
    /\ sockets' = sockets + 1
    /\ UNCHANGED <<hubVars, local, queue, pageVars>>

ReadTranscript ==
    /\ SocketStep("subscribed", "transcript")
    /\ local' = [local EXCEPT !.last = hubSequence]
    /\ UNCHANGED <<hubVars, sockets, queue, pageVars>>

ReadMetrics ==
    /\ Reads("transcript", "metrics", [local EXCEPT !.counted = counted, !.emitted = counted])
    /\ UNCHANGED hubVars

ReadActive ==
    /\ Reads("metrics", "active", [local EXCEPT !.active = Active])
    /\ UNCHANGED hubVars

ReadTopology ==
    /\ Reads("active", "topology", [local EXCEPT !.version = version])
    /\ UNCHANGED hubVars

\* The summaries are read last, and the snapshot and the replay are sent.
SendInitial ==
    /\ SocketStep("topology", "live")
    /\ InstallSnapshot(status)
    /\ UNCHANGED <<hubVars, sockets, local, queue>>

ReceiveUpdate ==
    LET u    == Head(queue)
        live == u.sequence > local.last
        flow == live /\ u.tells # {}
    IN  /\ SocketStep("live", "live")
        /\ queue # <<>> /\ ~local.lagged
        /\ queue' = Tail(queue)
        /\ page' = IF flow /\ Fresh("flow", u.sequence)
                   THEN [page EXCEPT !.rows =
                            [id \in Ids |-> IF id \in u.tells THEN status[id] ELSE @[id]]]
                   ELSE page
        /\ cursor' = [cursor EXCEPT
               !.flow = IF flow /\ u.sequence > @ THEN u.sequence ELSE @,
               !.monitor = IF live /\ u.sequence > @ THEN u.sequence ELSE @]
        /\ heard' = IF live /\ Fresh("monitor", u.sequence)
                    THEN heard \cup {u.sequence} ELSE heard
        /\ UNCHANGED <<hubVars, sockets, local>>

\* The ticker reads the metrics, then counts the open flows.
TickReads ==
    /\ Reads("live", "ticking", [local EXCEPT !.tick = counted])
    /\ UNCHANGED hubVars

NextMetricsCursor(seq) == IF seq > local.emitted THEN seq ELSE local.emitted + 1

TerminalsMoved == local.tick # local.counted
MetricsMoved == local.tick # local.counted \/ Active # local.active

TickSends ==
    LET seq     == NextMetricsCursor(local.tick)
        changed == MetricsMoved
        fresh   == Fresh("metrics", seq)
    IN  /\ SocketStep("ticking", "live")
        /\ local' = IF changed
                    THEN [local EXCEPT !.counted = local.tick, !.active = Active,
                                       !.emitted = seq, !.tick = 0]
                    ELSE [local EXCEPT !.tick = 0]
        /\ page' = IF changed /\ fresh
                   THEN [page EXCEPT !.counted = local.tick, !.active = Active] ELSE page
        /\ cursor' = IF changed /\ fresh THEN [cursor EXCEPT !.metrics = seq] ELSE cursor
        /\ UNCHANGED <<hubVars, sockets, queue, heard>>

TopologyTick ==
    LET fresh == Fresh("topology", version)
    IN  /\ SocketStep("live", "live")
        /\ version # local.version
        /\ local' = [local EXCEPT !.version = version]
        /\ page' = IF fresh THEN [page EXCEPT !.version = version] ELSE page
        /\ cursor' = IF fresh THEN [cursor EXCEPT !.topology = version] ELSE cursor
        /\ UNCHANGED <<hubVars, sockets, queue, heard>>

\* The page goes on showing what it has; the next snapshot sets the cursors.
Closed ==
    /\ socket' = "off"
    /\ queue' = <<>>
    /\ local' = NothingRead
    /\ cursor' = [d \in Domains |-> 0]
    /\ heard' = {}
    /\ overtaken' = FALSE
    /\ UNCHANGED <<hubVars, storeVars, sockets, page>>

\* A socket that fell behind is closed; the page opens another.
Lag ==
    /\ socket = "live" /\ local.lagged
    /\ Closed

\* The session expires, the page goes away, or a frame cannot be sent.
CloseSocket ==
    /\ socket # "off"
    /\ Closed

-----------------------------------------------------------------------------
FeedInit ==
    /\ hubSequence = 0
    /\ unsent = [id \in Ids |-> NoUpdate]
    /\ turn = [id \in Ids |-> "new"]
    /\ status = [id \in Ids |-> None]
    /\ counted = 0
    /\ version = 0
    /\ socket = "off"
    /\ sockets = 0
    /\ local = NothingRead
    /\ queue = <<>>
    /\ page = [rows |-> [id \in Ids |-> None], counted |-> 0, active |-> 0, version |-> 0]
    /\ cursor = [d \in Domains |-> 0]
    /\ heard = {}
    /\ overtaken = FALSE

TurnNext(id) ==
    \/ OpenFlow(id) \/ Abandon(id) \/ StartTurn(id)
    \/ TellCompleted(id) \/ FinalizeCompleted(id)
    \/ FinalizeFailed(id) \/ RecordTerminal(id) \/ TellFailed(id)

SetUp == Subscribe \/ ReadTranscript \/ ReadMetrics \/ ReadActive \/ ReadTopology \/ SendInitial
Serve == ReceiveUpdate \/ TickReads \/ TickSends \/ TopologyTick \/ Lag

FeedNext ==
    \/ \E id \in Ids : TurnNext(id) \/ Broadcast(id)
    \/ PublishTopology
    \/ SetUp \/ Serve \/ CloseSocket

FeedSpec == FeedInit /\ [][FeedNext]_feedVars

\* The emitter goes on after its event; the socket's task runs, its channel
\* is polled first and its two intervals fire again and again.
FeedFairness ==
    /\ \A id \in Ids : WF_feedVars(Broadcast(id))
    /\ SF_feedVars(ReceiveUpdate) /\ SF_feedVars(Lag)
    /\ WF_feedVars(TickSends)
    /\ SF_feedVars(TickReads) /\ SF_feedVars(TopologyTick)
FairFeedSpec == FeedSpec /\ FeedFairness

-----------------------------------------------------------------------------
Live == socket \in {"live", "ticking"}
Quiet ==
    /\ Live
    /\ queue = <<>> /\ ~local.lagged
    /\ \A id \in Ids : unsent[id] = NoUpdate

\* Every update of the hub after the snapshot's number is applied by the page,
\* although it subscribes before it reads the number: none falls between, and
\* none is dropped by the cursor, as long as updates are sent in the order of
\* their numbers.
Complete == heard = (local.last + 1)..hubSequence
PageHearsEverything == Quiet /\ ~overtaken => Complete

\* The same of every update: "no leapfrog, no dropped final frame".
NoUpdateIsDropped == Quiet => Complete

\* A flow that failed or was cancelled in its turn is shown so once the page
\* has caught up: its event comes after its record is final, and the snapshot
\* shows rows at least as new as its cursor.
FailuresAreShown ==
    Quiet /\ ~overtaken =>
        \A id \in Ids :
            turn[id] = "over" /\ status[id] = "failed" => page.rows[id] = "failed"

\* A page that stays connected is shown the metrics, the open flows and the
\* topology of the moment again and again, whatever changed when.
Current ==
    page.counted = counted /\ page.active = Active /\ page.version = version
PageCatchesUp == []<>(~Live \/ Current)
=============================================================================
