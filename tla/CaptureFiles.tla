---------------------------- MODULE CaptureFiles ----------------------------
(***************************************************************************)
(* The files of turn captures over the life of several processes: a        *)
(* turn's sections under .work/<id>/, its artifact as <id>.json.tmp until  *)
(* the rename to <id>.json (src/src/turn_capture.rs), and the sweep each   *)
(* process starts when it is configured to (src/src/log_rotation.rs).      *)
(* TurnCapture has what the artifact holds and takes its assembly as one   *)
(* step; here it is step by step, since a process may stop between any     *)
(* two, and any call to the file system may fail.                          *)
(*                                                                         *)
(* A file is the time of its last change, 0 if there is none; the clock is *)
(* not set back.  Ids are not used again.                                  *)
(***************************************************************************)
EXTENDS Integers, Sequences

CONSTANTS CapturedTurns, \* the turns
          MaxAge,        \* debug_log_max_age_hours
          MaxHours,      \* bound on the clock
          MaxStarts      \* bound on the processes

ASSUME CaptureFilesAssumption ==
    {MaxHours, MaxStarts} \subseteq Nat /\ MaxAge \in Nat \ {0}

VARIABLES hour,     \* the clock
          starts,   \* processes started so far
          runs,     \* a process is running
          capture,  \* per turn, where its capture is: "none", "open",
                    \* "building", "built", "unbuilt", "emptied", "over", "lost"
          files,    \* per kind and turn, when the file was last changed
          whole,    \* the turns whose temporary file is complete
          sweep     \* [pass, since, left, stuck]: the sweep of the process

fileVars == <<hour, starts, runs, capture, files, whole, sweep>>

Kinds == {"work", "tmp", "artifact"}

\* The passes of a sweep in their order: dump files, work dirs, temporary ones.
Passes == <<"artifact", "work", "tmp">>

NoSweep == [pass |-> 0, since |-> 0, left |-> {}, stuck |-> {}]

IsAt(t, places) == runs /\ capture[t] \in places
Moves(t, place) == capture' = [capture EXCEPT ![t] = place]
Changed(kind, t) == [files EXCEPT ![kind][t] = hour]
Removed(kind, t) == [files EXCEPT ![kind][t] = 0]

-----------------------------------------------------------------------------
(* A turn's capture.                                                       *)

\* The writers of the sections make the work dir.
StartCapture(t) ==
    /\ IsAt(t, {"none"})
    /\ Moves(t, "open")
    /\ files' = Changed("work", t)
    /\ UNCHANGED <<hour, starts, runs, whole, sweep>>

WriteSection(t) ==
    /\ IsAt(t, {"open"})
    /\ files' = Changed("work", t)
    /\ UNCHANGED <<hour, starts, runs, capture, whole, sweep>>

BuildInPlace(t) ==
    /\ IsAt(t, {"open"})
    /\ Moves(t, "building")
    /\ files' = Changed("artifact", t)
    /\ UNCHANGED <<hour, starts, runs, whole, sweep>>

\* write_artifact_file: creates the temporary file, and ends with it synced.
BeginBuild(t) ==
    /\ IsAt(t, {"open"})
    /\ Moves(t, "building")
    /\ files' = Changed("tmp", t)
    /\ UNCHANGED <<hour, starts, runs, whole, sweep>>

Built(t) ==
    /\ IsAt(t, {"building"})
    /\ Moves(t, "built")
    /\ files' = Changed("tmp", t)
    /\ whole' = whole \cup {t}
    /\ UNCHANGED <<hour, starts, runs, sweep>>

\* What was written is dropped, if that does not fail as well.
NotBuilt(t) ==
    /\ IsAt(t, {"building"})
    /\ Moves(t, "unbuilt")
    /\ files' \in {files, Removed("tmp", t)}
    /\ UNCHANGED <<hour, starts, runs, whole, sweep>>

\* remove_work_dir_best_effort, after the eviction: a failure, also halfway
\* through the dir, is only logged.
WorkDirRemoved(t) ==
    /\ IsAt(t, {"built", "unbuilt"})
    /\ Moves(t, IF capture[t] = "built" THEN "emptied" ELSE "over")
    /\ files' \in {files, Changed("work", t), Removed("work", t)}
    /\ UNCHANGED <<hour, starts, runs, whole, sweep>>

\* The rename keeps the time of the file.
Renamed(t) ==
    /\ IsAt(t, {"emptied"})
    /\ Moves(t, "over")
    /\ files' = [Removed("tmp", t) EXCEPT !["artifact"][t] = files["tmp"][t]]
    /\ UNCHANGED <<hour, starts, runs, whole, sweep>>

NotRenamed(t) ==
    /\ IsAt(t, {"emptied"})
    /\ Moves(t, "over")
    /\ files' \in {files, Removed("tmp", t)}
    /\ UNCHANGED <<hour, starts, runs, whole, sweep>>

-----------------------------------------------------------------------------
(* The sweep.                                                              *)

Sweeping == runs /\ sweep.pass \in DOMAIN Passes
SweepIsOver == runs /\ sweep.pass > Len(Passes)

\* is_older_than_cutoff; a cutoff before all time is no cutoff.
Old(kind, t) == files[kind][t] \in 1..(sweep.since - MaxAge - 1)

\* An entry of the directory is looked at; what cannot be removed stays.
Visit(t) ==
    /\ Sweeping /\ t \in sweep.left
    /\ LET kind == Passes[sweep.pass]
       IN  \/ /\ ~Old(kind, t)
              /\ sweep' = [sweep EXCEPT !.left = @ \ {t}]
              /\ UNCHANGED files
           \/ /\ Old(kind, t)
              /\ files' = Removed(kind, t)
              /\ sweep' = [sweep EXCEPT !.left = @ \ {t}]
           \/ /\ Old(kind, t)
              /\ sweep' = [sweep EXCEPT !.left = @ \ {t}, !.stuck = @ \cup {<<kind, t>>}]
              /\ files' \in {files} \cup {Changed(kind, t) : k \in {kind} \cap {"work"}}
    /\ UNCHANGED <<hour, starts, runs, capture, whole>>

NextPass ==
    /\ Sweeping /\ sweep.left = {}
    /\ sweep' = [sweep EXCEPT !.pass = @ + 1, !.left = CapturedTurns]
    /\ UNCHANGED <<hour, starts, runs, capture, files, whole>>

-----------------------------------------------------------------------------
(* The processes.                                                          *)

\* spawn_cleanup, in the background of whatever the process does next; its
\* task reads the clock as it begins, here within the hour of the start.
Start(sweeps) ==
    /\ ~runs /\ starts < MaxStarts
    /\ runs' = TRUE /\ starts' = starts + 1
    /\ sweep' = IF sweeps
                THEN [pass |-> 1, since |-> hour, left |-> CapturedTurns, stuck |-> {}]
                ELSE NoSweep
    /\ UNCHANGED <<hour, capture, files, whole>>

\* The process stops: what it was doing is never finished.
Stop ==
    /\ runs
    /\ runs' = FALSE /\ sweep' = NoSweep
    /\ capture' = [t \in CapturedTurns |->
                      IF capture[t] \in {"none", "over"} THEN capture[t] ELSE "lost"]
    /\ UNCHANGED <<hour, starts, files, whole>>

HourPasses ==
    /\ hour < MaxHours
    /\ hour' = hour + 1
    /\ UNCHANGED <<starts, runs, capture, files, whole, sweep>>

FilesInit ==
    /\ hour = 1 /\ starts = 0 /\ runs = FALSE
    /\ capture = [t \in CapturedTurns |-> "none"]
    /\ files = [kind \in Kinds |-> [t \in CapturedTurns |-> 0]]
    /\ whole = {}
    /\ sweep = NoSweep

FilesNext ==
    \/ \E t \in CapturedTurns :
          \/ StartCapture(t) \/ WriteSection(t)
          \/ BeginBuild(t) \/ Built(t) \/ NotBuilt(t)
          \/ WorkDirRemoved(t) \/ Renamed(t) \/ NotRenamed(t)
          \/ Visit(t)
    \/ NextPass \/ Stop \/ HourPasses
    \/ \E sweeps \in BOOLEAN : Start(sweeps)

FilesSpec == FilesInit /\ [][FilesNext]_fileVars

-----------------------------------------------------------------------------
(* Properties.                                                             *)

\* assemble_blocking: "a visible <id>.json => a COMPLETE, valid artifact",
\* wherever a process stopped.
VisibleIsWhole == \A t \in CapturedTurns : files["artifact"][t] > 0 => t \in whole

\* log_rotation.rs 18-22: no sweep "reclaims an in-flight turn".
LivingAreSpared ==
    runs => \A t \in CapturedTurns :
        /\ capture[t] \in {"open", "building", "built"} => files["work"][t] > 0
        /\ capture[t] \in {"building", "built", "emptied"} => files["tmp"][t] > 0

\* What stopped processes and failed removals left behind, of any kind, is
\* gone after a sweep if it was past the age then and could be removed.
ResidueIsReclaimed ==
    SweepIsOver =>
        \A kind \in Kinds, t \in CapturedTurns :
            Old(kind, t) => <<kind, t>> \in sweep.stuck

\* The three together: nothing half-made is shown, nothing in use is taken,
\* nothing left behind stays (log_rotation.rs, spawn_cleanup).
CaptureFilesSound == VisibleIsWhole /\ LivingAreSpared /\ ResidueIsReclaimed
=============================================================================
