------------------------------- MODULE Snapshots -------------------------------
(***************************************************************************)
(* A dump on its way to the disk: the snapshot stage that produces chunks, *)
(* seals and publishes them, the volume's write lane it shares with the    *)
(* log, the two names its file can have, and crashes that keep only what   *)
(* was synced.                                                             *)
(*                                                                         *)
(* Sources: src/pending/src/snapshots.rs (Snapshots::round and what it     *)
(* calls), src/pending/src/files.rs (WriteLane, LaneFiles).                *)
(*                                                                         *)
(* A dump is a number and Chunks blocks.  A file is what was written into  *)
(* it, each write a dump's chunk at an offset, and the part that is        *)
(* synced; names and their durable counterparts point at files.            *)
(***************************************************************************)
EXTENDS Integers, Sequences, FiniteSets, SequencesExt, FiniteSetsExt

CONSTANTS
    Chunks,      \* blocks in a dump's stream
    Depth,       \* buffers of the lane
    Share,       \* the dump's share of them
    PerRound,    \* bytes_per_round, in blocks
    MaxDumps, MaxLogOps, MaxFaults, MaxCrashes,   \* bounds of the model
    None

\* A dump on its way: InFlight.
InFlight == [dump : Nat, produced : Nat, blocks : Nat, outstanding : Int,
             phase : {"filling", "sealing", "publishing", "draining"}, asked : BOOLEAN]

ASSUME SnapshotsAssumption ==
    /\ {Chunks, Depth, Share, PerRound, MaxDumps} \subseteq Nat \ {0}
    /\ {MaxLogOps, MaxFaults, MaxCrashes} \subseteq Nat
    /\ None \notin Nat /\ None \notin InFlight

VARIABLES
    lane,      \* operations the lane's thread has not done, in order
    done,      \* answers not collected
    file,      \* files by number: [wrote, synced]
    names,     \* partial, current -> a file's number, or 0
    dnames,    \* what of it a crash keeps
    owned,     \* LaneFiles: the cached handle of partial, dirty, created
    run,       \* InFlight, or None
    unsubmitted,
    dumps, finished, logops, faults, crashes

volume == <<lane, done, file, names, dnames, owned>>
vars == <<volume, run, unsubmitted, dumps, finished, logops, faults, crashes>>

-----------------------------------------------------------------------------
(* The lane.                                                               *)

\* submit: a buffer is free until its completion is collected.
Room == Depth - Len(lane) - Len(done)

Fresh == [handle |-> 0, dirty |-> FALSE, created |-> FALSE]

\* LaneFiles::write.  A creating write fails on a name that exists; any other
\* goes through the cached handle, opened by name if there is none.
Creates(a) == a.creating /\ names.partial = 0
Target(a) == IF a.creating THEN Len(file) + 1
             ELSE IF owned.handle # 0 THEN owned.handle ELSE names.partial
CanWrite(a) == IF a.creating THEN names.partial = 0 ELSE Target(a) # 0
Opened(a) ==
    /\ names' = [names EXCEPT !.partial = Target(a)]
    /\ owned' = [owned EXCEPT !.handle = Target(a), !.dirty = TRUE, !.created = TRUE]
LaneWrite(a) ==
    LET to == Target(a)
        was == IF a.creating THEN [wrote |-> {}, synced |-> {}] ELSE file[to]
        now == [was EXCEPT !.wrote = @ \cup {<<a.dump, a.offset, a.chunk>>}]
    IN /\ CanWrite(a)
       /\ file' = IF a.creating THEN Append(file, now) ELSE [file EXCEPT ![to] = now]
       /\ IF a.creating THEN Opened(a)
          ELSE /\ owned' = [owned EXCEPT !.handle = to, !.dirty = TRUE]
               /\ UNCHANGED names
       /\ UNCHANGED dnames

\* LaneFiles::barrier: the file's bytes, and then the directory's entries.
Synced(f) == [f EXCEPT !.synced = f.wrote]
LaneBarrier ==
    /\ file' = IF owned.dirty /\ owned.handle # 0
                 THEN [file EXCEPT ![owned.handle] = Synced(@)] ELSE file
    /\ dnames' = IF owned.created THEN names ELSE dnames
    /\ owned' = [owned EXCEPT !.dirty = FALSE, !.created = FALSE]
    /\ UNCHANGED names

LaneRemove ==
    /\ owned' = [owned EXCEPT !.handle = 0]
    /\ names' = [names EXCEPT !.partial = 0]
    /\ UNCHANGED <<file, dnames>>

\* LaneFiles::rename, the name and then (dirsync) the directory.
LaneRename ==
    /\ names.partial # 0
    /\ names' = [partial |-> 0, current |-> names.partial]
    /\ owned' = [owned EXCEPT !.handle = 0]
    /\ UNCHANGED <<file, dnames>>
\* A mutant: the directory is not synced.
LaneNoDirSync == UNCHANGED <<file, names, dnames, owned>>
LaneDirSync == dnames' = names /\ UNCHANGED <<file, names, owned>>

\* Operations of the log's on the same lane: its day's file is not this module's.
LaneOther == UNCHANGED <<file, names, dnames, owned>>

Answered(a, ok) == done' = Append(done, [owner |-> a.owner, op |-> a.op, ok |-> ok])

Works(a) ==
    CASE a.op = "write" /\ a.owner = "log" -> LaneOther
      [] a.op = "write" /\ a.owner = "snapshot" -> LaneWrite(a)
      [] a.op = "barrier" -> LaneBarrier
      [] a.op = "remove" -> LaneRemove
      [] a.op = "dirsync" -> LaneDirSync

\* What a failed operation may have done before it failed.
Fails(a) ==
    \/ LaneOther
    \/ a.op = "remove" /\ owned' = [owned EXCEPT !.handle = 0]
         /\ UNCHANGED <<file, names, dnames>>
    \/ a.op = "write" /\ a.owner = "snapshot" /\ Creates(a)
         /\ Opened(a) /\ file' = Append(file, [wrote |-> {}, synced |-> {}])
         /\ UNCHANGED dnames
    \/ a.op = "barrier" /\ owned.dirty /\ owned.handle # 0
         /\ file' = [file EXCEPT ![owned.handle] = Synced(@)]
         /\ UNCHANGED <<names, dnames, owned>>

\* serve: one operation, its answer behind it.
Serve ==
    /\ lane # <<>>
    /\ LET a == Head(lane) IN
         \/ /\ a.op # "rename" /\ Works(a) /\ Answered(a, TRUE)
            /\ lane' = Tail(lane) /\ UNCHANGED faults
         \/ /\ a.op = "rename" /\ LaneRename
            /\ lane' = [lane EXCEPT ![1].op = "dirsync"] /\ UNCHANGED <<done, faults>>
         \/ /\ faults < MaxFaults /\ faults' = faults + 1
            /\ Fails(a) /\ Answered(a, FALSE) /\ lane' = Tail(lane)
         \/ /\ \/ a.op = "write" /\ a.owner = "snapshot" /\ ~CanWrite(a)
               \/ a.op = "rename" /\ names.partial = 0
            /\ LaneOther /\ Answered(a, FALSE) /\ lane' = Tail(lane)
            /\ UNCHANGED faults
    /\ UNCHANGED <<run, unsubmitted, dumps, finished, logops, crashes>>

\* The file system commits its directory in its own time too.
Commit ==
    /\ dnames # names /\ dnames' = names
    /\ UNCHANGED <<lane, done, file, names, owned, run, unsubmitted, dumps,
                   finished, logops, faults, crashes>>

-----------------------------------------------------------------------------
(* The stage.                                                              *)

Op(name) == [owner |-> "snapshot", op |-> name]

\* begin: what a crash left under the partial's name goes first.
Begin ==
    /\ run = None /\ dumps < MaxDumps /\ Room > 0
    /\ dumps' = dumps + 1
    /\ lane' = Append(lane, Op("remove"))
    /\ run' = [dump |-> dumps', produced |-> 0, blocks |-> 0, outstanding |-> 1,
               phase |-> "filling", asked |-> FALSE]
    /\ unsubmitted' = FALSE
    /\ UNCHANGED <<done, file, names, dnames, owned, finished, logops, faults, crashes>>

\* give_up: the shadow goes now, the partial behind what is still out.
GivenUp(r) ==
    IF r.phase = "draining" THEN r
    ELSE [r EXCEPT !.phase = "draining", !.asked = FALSE]

\* The dispatch of a step's completions by the owner of their buffer.
OwnedBy(who, answers) ==
    LET kept[i \in 0..Len(answers)] ==
          IF i = 0 THEN <<>>
          ELSE IF answers[i].owner = who THEN Append(kept[i - 1], answers[i]) ELSE kept[i - 1]
    IN kept[Len(answers)]
Own == OwnedBy("snapshot", done)
\* The completions of a step, each against the phase the one before left.
Heard(r, d) ==
    [r EXCEPT !.outstanding = @ - 1,
              !.phase = IF d.ok /\ d.op = "barrier" /\ @ = "sealing" /\ r.asked
                          THEN "publishing" ELSE @,
              !.asked = IF d.ok /\ d.op = "barrier" /\ r.phase = "sealing" THEN FALSE ELSE @]
Broken == \E d \in ToSet(Own) : ~d.ok
Published(r) ==
    r.phase = "publishing" /\ r.asked
      /\ \E d \in ToSet(Own) : d.op = "dirsync" /\ d.ok

\* One block offered to the queue: kept as bytes if it is not taken, and the
\* stream's last block ends the filling.
Offered(st, chunk) ==
    LET r == st.r
        ask == [owner |-> "snapshot", op |-> "write", dump |-> r.dump, offset |-> r.blocks + 1,
                chunk |-> chunk, creating |-> r.blocks = 0]
        kept == [r EXCEPT !.produced = chunk]
        taken == [r EXCEPT !.produced = chunk, !.blocks = @ + 1, !.outstanding = @ + 1,
                           !.phase = IF chunk >= Chunks THEN "sealing" ELSE @]
    IN IF st.room = 0 THEN [st EXCEPT !.r = kept, !.held = TRUE, !.stop = TRUE]
       ELSE [st EXCEPT !.r = taken, !.held = FALSE, !.room = @ - 1, !.ops = Append(@, ask)]
\* A mutant: the chunk the queue refused is produced again.
FillAgain(st, i) ==
    IF st.r.phase # "filling" \/ st.stop \/ st.r.outstanding >= Share THEN [st EXCEPT !.stop = TRUE]
    ELSE Offered(st, st.r.produced + 1)
\* fill, one block of it: within the share, the chunk in hand or the next one.
Fill(st, i) ==
    IF st.r.phase # "filling" \/ st.stop \/ st.r.outstanding >= Share THEN [st EXCEPT !.stop = TRUE]
    ELSE Offered(st, IF st.held THEN st.r.produced ELSE st.r.produced + 1)

\* What a phase that has not been asked for asks of the queue.
Wanted(phase) ==
    CASE phase = "sealing" -> "barrier"
      [] phase = "publishing" -> "rename"
      [] phase = "draining" -> "remove"
\* The ask of a phase, made.
Made(st) ==
    LET r == [st.r EXCEPT !.asked = TRUE, !.outstanding = @ + 1]
    IN [st EXCEPT !.r = r, !.room = @ - 1, !.ops = Append(@, Op(Wanted(st.r.phase)))]
\* A mutant: a refused ask counts as made.
AskingOnce(st) ==
    IF st.r.phase = "filling" THEN FoldLeft(Fill, st, [i \in 1..PerRound |-> i])
    ELSE IF st.r.asked THEN st
    ELSE IF st.room = 0 THEN [st EXCEPT !.r.asked = TRUE]
    ELSE Made(st)
Asking(st) ==
    IF st.r.phase = "filling" THEN FoldLeft(Fill, st, [i \in 1..PerRound |-> i])
    ELSE IF st.r.asked \/ st.room = 0 THEN st
    ELSE Made(st)

\* step: the answers, the phase's own move, the shadow against its budget (which
\* only a stream not yet complete has), and whether the dump is over.
Step ==
    /\ run # None
    /\ LET heard == FoldLeft(Heard, run, Own)
           published == Published(run)
           kept == IF Broken THEN GivenUp(heard) ELSE heard
           st == Asking([r |-> kept, held |-> unsubmitted /\ ~Broken, stop |-> FALSE,
                         room |-> Room + Len(Own), ops |-> <<>>])
       IN \E over \in {FALSE, st.r.phase = "filling" /\ st.r.produced < Chunks} :
            LET r == IF over THEN GivenUp(st.r) ELSE st.r
                ends == r.outstanding = 0 /\ (published \/ (r.phase = "draining" /\ r.asked))
            IN /\ run' = IF ends THEN None ELSE r
               /\ unsubmitted' = (st.held /\ ~over)
               /\ lane' = lane \o st.ops
               /\ finished' = IF ends /\ published THEN r.dump ELSE finished
    /\ done' = OwnedBy("log", done)
    /\ UNCHANGED <<file, names, dnames, owned, dumps, logops, faults, crashes>>

\* abandon: the worker has taken a store fault.
Abandon ==
    /\ run # None /\ \E i \in DOMAIN done : done[i].owner = "log" /\ ~done[i].ok
    /\ run' = GivenUp(run)
    /\ unsubmitted' = FALSE
    /\ done' = Own
    /\ UNCHANGED <<lane, file, names, dnames, owned, dumps, finished, logops, faults, crashes>>

-----------------------------------------------------------------------------
(* The log's use of the lane, as far as it takes buffers and syncs.        *)

LogSubmit ==
    /\ Room > 0 /\ logops < MaxLogOps /\ logops' = logops + 1
    /\ \E name \in {"write", "barrier"} :
         lane' = Append(lane, [owner |-> "log", op |-> name])
    /\ UNCHANGED <<done, file, names, dnames, owned, run, unsubmitted, dumps,
                   finished, faults, crashes>>
LogCollect ==
    /\ \E i \in DOMAIN done : done[i].owner = "log"
    /\ \A i \in DOMAIN done : done[i].owner = "log" => done[i].ok \/ run = None
    /\ done' = Own
    /\ UNCHANGED <<lane, file, names, dnames, owned, run, unsubmitted, dumps,
                   finished, logops, faults, crashes>>

\* A crash keeps the synced bytes and any of the others, the durable names, and
\* nothing of the process.
Crash ==
    /\ crashes < MaxCrashes /\ crashes' = crashes + 1
    /\ \E kept \in [DOMAIN file -> SUBSET UNION {file[f].wrote : f \in DOMAIN file}] :
         /\ \A f \in DOMAIN file : file[f].synced \subseteq kept[f] /\ kept[f] \subseteq file[f].wrote
         /\ file' = [f \in DOMAIN file |-> [wrote |-> kept[f], synced |-> kept[f]]]
    /\ names' = dnames
    /\ owned' = Fresh /\ lane' = <<>> /\ done' = <<>>
    /\ run' = None /\ unsubmitted' = FALSE
    /\ UNCHANGED <<dnames, dumps, finished, logops, faults>>

Init ==
    /\ lane = <<>> /\ done = <<>> /\ file = <<>>
    /\ names = [partial |-> 0, current |-> 0] /\ dnames = names
    /\ owned = Fresh /\ run = None /\ unsubmitted = FALSE
    /\ dumps = 0 /\ finished = 0 /\ logops = 0 /\ faults = 0 /\ crashes = 0

Next ==
    \/ Serve \/ Commit \/ Begin \/ Step \/ Abandon
    \/ LogSubmit \/ LogCollect \/ Crash

\* Either thread may be slow, but while one of them has something to do it is
\* done in the end.
Work == Step \/ Serve \/ LogCollect \/ Abandon
Fairness == WF_vars(Work)

Spec == Init /\ [][Next]_vars /\ Fairness

-----------------------------------------------------------------------------
(* Properties.                                                             *)

Stream(d) == {<<d, c, c>> : c \in 1..Chunks}
\* read_into, of a file: the dump a restart gets from it, or None (Malformed).
ReadInto(blocks) ==
    LET whole == {d \in 1..dumps : Stream(d) \subseteq blocks}
    IN IF whole = {} THEN None ELSE Max(whole)

\* Whatever has the current name, now or after a crash, is a whole dump on the
\* disk: never a stream short of a chunk, nor bytes no barrier covered.
\* (snapshots.rs step: the rename waits for the barrier's answer.)
CurrentIsWhole ==
    \A f \in {names.current, dnames.current} \ {0} :
      /\ ReadInto(file[f].synced) # None
      /\ file[f].wrote \subseteq Stream(ReadInto(file[f].synced))

\* A dump the stage has counted as written is what a restart reads, or a later
\* one is: it does not come back from a crash as the one before.
\* (snapshots.rs finish, after rename's directory sync.)
FinishedStays ==
    finished # 0 =>
      /\ dnames.current # 0
      /\ ReadInto(file[dnames.current].synced) >= finished

\* A dump that has begun ends, published or given up, whatever the volume
\* refuses and whatever the log asks of it.
DumpEnds == (run # None) ~> (run = None)
===============================================================================
