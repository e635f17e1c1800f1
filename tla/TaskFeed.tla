------------------------------ MODULE TaskFeed ------------------------------
(***************************************************************************)
(* What the followers of one task are shown.  The agent's run emits its    *)
(* events one after the other, each posted until it is answered or given   *)
(* up; the receiver applies those past the row's high-water mark to the    *)
(* stage rows and to the task's row, and fans them out to the open         *)
(* /tasks/{id}/watch streams.  A stream begins with a snapshot of the rows *)
(* unless its Last-Event-ID is current; the ids of snapshots and of events *)
(* are the same sequence.  Other followers repeat /tasks/{id}/wait, which  *)
(* holds the request until the row moves on.  The api also ends the task   *)
(* by itself: when task.begin fails, when a queued task is cancelled, and, *)
(* without an event, when it sweeps the expired leases.                    *)
(*   row     the tasks row: state, last_event_sequence, terminal_at        *)
(*   stage   the task_stages rows, by stage_index                          *)
(*   call    the task.begin call; base is the sequence its caller read     *)
(*   run     the agent's run, with the event it publishes                  *)
(*   way     whether a follower opens streams or long-polls                *)
(*   on      whether its stream is open, or its request held               *)
(*   wire    the frames on their way in the stream of each follower        *)
(*   view    what a follower has put together from its frames              *)
(*   odd     history: what the followers are not told of                   *)
(***************************************************************************)
EXTENDS Integers, Sequences

CONSTANTS
    Follower,
    NStages,     \* executor stages of the run
    MaxFaults    \* bound: lost answers and events, failed begins, sweeps, crashes, breaks

ASSUME FeedBounds == NStages \in Nat \ {0} /\ MaxFaults \in Nat

VARIABLES row, stage, up, call, base, run, way, on, wire, view, odd, faults
vars == <<row, stage, up, call, base, run, way, on, wire, view, odd, faults>>

Terminal == {"success", "failed", "cancelled", "requires_manual_recovery"}
Index    == 0..(NStages + 1)
Status   == {"running", "success", "failed"}
Name     == {"snapshot_before", "stage", "snapshot_after", "rollback"}
NoStage  == [name |-> "none", status |-> "none"]
Stage    == [name : Name, status : Status] \cup {NoStage}
NoId     == -1

Fault == faults < MaxFaults /\ faults' = faults + 1

-----------------------------------------------------------------------------
(***************************************************************************)
(* The run: the events that may follow one another.                        *)
(***************************************************************************)
Accepted           == [kind |-> "accepted"]
Reports(i, n, s)   == [kind |-> "stage", index |-> i, name |-> n, status |-> s]
Ends(final)        == [kind |-> "terminal", status |-> final]

\* After a stage comes the next one, unless a cancel was asked for.
Proceed(i) ==
    IF i < NStages
      THEN {Reports(i + 1, "stage", "running"), Reports(i + 1, "rollback", "running")}
      ELSE {Reports(i + 1, "snapshot_after", "success"), Ends("requires_manual_recovery")}

AfterStage(e) ==
    CASE e.status = "running" -> {Reports(e.index, "stage", s) : s \in {"success", "failed"}}
      [] e.status = "success" -> Proceed(e.index)
      [] e.status = "failed"  -> {Reports(e.index + 1, "rollback", "running")}

\* The rollback of a cancelled run ends in cancelled, of a failed one in failed.
AfterRollback(e) ==
    CASE e.status = "running" -> {Reports(e.index, "rollback", s) : s \in {"success", "failed"}}
      [] e.status = "success" -> {Ends("failed"), Ends("cancelled")}
      [] e.status = "failed"  -> {Ends("requires_manual_recovery")}

AfterReport(e) ==
    CASE e.name = "snapshot_before" -> Proceed(0)
      [] e.name = "stage"           -> AfterStage(e)
      [] e.name = "snapshot_after"  -> {Ends("success")}
      [] e.name = "rollback"        -> AfterRollback(e)

\* A failure to make the first snapshot ends the run.
Follow(e) ==
    CASE e.kind = "accepted" -> {Reports(0, "snapshot_before", "success"), Ends("failed")}
      [] e.kind = "stage"    -> AfterReport(e)
      [] e.kind = "terminal" -> {}

NoRun == [on |-> FALSE, seq |-> 0, ev |-> Accepted]

\* The event is answered or given up: the next one follows, or the run is over.
Advance ==
    \/ \E e \in Follow(run.ev) : run' = [run EXCEPT !.seq = @ + 1, !.ev = e]
    \/ Follow(run.ev) = {} /\ run' = [run EXCEPT !.on = FALSE]

-----------------------------------------------------------------------------
(***************************************************************************)
(* The rows.                                                               *)
(***************************************************************************)
\* TaskStore.transition: the first terminal state stamps terminal_at.
Transition(state, seq) ==
    row' = [state |-> state, seq |-> seq, ended |-> row.ended \/ state \in Terminal]

\* TaskStore.upsertStage
Upsert(e) == [stage EXCEPT ![e.index] = [name |-> e.name, status |-> e.status]]

StateAfter(e) ==
    CASE e.kind = "accepted" -> IF row.state = "queued" THEN "running" ELSE row.state
      [] e.kind = "stage"    -> row.state
      [] e.kind = "terminal" -> e.status

-----------------------------------------------------------------------------
(***************************************************************************)
(* The streams.                                                            *)
(***************************************************************************)
Snapshot == [id |-> row.seq, full |-> TRUE, stage |-> stage, ended |-> row.ended]
Frame(seq, e) == [id |-> seq, full |-> FALSE, ev |-> e]

\* TaskWatch.notify
Streams == {c \in Follower : way[c] = "stream" /\ on[c]}
Notify(f) == wire' = [c \in Follower |-> IF c \in Streams THEN Append(wire[c], f) ELSE wire[c]]

\* What a follower knows after one more frame.
Play(v, f) ==
    IF f.full THEN [last |-> f.id, stage |-> f.stage, ended |-> f.ended]
    ELSE [last  |-> f.id,
          stage |-> IF f.ev.kind = "stage"
                      THEN [v.stage EXCEPT ![f.ev.index] = [name |-> f.ev.name, status |-> f.ev.status]]
                      ELSE v.stage,
          ended |-> v.ended \/ f.ev.kind = "terminal"]

\* Mutant: a follower that is one event behind counts as current.
Resync_OneBehind(c) == view[c].last = NoId \/ view[c].last < row.seq - 1

Resync(c) == view[c].last = NoId \/ view[c].last < row.seq

\* A follower opens its stream, the first time or after a break.
Watch(c) ==
    /\ up /\ way[c] = "stream" /\ ~on[c]
    /\ on' = [on EXCEPT ![c] = TRUE]
    /\ wire' = [wire EXCEPT ![c] = IF Resync(c) THEN <<Snapshot>> ELSE <<>>]
    /\ UNCHANGED <<row, stage, up, call, base, run, way, view, odd, faults>>

Receive(c) ==
    /\ c \in Streams /\ wire[c] # <<>>
    /\ view' = [view EXCEPT ![c] = Play(@, Head(wire[c]))]
    /\ wire' = [wire EXCEPT ![c] = Tail(@)]
    /\ UNCHANGED <<row, stage, up, call, base, run, way, on, odd, faults>>

\* The revision a rendered task carries: one without events has 1.
Revision == IF row.seq > 0 THEN row.seq ELSE 1

\* The answer to a long poll; the next one asks for what follows its revision.
Answer(c) == view' = [view EXCEPT ![c].last = Revision, ![c].ended = row.ended]

Changed(c) == row.seq > view[c].last \/ row.state \in Terminal

\* A change is answered at once, and so is, as a plain read, a request that finds the
\* slots of the process taken by the waiters of other tasks; any other is held.
WaitForTask(c) ==
    /\ up /\ way[c] = "poll" /\ ~on[c] /\ ~view[c].ended
    /\ \/ Answer(c) /\ UNCHANGED on
       \/ ~Changed(c) /\ on' = [on EXCEPT ![c] = TRUE] /\ UNCHANGED view
    /\ UNCHANGED <<row, stage, up, call, base, run, way, wire, odd, faults>>

\* The loop's probe finds a change, or its deadline is past.
AnswerWaiter(c) ==
    /\ on[c] /\ way[c] = "poll"
    /\ on' = [on EXCEPT ![c] = FALSE]
    /\ Answer(c)
    /\ UNCHANGED <<row, stage, up, call, base, run, way, wire, odd, faults>>

\* The connection breaks, and what is on its way is gone.
Break(c) ==
    /\ on[c] /\ Fault
    /\ on' = [on EXCEPT ![c] = FALSE]
    /\ wire' = [wire EXCEPT ![c] = <<>>]
    /\ UNCHANGED <<row, stage, up, call, base, run, way, view, odd>>

-----------------------------------------------------------------------------
(***************************************************************************)
(* The progress receiver.                                                  *)
(***************************************************************************)
Fresh == run.seq > row.seq

\* A replay changes nothing; an event writes its stage row and the task's row, and is
\* fanned out.
ApplyEvent ==
    IF Fresh
      THEN /\ stage' = IF run.ev.kind = "stage" THEN Upsert(run.ev) ELSE stage
           /\ Transition(StateAfter(run.ev), run.seq)
           /\ Notify(Frame(run.seq, run.ev))
      ELSE UNCHANGED <<row, stage, wire>>

Deliver ==
    /\ up /\ run.on
    /\ ApplyEvent /\ Advance
    /\ UNCHANGED <<up, call, base, way, on, view, odd, faults>>

\* The answer is lost: the event will be posted again.
DeliverUnanswered ==
    /\ up /\ run.on /\ Fault
    /\ ApplyEvent
    /\ UNCHANGED <<up, call, base, run, way, on, view, odd>>

\* The last attempt failed; nobody hears of the event.
GiveUp ==
    /\ run.on /\ Fault
    /\ Advance
    /\ UNCHANGED <<row, stage, up, call, base, way, on, wire, view, odd>>

-----------------------------------------------------------------------------
(***************************************************************************)
(* The task engine.                                                        *)
(***************************************************************************)
\* Admission, the drain or a reconcile sends task.begin.
Dispatch ==
    /\ up /\ call = "none" /\ row.state = "queued"
    /\ call' = "sent" /\ base' = row.seq
    /\ UNCHANGED <<row, stage, up, run, way, on, wire, view, odd, faults>>

\* The agent takes the call; one for a run in flight changes nothing.
Begin ==
    /\ call \in {"sent", "lost"}
    /\ call' = IF call = "sent" THEN "taken" ELSE "none"
    /\ IF run.on THEN UNCHANGED <<run, odd>>
       ELSE /\ run' = [on |-> TRUE, seq |-> 1, ev |-> Accepted]
            /\ odd' = IF run.seq > 0 THEN odd \cup {"reran"} ELSE odd
    /\ UNCHANGED <<row, stage, up, base, way, on, wire, view, faults>>

BeginAnswered ==
    /\ up /\ call = "taken"
    /\ call' = "none"
    /\ Transition("running", row.seq)
    /\ UNCHANGED <<stage, up, base, run, way, on, wire, view, odd, faults>>

\* Mutant: the sequence stays and nobody is told.
FailBeforeChange_Silent ==
    /\ up /\ call \in {"sent", "taken"} /\ Fault
    /\ call' = IF call = "sent" THEN "lost" ELSE "none"
    /\ Transition("failed", row.seq)
    /\ UNCHANGED <<stage, up, base, run, way, on, wire, view, odd>>

\* The call fails or takes too long, and the agent may have it all the same.  The
\* sequence counts on from the row that the caller read before the call.
FailBeforeChange ==
    /\ up /\ call \in {"sent", "taken"} /\ Fault
    /\ call' = IF call = "sent" THEN "lost" ELSE "none"
    /\ Transition("failed", base + 1)
    /\ Notify(Frame(base + 1, Ends("failed")))
    /\ odd' = IF base + 1 <= row.seq THEN odd \cup {"rewound"} ELSE odd
    /\ UNCHANGED <<stage, up, base, run, way, on, view>>

CancelQueued ==
    /\ up /\ call \in {"none", "lost"} /\ row.state = "queued"
    /\ Transition("cancelled", row.seq + 1)
    /\ Notify(Frame(row.seq + 1, Ends("cancelled")))
    /\ UNCHANGED <<stage, up, call, base, run, way, on, view, odd, faults>>

\* sweepExpired: neither the sequence nor the streams move.
SweepExpired ==
    /\ up /\ row.state \notin Terminal /\ Fault
    /\ Transition("requires_manual_recovery", row.seq)
    /\ odd' = odd \cup {"swept"}
    /\ UNCHANGED <<stage, up, call, base, run, way, on, wire, view>>

-----------------------------------------------------------------------------
(***************************************************************************)
(* Crashes.                                                                *)
(***************************************************************************)
ApiEnds ==
    /\ up' = FALSE
    /\ call' = IF call = "sent" THEN "lost" ELSE IF call = "lost" THEN "lost" ELSE "none"
    /\ on' = [c \in Follower |-> FALSE]
    /\ wire' = [c \in Follower |-> <<>>]

ApiCrash ==
    /\ up /\ Fault /\ ApiEnds
    /\ UNCHANGED <<row, stage, base, run, way, view, odd>>

\* The stage row and the task's row are written in two transactions.
ApiCrashInEvent ==
    /\ up /\ run.on /\ run.ev.kind = "stage" /\ Fresh /\ Fault
    /\ stage' = Upsert(run.ev)
    /\ odd' = odd \cup {"torn"}
    /\ ApiEnds
    /\ UNCHANGED <<row, base, run, way, view>>

ApiRestart ==
    /\ ~up
    /\ up' = TRUE
    /\ UNCHANGED <<row, stage, call, base, run, way, on, wire, view, odd, faults>>

AgentCrash ==
    /\ run.on /\ Fault
    /\ run' = [run EXCEPT !.on = FALSE]
    /\ UNCHANGED <<row, stage, up, call, base, way, on, wire, view, odd>>

-----------------------------------------------------------------------------
NoView == [last |-> NoId, stage |-> [i \in Index |-> NoStage], ended |-> FALSE]

\* The apply task has been inserted.
Init ==
    /\ row = [state |-> "queued", seq |-> 0, ended |-> FALSE]
    /\ stage = [i \in Index |-> NoStage]
    /\ up = TRUE /\ call = "none" /\ base = 0 /\ run = NoRun
    /\ way \in [Follower -> {"stream", "poll"}]
    /\ on = [c \in Follower |-> FALSE]
    /\ wire = [c \in Follower |-> <<>>]
    /\ view = [c \in Follower |-> NoView]
    /\ odd = {} /\ faults = 0

Next ==
    \/ Dispatch \/ Begin \/ BeginAnswered \/ FailBeforeChange \/ CancelQueued \/ SweepExpired
    \/ Deliver \/ DeliverUnanswered \/ GiveUp
    \/ ApiCrash \/ ApiCrashInEvent \/ ApiRestart \/ AgentCrash
    \/ \E c \in Follower : Watch(c) \/ Receive(c) \/ Break(c) \/ WaitForTask(c) \/ AnswerWaiter(c)

Spec == Init /\ [][Next]_vars

\* systemd starts the api again; a follower opens its stream again and reads it, or asks
\* again; a held request ends at its deadline.
FairSpec ==
    /\ Spec /\ WF_vars(ApiRestart)
    /\ \A c \in Follower :
          WF_vars(Watch(c)) /\ WF_vars(Receive(c)) /\ WF_vars(WaitForTask(c)) /\ WF_vars(AnswerWaiter(c))

-----------------------------------------------------------------------------
(***************************************************************************)
(* The rollup of the rows that every read carries.                         *)
(***************************************************************************)
Written == {i \in Index : stage[i] # NoStage}
Running == {i \in Written : stage[i].status = "running"}

\* Mutant: the rows are read from the wrong end.
Current_First ==
    IF Running # {} THEN CHOOSE i \in Running : \A j \in Running : i <= j
    ELSE CHOOSE i \in Written : \A j \in Written : i <= j

\* The first running row, else the last one.
Current ==
    IF Running # {} THEN CHOOSE i \in Running : \A j \in Running : i <= j
    ELSE CHOOSE i \in Written : \A j \in Written : j <= i

PhaseOf(name) ==
    CASE name = "snapshot_before" -> "preparing"
      [] name = "stage"           -> "executing"
      [] name = "rollback"        -> "rolling_back"
      [] name = "snapshot_after"  -> "finalizing"

Phase ==
    CASE row.ended                      -> "done"
      [] ~row.ended /\ Written = {}     -> "preparing"
      [] ~row.ended /\ Written # {}     -> PhaseOf(stage[Current].name)

-----------------------------------------------------------------------------
(***************************************************************************)
(* Properties.                                                             *)
(***************************************************************************)
View == [last : Nat \cup {NoId}, stage : [Index -> Stage], ended : BOOLEAN]

TypeOK ==
    /\ row \in [state : {"queued", "running"} \cup Terminal, seq : Nat, ended : BOOLEAN]
    /\ row.state \in Terminal => row.ended
    /\ stage \in [Index -> Stage]
    /\ up \in BOOLEAN /\ call \in {"none", "sent", "taken", "lost"} /\ base \in Nat
    /\ run.on \in BOOLEAN /\ run.seq \in Nat
    /\ way \in [Follower -> {"stream", "poll"}]
    /\ on \in [Follower -> BOOLEAN] /\ view \in [Follower -> View]
    /\ \A c \in Follower : (on[c] => up) /\ (c \notin Streams => wire[c] = <<>>)
    /\ odd \subseteq {"reran", "rewound", "swept", "torn"} /\ faults \in 0..MaxFaults

\* What view v becomes with the frames of w.
Read(v, w) ==
    LET read[n \in 0..Len(w)] == IF n = 0 THEN v ELSE Play(read[n - 1], w[n])
    IN  read[Len(w)]

\* What follower c will have put together once it has read what is on its way.
Told(c) == Read(view[c], wire[c])

\* An open stream, read to its end, says what the rows say, whatever its follower missed
\* before: the id it resumed from vouches for all that it holds.  Excused are a sequence
\* set back, a stage row without its event, and for the end of the task a sweep.
\* (routes/tasks.ts watchTask, watch.ts notify, progress.ts)
StreamComplete ==
    \A c \in Streams :
        /\ odd \cap {"rewound", "torn"} = {} => Told(c).stage = stage /\ Told(c).last = row.seq
        /\ odd \cap {"rewound", "swept"} = {} => Told(c).ended = row.ended

\* The phase of the rollup never goes back, whichever events are lost.
\* (render.ts taskProgress)
Order == [preparing |-> 0, executing |-> 1, rolling_back |-> 2, finalizing |-> 2, done |-> 3]
PhaseForward == [][Order[Phase] <= Order[Phase'] \/ "reran" \in odd']_vars

\* Every follower that keeps opening its stream, or asking, learns that the task has
\* ended; a stream's follower does not if a sweep ended it or the sequence was set back.
\* (engine.ts failBeforeChange and cancel, routes/tasks.ts watchTask, task-wait.ts)
EndSeen ==
    \A c \in Follower :
        row.ended ~> (\/ view[c].ended
                      \/ way[c] = "stream" /\ odd \cap {"swept", "rewound"} # {})
=============================================================================
