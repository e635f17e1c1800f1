---------------------------- MODULE Observation ----------------------------
(***************************************************************************)
(* How what a collector observes becomes rows of the api: the boot sweep,  *)
(* the poll sweeps, the settle at the end of a task and the kernel's       *)
(* events put deltas in the publisher's queue; a flush sends them as one   *)
(* batch, complete for some kinds, which is retried and may be applied     *)
(* twice or after a later one; the api applies a batch in one transaction. *)
(* One collector c is followed.  A plan pins a row (TaskEngine.apply), and *)
(* the payloads captured for config snapshots are pruned by its rows.      *)
(*   host       what is on the host                                        *)
(*   phase      of the agent: boot, booting (the boot batch is sent), up   *)
(*   sweep      what the boot or poll sweep has read and not yet queued    *)
(*   settle     the settle of a task: what it read, and whether it ended   *)
(*   summary    the second kind as last emitted (NetworkConfig)            *)
(*   queue, flights   the publisher's; the kinds it marks for a reconcile  *)
(*              are left out, nothing reads them                           *)
(*   rows       the observed rows: content, whether whole, revision        *)
(*   payloads   the snapshots with a captured desired payload              *)
(*   events     the kernel's events not yet handled                        *)
(*   pin        the row a plan was computed against, and the apply of it   *)
(*   changed, split   history: the keys whose entity ever changed; whether *)
(*                    a sweep was cut in two at the batch ceiling          *)
(*   spent      what was used of the bounds                                *)
(***************************************************************************)
EXTENDS Collectors

CONSTANTS
    Studied,      \* the collectors followed
    Malformed,    \* contents that the api's schema rejects
    MaxBatch,     \* deltas in the queue that cause a flush
    MaxRetries,   \* attempts to deliver a batch
    MaxFlights,   \* bound: batches on their way
    MaxSpent,     \* bound: host changes, failed reads, lost calls, crashes, plans, settles, captures
    Starts        \* what is on the host at first, and what was when the rows were written

VARIABLES c, host, phase, sweep, settle, summary, queue, flights, rows, payloads,
          events, pin, changed, split, spent
vars == <<c, host, phase, sweep, settle, summary, queue, flights, rows, payloads,
          events, pin, changed, split, spent>>

Key == {"own", "dev"} \X Id \cup {"co"} \X CoId
Value == Content \cup {Unknown}
Row == [val : Value, full : BOOLEAN, rev : Nat \ {0}]
KindOf(key) == IF key[1] = "dev" THEN "own" ELSE key[1]

\* Only an event deletes a row on its own, and only one of udev does.
Delta ==
    {d \in [key : Key, val : Value \cup {None}, full : BOOLEAN] :
        IF d.key[1] = "dev" THEN d.val \in {Unknown, None} ELSE d.val # None}
Flight ==
    [deltas : Seq(Delta), complete : SUBSET {"own", "co"}, who : {"none", "boot", "settle"},
     tries : Nat]

ASSUME NoneIsNothing == None \notin Value /\ None \notin Row
ASSUME HostAssumption ==
    /\ IsFiniteSet(Id) /\ IsFiniteSet(CoId) /\ Malformed \subseteq Content
    /\ Studied \subseteq Registry
    /\ \A s \in Starts : {s.now, s.before} \subseteq Host
ASSUME ObservationBounds == MaxBatch \in Nat \ {0} /\ {MaxRetries, MaxFlights, MaxSpent} \subseteq Nat \ {0}

Spend == spent < MaxSpent /\ spent' = spent + 1

NoSettle == [st |-> "idle", read |-> None, ok |-> FALSE]
NoPin    == [st |-> "none", key |-> None, val |-> None, rev |-> 0, gone |-> FALSE]

SettleState == [st : {"idle", "read", "sent", "done"}, read : Reading \cup {None}, ok : BOOLEAN]
PinState ==
    [st : {"none", "open", "applied", "stale"}, key : Key \cup {None}, val : Value \cup {None},
     rev : Nat, gone : BOOLEAN]
Event == [id : Id, val : Content, gone : BOOLEAN]

TypeOK ==
    /\ c \in Studied /\ host \in Host
    /\ phase \in {"boot", "booting", "up"}
    /\ sweep \in Reading \cup {None} /\ summary \in [CoId -> Value \cup {None}] \cup {None}
    /\ settle \in SettleState /\ (settle.st # "idle" => settle.read \in Reading)
    /\ queue \in Seq(Delta) /\ flights \in Seq(Flight)
    /\ IF phase = "up" THEN Len(queue) < MaxBatch ELSE queue = <<>> /\ events = {}
    /\ \A batch \in ToSet(flights) : batch.tries < MaxRetries
    /\ rows \in [Key -> Row \cup {None}]
    /\ \A k \in Key :
          rows[k] # None => rows[k].val \notin Malformed /\ (k[1] = "dev" => rows[k].val = Unknown)
    /\ payloads \subseteq Id /\ events \subseteq Event
    /\ pin \in PinState /\ (pin.st = "open" => pin.key \in Key)
    /\ changed \subseteq Key /\ split \in BOOLEAN
    /\ spent \in 0..MaxSpent

-----------------------------------------------------------------------------
(***************************************************************************)
(* Publisher.                                                              *)
(***************************************************************************)
Batch(deltas, complete, who) ==
    [deltas |-> deltas, complete |-> complete, who |-> who, tries |-> 0]

\* At the ceiling the queue goes at once, unless the agent boots.
Enqueue(st, d) ==
    LET q == Append(st.queue, d)
    IN  IF phase = "up" /\ Len(q) >= MaxBatch
          THEN [queue |-> <<>>, sent |-> Append(st.sent, Batch(q, {}, "none"))]
          ELSE [st EXCEPT !.queue = q]

Queued(ds) ==
    LET st[n \in 0..Len(ds)] ==
            IF n = 0 THEN [queue |-> queue, sent |-> <<>>] ELSE Enqueue(st[n - 1], ds[n])
    IN  st[Len(ds)]

\* The deltas of a sweep are queued and flushed with no step in between.
FlushSnapshot(ds, complete, who) ==
    LET st == Queued(ds)
    IN  /\ queue' = <<>>
        /\ flights' = flights \o Append(st.sent, Batch(st.queue, complete, who))
        /\ Len(flights') <= MaxFlights
        /\ split' = (split \/ (phase = "up" /\ st.sent # <<>>))

\* The debounce timer is armed while there is something in the queue.
Flush ==
    /\ phase = "up" /\ queue # <<>> /\ Len(flights) < MaxFlights
    /\ queue' = <<>>
    /\ flights' = Append(flights, Batch(queue, {}, "none"))
    /\ UNCHANGED <<c, host, phase, sweep, settle, summary, rows, payloads, events, pin,
                   changed, split, spent>>

-----------------------------------------------------------------------------
(***************************************************************************)
(* Sweeps.  Reading the host and flushing what was read are two steps.     *)
(***************************************************************************)
\* NetworkConfig is left out when it is as last emitted.
Emitted(r) == IF c.once /\ r.co = summary THEN [r EXCEPT !.co = [i \in CoId |-> None]] ELSE r
Remember(r) == IF c.once /\ Present(r.co) # {} THEN r.co ELSE summary

Reads(r) ==
    \/ r = host /\ UNCHANGED spent
    \/ r \in Faulty(c, host) /\ Spend

\* The boot sweep, and each tick of the poll timer.
StartSweep ==
    /\ phase \in {"boot", "up"} /\ sweep = None /\ Len(flights) < MaxFlights
    /\ \E r \in {host} \cup Faulty(c, host) :
         /\ Reads(r)
         /\ sweep' = Emitted(r)
         /\ summary' = Remember(r)
    /\ UNCHANGED <<c, host, phase, settle, queue, flights, rows, payloads, events, pin,
                   changed, split>>

\* Mutant: a failed boot sweep is sent as a complete snapshot of nothing.
SweepFails_Empty ==
    /\ phase \in {"boot", "up"} /\ sweep = None /\ "fails" \in c.probe /\ Spend
    /\ IF phase = "boot"
         THEN FlushSnapshot(<<>>, {"own"}, "boot") /\ phase' = "booting"
         ELSE UNCHANGED <<queue, flights, split, phase>>
    /\ UNCHANGED <<c, host, sweep, settle, summary, rows, payloads, events, pin, changed>>

\* A sweep that fails is given up: at boot the collector is skipped, without a
\* snapshot of nothing.
SweepFails ==
    /\ phase \in {"boot", "up"} /\ sweep = None /\ "fails" \in c.probe /\ Spend
    /\ phase' = "up"
    /\ UNCHANGED <<c, host, sweep, settle, summary, queue, flights, rows, payloads, events,
                   pin, changed, split>>

FlushSweep ==
    /\ sweep # None /\ phase # "booting"
    /\ LET ds == SweepDeltas(sweep)
       IN  FlushSnapshot(ds, SweepKinds(ds), IF phase = "boot" THEN "boot" ELSE "none")
    /\ sweep' = None
    /\ phase' = IF phase = "boot" THEN "booting" ELSE phase
    /\ UNCHANGED <<c, host, settle, summary, rows, payloads, events, pin, changed, spent>>

\* The kinds a task on each kind re-observes.
ReobserveKinds ==
    [kind \in {"Filesystem", "XiraidArray", "Pool", "NfsSession"} |->
        IF kind = "NfsSession" THEN {"own", "co"} ELSE {"own"}]

\* Mutant: the settle flushes the kinds it has deltas of.
SettleKinds_Seen == SweepKinds(SweepDeltas(settle.read))

SettleKinds == ReobserveKinds[c.own]

\* The end of a task: the collector is swept, and the runner waits for the flush
\* before it reports the task's end.
StartSettle ==
    /\ c.own \in DOMAIN ReobserveKinds /\ settle.st = "idle"
    /\ Spend
    /\ \E r \in {host} \cup Faulty(c, host) : settle' = [NoSettle EXCEPT !.st = "read", !.read = r]
    /\ UNCHANGED <<c, host, phase, sweep, summary, queue, flights, rows, payloads, events,
                   pin, changed, split>>

FlushSettle ==
    /\ settle.st = "read"
    /\ FlushSnapshot(SweepDeltas(settle.read), SettleKinds, "settle")
    /\ settle' = [settle EXCEPT !.st = "sent"]
    /\ UNCHANGED <<c, host, phase, sweep, summary, rows, payloads, events, pin, changed, spent>>

-----------------------------------------------------------------------------
(***************************************************************************)
(* The api: one transaction per batch.                                     *)
(***************************************************************************)
Same(row, d) == row # None /\ row.val = d.val /\ row.full = d.full

\* Mutant: the revision of a row stays as it was.
Applied_SameRevision(rs, d) ==
    [rs EXCEPT ![d.key] =
        IF d.val = None THEN None
        ELSE [val |-> d.val, full |-> d.full, rev |-> IF @ = None THEN 1 ELSE @.rev]]

\* An upsert of what the row holds is skipped; a row that was deleted starts at
\* revision 1 again.
Applied(rs, d) ==
    [rs EXCEPT ![d.key] =
        IF d.val = None THEN None
        ELSE IF Same(@, d) THEN @
        ELSE [val |-> d.val, full |-> d.full, rev |-> IF @ = None THEN 1 ELSE @.rev + 1]]

\* The rows of a complete kind that the batch does not upsert are deleted.
Reconciled(rs, batch) ==
    LET upserted == {d.key : d \in {d \in ToSet(batch.deltas) : d.val # None}}
    IN  [k \in Key |-> IF KindOf(k) \in batch.complete /\ k \notin upserted THEN None ELSE rs[k]]

Upserted(rs, ds) ==
    LET after[n \in 0..Len(ds)] == IF n = 0 THEN rs ELSE Applied(after[n - 1], ds[n])
    IN  after[Len(ds)]

Stored(rs, batch) == Reconciled(Upserted(rs, batch.deltas), batch)

\* A complete push of the snapshots prunes the payloads whose snapshot has no row.
GcSnapshotDesired(ps, rs, batch) ==
    IF c.own = "ConfigSnapshot" /\ "own" \in batch.complete
      THEN {i \in ps : rs[<<"own", i>>] # None}
      ELSE ps

Ingest(batch) ==
    LET rs == Stored(rows, batch)
    IN  /\ rows' = rs
        /\ payloads' = GcSnapshotDesired(payloads, rs, batch)
        /\ pin' = IF pin.st = "open" /\ pin.val # None /\ rs[pin.key] = None THEN [pin EXCEPT !.gone = TRUE] ELSE pin

Rejects(batch) == \E d \in ToSet(batch.deltas) : d.val \in Malformed

-----------------------------------------------------------------------------
(***************************************************************************)
(* Delivery.                                                               *)
(***************************************************************************)
\* What waited for the batch goes on, however it ended.
Ended(batch, ok) ==
    /\ phase' = IF batch.who = "boot" THEN "up" ELSE phase
    /\ settle' = IF batch.who = "settle" THEN [settle EXCEPT !.st = "done", !.ok = ok] ELSE settle

Accepted(n) ==
    /\ ~Rejects(flights[n]) /\ Ingest(flights[n])
    /\ flights' = RemoveAt(flights, n)
    /\ Ended(flights[n], TRUE)
    /\ UNCHANGED <<c, host, sweep, summary, queue, events, changed, split, spent>>

\* A 4xx drops the whole batch.
Rejected(n) ==
    /\ Rejects(flights[n])
    /\ flights' = RemoveAt(flights, n)
    /\ Ended(flights[n], FALSE)
    /\ UNCHANGED <<c, host, sweep, summary, queue, rows, payloads, events, pin, changed,
                   split, spent>>

\* A 5xx, or a connection that breaks before or after the batch was applied: it
\* is sent again, until the attempts are used up.
CallLost(n) ==
    /\ Spend
    /\ \/ ~Rejects(flights[n]) /\ Ingest(flights[n])
       \/ UNCHANGED <<rows, payloads, pin>>
    /\ IF flights[n].tries + 1 < MaxRetries
         THEN /\ flights' = [flights EXCEPT ![n].tries = @ + 1]
              /\ UNCHANGED <<phase, settle>>
         ELSE /\ flights' = RemoveAt(flights, n)
              /\ Ended(flights[n], FALSE)
    /\ UNCHANGED <<c, host, sweep, summary, queue, events, changed, split>>

-----------------------------------------------------------------------------
(***************************************************************************)
(* The host, its events, the agent's restart.                              *)
(***************************************************************************)
Announced(i, val) == [id |-> i, val |-> IF val = None THEN host.own[i] ELSE val, gone |-> val = None]

HostChanges ==
    /\ c # StubCollector /\ Spend
    /\ \/ \E i \in Id, val \in Content \cup {None} :
            /\ val # host.own[i] /\ ~(c.fixed /\ None \in {val, host.own[i]})
            /\ host' = [host EXCEPT !.own[i] = val]
            /\ changed' = changed \cup {<<"own", i>>}
            /\ events' = IF c.events # "none" /\ phase = "up" THEN events \cup {Announced(i, val)}
                         ELSE events
       \/ \E i \in CoId, val \in Content \cup {None} :
            /\ c.co # None /\ val # host.co[i] /\ ~(c.once /\ val = None)
            /\ host' = [host EXCEPT !.co[i] = val]
            /\ changed' = changed \cup {<<"co", i>>}
            /\ UNCHANGED events
    /\ UNCHANGED <<c, phase, sweep, settle, summary, queue, flights, rows, payloads, pin, split>>

\* The event reaches the collector, or is lost with a monitor that restarts.
KernelEvent ==
    \E e \in events :
      /\ events' = events \ {e}
      /\ \/ LET st == Queued(<<EventDelta(c, e)>>)
            IN  queue' = st.queue /\ flights' = flights \o st.sent /\ UNCHANGED spent
         \/ Spend /\ UNCHANGED <<queue, flights>>
      /\ Len(flights') <= MaxFlights
      /\ UNCHANGED <<c, host, phase, sweep, settle, summary, rows, payloads, pin, changed, split>>

AgentCrash ==
    /\ Spend
    /\ phase' = "boot" /\ sweep' = None /\ summary' = None
    /\ settle' = NoSettle /\ queue' = <<>> /\ flights' = <<>> /\ events' = {}
    /\ UNCHANGED <<c, host, rows, payloads, pin, changed, split>>

-----------------------------------------------------------------------------
(***************************************************************************)
(* What uses the rows.                                                     *)
(***************************************************************************)
Revision(key) == IF rows[key] = None THEN 0 ELSE rows[key].rev
ValueOf(key)  == IF rows[key] = None THEN None ELSE rows[key].val

\* A plan keeps the revision of the row it was computed against.
PlanPins ==
    /\ pin.st = "none" /\ Spend
    /\ \E k \in Key :
         pin' = [st |-> "open", key |-> k, val |-> ValueOf(k), rev |-> Revision(k), gone |-> FALSE]
    /\ UNCHANGED <<c, host, phase, sweep, settle, summary, queue, flights, rows, payloads,
                   events, changed, split>>

\* A row that is gone counts as unchanged.
Fresh == rows[pin.key] = None \/ Revision(pin.key) = pin.rev

PlanApplies ==
    /\ pin.st = "open"
    /\ pin' = [pin EXCEPT !.st = IF Fresh THEN "applied" ELSE "stale"]
    /\ UNCHANGED <<c, host, phase, sweep, settle, summary, queue, flights, rows, payloads,
                   events, changed, split, spent>>

\* A task ends in success, with i the snapshot taken after it.
CaptureSnapshotDesired ==
    /\ c.own = "ConfigSnapshot"
    /\ \E i \in Present(host.own) \ payloads : payloads' = payloads \cup {i}
    /\ Spend
    /\ UNCHANGED <<c, host, phase, sweep, settle, summary, queue, flights, rows, events,
                   pin, changed, split>>

-----------------------------------------------------------------------------
RowsOf(h) ==
    [k \in Key |->
        LET val == CASE k[1] = "own" -> h.own[k[2]] [] k[1] = "co" -> h.co[k[2]] [] OTHER -> None
        IN  IF val = None \/ val \in Malformed THEN None ELSE [val |-> val, full |-> TRUE, rev |-> 1]]

Possible(h) ==
    /\ c.fixed => Present(h.own) = Id
    /\ c.co = None => Present(h.co) = {}
    /\ c.once => Present(h.co) = CoId

Init ==
    /\ c \in Studied
    /\ \E s \in Starts :
         /\ Possible(s.now) /\ Possible(s.before)
         /\ host = s.now /\ rows = RowsOf(s.before)
         /\ changed = {k \in Key : rows[k] # RowsOf(host)[k]}
    /\ phase = "boot" /\ sweep = None /\ settle = NoSettle /\ summary = None
    /\ queue = <<>> /\ flights = <<>> /\ payloads = {} /\ events = {}
    /\ pin = NoPin /\ split = FALSE
    /\ spent = 0

Next ==
    \/ StartSweep \/ SweepFails \/ FlushSweep \/ StartSettle \/ FlushSettle \/ Flush
    \/ \E n \in 1..Len(flights) : Accepted(n) \/ Rejected(n) \/ CallLost(n)
    \/ HostChanges \/ KernelEvent \/ AgentCrash
    \/ PlanPins \/ PlanApplies \/ CaptureSnapshotDesired

Spec == Init /\ [][Next]_vars

\* The timers go off, the reads return and the calls are answered.
FairSpec ==
    Spec /\ WF_vars(StartSweep) /\ WF_vars(FlushSweep) /\ WF_vars(FlushSettle) /\ WF_vars(Flush)
         /\ WF_vars(flights # <<>> /\ (Accepted(1) \/ Rejected(1)))

-----------------------------------------------------------------------------
(***************************************************************************)
(* Properties.                                                             *)
(***************************************************************************)
\* The row of an entity that never changed stays as it is, revision included,
\* whatever sweeps, failed reads, retries, crashes and settles go on; but for a
\* sweep cut at the batch ceiling, and for a read that lacked a source.
\* (publisher.ts doFlush, boot.ts, observed.ts observedHandler)
Quiet == {k \in Key : k[1] # "dev"} \ changed

QuietRow ==
    [][\A k \in Quiet' :
         (rows[k] # None /\ ~split') =>
            \/ rows'[k] = rows[k]
            \/ rows'[k] # None /\ Unknown \in {rows[k].val, rows'[k].val}]_vars

\* When the settle of a task got through, the rows of all its kinds are what the
\* host holds, those of the last entity that went away included.
\* (reobserve.ts makeReobserve)
HostVal(key) == IF key[1] = "own" THEN host.own[key[2]] ELSE host.co[key[2]]

Shown(key) ==
    IF HostVal(key) = None THEN rows[key] = None
    ELSE rows[key] # None /\ rows[key].val = HostVal(key) /\ rows[key].full

SettleShows ==
    [][(settle.st = "sent" /\ settle'.st = "done" /\ settle'.ok /\ settle.read = host /\ ~split') =>
         \A k \in ReobserveKinds[c.own] \X Id : k \in Key => Shown(k)']_vars

\* An apply acts on the row its plan was computed against, unless that row was
\* deleted meanwhile.  (engine.ts apply, backend-sqlite.ts put)
PinRefuses ==
    [][(pin.st = "open" /\ pin'.st = "applied" /\ ~pin.gone) => ValueOf(pin.key) = pin.val]_vars

\* What makes the three of them inductive.  The row of a plan that is not gone has
\* moved on, or holds what the plan saw.
PinnedRow ==
    LET row == rows[pin.key]
    IN  IF pin.val = None THEN pin.rev = 0
        ELSE pin.gone \/ ( /\ row # None
                           /\ pin.key[1] # "dev" => pin.rev <= row.rev
                           /\ pin.rev = row.rev \/ pin.key[1] = "dev" => pin.val = row.val )
PinTrue == pin.st = "open" => PinnedRow

\* Nothing but a sweep says anything of an entity that never changed, and all that is
\* on its way says the same of it: what is on the host, or that it was not told.
TrueSecond(r) == \A j \in CoId : <<"co", j>> \in Quiet => r.co[j] = host.co[j]
TrueReading(r) ==
    /\ \A i \in Id : <<"own", i>> \in Quiet =>
          IF host.own[i] = None THEN r.own[i] = None ELSE r.own[i] \in {host.own[i], Unknown}
    /\ Present(r.co) = {} \/ TrueSecond(r)

SweepsTrue ==
    /\ sweep # None => TrueReading(sweep)
    /\ settle.st = "read" => /\ TrueReading(settle.read)
                             /\ "co" \in SettleKinds => TrueSecond(settle.read)

EventsOfChanged ==
    /\ \A e \in events : <<"own", e.id>> \in changed
    /\ \A d \in ToSet(queue) : d.key \notin Quiet
    /\ c.events = "none" => queue = <<>> /\ events = {}

Said(v, k) == HostVal(k) # None /\ v \in {HostVal(k), Unknown}

QuietBatch(batch) ==
    \A k \in Quiet :
        /\ \E v \in Value :
              \A d \in ToSet(batch.deltas) : d.key = k => Said(v, k) /\ d.full /\ d.val = v
        /\ k[1] \in batch.complete /\ HostVal(k) # None => \E d \in ToSet(batch.deltas) : d.key = k

QuietTrue ==
    /\ \A k \in Quiet : rows[k] # None => Said(rows[k].val, k) /\ rows[k].full
    /\ \A batch \in ToSet(flights) : QuietBatch(batch)

\* The batch of a settle is what the settle read, whole.
SettleBatches == {batch \in ToSet(flights) : batch.who = "settle"}
SettleOn ==
    /\ settle.st # "idle" => c.own \in DOMAIN ReobserveKinds
    /\ SettleBatches # {} => settle.st \in {"sent", "done"}
SettleWhole ==
    \A batch \in SettleBatches :
        batch.deltas = SweepDeltas(settle.read) /\ batch.complete = SettleKinds

IInv ==
    /\ TypeOK /\ PinTrue /\ EventsOfChanged /\ SweepsTrue /\ SettleOn
    /\ ~split => QuietTrue /\ SettleWhole

\* However calls were lost and batches overtook each other: once the host is
\* quiet, its entities are fewer than a batch and none is malformed, the rows of
\* the collector's kind come to be what is on the host, with nothing else.
\* (poll.ts PollDriver)
Small  == Cardinality(Present(host.own)) + Cardinality(Present(host.co)) < MaxBatch
Wellformed == \A i \in Id : host.own[i] \notin Malformed /\ \A j \in CoId : host.co[j] \notin Malformed
Settled == \A i \in Id : Shown(<<"own", i>>) /\ rows[<<"dev", i>>] = None
Converges == <>[](Small /\ Wellformed) => <>[]Settled
=============================================================================
