--------------------------- MODULE TaskFeedProofs ---------------------------
(***************************************************************************)
(* Proofs about TaskFeed, for any followers, stages and faults: the types, *)
(* that a stream read to its end says what the rows say, and that the      *)
(* phase of the rollup never goes back.  What a follower puts together is  *)
(* a fold over the frames of its stream; induction over their number is    *)
(* had from the well-foundedness of the naturals.                          *)
(***************************************************************************)
EXTENDS TaskFeed, SequenceTheorems, WellFoundedInduction, TLAPS

USE FeedBounds

-----------------------------------------------------------------------------
(***************************************************************************)
(* Induction over sets of numbers.                                         *)
(***************************************************************************)
\* A set of numbers that is not empty has a least one.
LEMMA LeastNumber ==
    ASSUME NEW S \in SUBSET Nat, S # {}
    PROVE  \E n \in S : \A m \in S : n <= m
    <1> DEFINE R == {ss \in Nat \X Nat : ss[1] < ss[2]}
    <1>1. IsWellFoundedOn(R, Nat)
        BY NatLessThanWellFounded DEF OpToRel
    <1>2. \E n \in S : \A m \in S : ~(<<m, n>> \in R)
        <2> HIDE DEF R
        <2>1. S \subseteq Nat
            OBVIOUS
        <2>2. QED BY <1>1, <2>1, WFMin
    <1>3. PICK n \in S : \A m \in S : ~(<<m, n>> \in R)
        BY <1>2
    <1>4. \A m \in S : ~(m < n)
        BY <1>3
    <1>5. QED BY <1>4

LEMMA Induction ==
    ASSUME NEW T, 0 \in T, \A n \in Nat : n \in T => n + 1 \in T
    PROVE  \A n \in Nat : n \in T
    <1> DEFINE U == Nat \ T
    <1>1. ASSUME U # {} PROVE FALSE
        <2>1. U \in SUBSET Nat
            OBVIOUS
        <2>2. PICK x \in U : \A y \in U : x <= y
            <3> HIDE DEF U
            <3>1. QED BY <1>1, <2>1, LeastNumber
        <2>3. x \in Nat /\ x # 0
            OBVIOUS
        <2>4. x - 1 \in Nat /\ (x - 1) + 1 = x
            BY <2>3
        <2>5. x - 1 \in U
            BY <2>4
        <2>6. QED BY <2>2, <2>3, <2>5
    <1>2. QED BY <1>1

-----------------------------------------------------------------------------
(***************************************************************************)
(* Types.                                                                  *)
(***************************************************************************)
\* The events of a run: which rows which stages have.
IndexOf(name) ==
    CASE name = "snapshot_before" -> {0}
      [] name = "stage"           -> 1..NStages
      [] name = "rollback"        -> 1..(NStages + 1)
      [] name = "snapshot_after"  -> {NStages + 1}

Report   == {e \in [kind : {"stage"}, index : Index, name : Name, status : Status] :
                e.index \in IndexOf(e.name)}
Terminus == [kind : {"terminal"}, status : Terminal]
Event    == {Accepted} \cup Report \cup Terminus

Whole  == [id : Nat, full : {TRUE}, stage : [Index -> Stage], ended : BOOLEAN]
Single == [id : Nat, full : {FALSE}, ev : Event]
Frames == Whole \cup Single

Typed ==
    /\ TypeOK
    /\ run \in [on : BOOLEAN, seq : Nat, ev : Event]
    /\ wire \in [Follower -> Seq(Frames)]

LEMMA Indices == Index \subseteq Nat /\ \A n \in Name : IndexOf(n) \subseteq Index
    BY DEF Index, IndexOf, Name

LEMMA FollowType ==
    ASSUME NEW e \in Event, NEW f \in Follow(e)
    PROVE  f \in Event
    <1>1. CASE e = Accepted
        BY <1>1, Indices DEF Accepted, Follow, Reports, Ends, Event, Report, Terminus, Index, IndexOf, Name,
                    Status, Terminal
    <1>2. CASE e \in Terminus
        BY <1>2 DEF Terminus, Follow
    <1>3. CASE e \in Report
        <2>1. e.kind = "stage" /\ e.name \in Name /\ e.status \in Status /\ e.index \in IndexOf(e.name)
              /\ f \in AfterReport(e)
            BY <1>3 DEF Report, Follow
        <2>a. \A i \in 0..NStages : \A g \in Proceed(i) : g \in Event
            BY DEF Proceed, Reports, Ends, Event, Report, Terminus, Index, IndexOf, Name, Status, Terminal
        <2>2. CASE e.name = "snapshot_before"
            BY <2>1, <2>2, <2>a DEF AfterReport
        <2>3. CASE e.name = "stage"
            <3>1. e.index \in 1..NStages /\ f \in AfterStage(e)
                BY <2>1, <2>3 DEF AfterReport, IndexOf
            <3>2. CASE e.status = "running"
                BY <3>1, <3>2 DEF AfterStage, Reports, Event, Report, Index, IndexOf, Name, Status
            <3>3. CASE e.status = "success"
                BY <3>1, <3>3, <2>a DEF AfterStage
            <3>4. CASE e.status = "failed"
                BY <3>1, <3>4 DEF AfterStage, Reports, Event, Report, Index, IndexOf, Name, Status
            <3>5. QED BY <2>1, <3>2, <3>3, <3>4 DEF Status
        <2>4. CASE e.name = "snapshot_after"
            BY <2>1, <2>4 DEF AfterReport, Ends, Event, Terminus, Terminal
        <2>5. CASE e.name = "rollback"
            <3>1. e.index \in 1..(NStages + 1) /\ f \in AfterRollback(e)
                BY <2>1, <2>5 DEF AfterReport, IndexOf
            <3>2. QED BY <2>1, <3>1 DEF AfterRollback, Reports, Ends, Event, Report, Terminus, Terminal,
                                     Index, IndexOf, Name, Status
        <2>6. QED BY <2>1, <2>2, <2>3, <2>4, <2>5 DEF Name
    <1>4. QED BY <1>1, <1>2, <1>3 DEF Event

LEMMA PlayType ==
    ASSUME NEW v \in View, NEW f \in Frames
    PROVE  Play(v, f) \in View /\ Play(v, f).last = f.id
    <1>1. CASE f \in Whole
        BY <1>1 DEF Whole, Play, View
    <1>2. CASE f \in Single
        <2>1. f.id \in Nat /\ ~f.full /\ f.ev \in Event
            BY <1>2 DEF Single
        <2>2. CASE f.ev \in Report
            <3>1. f.ev.kind = "stage" /\ f.ev.index \in Index
                  /\ [name |-> f.ev.name, status |-> f.ev.status] \in Stage
                BY <2>2 DEF Report, Stage
            <3>2. [v.stage EXCEPT ![f.ev.index] = [name |-> f.ev.name, status |-> f.ev.status]]
                    \in [Index -> Stage]
                BY <3>1 DEF View
            <3>3. QED BY <2>1, <3>1, <3>2 DEF Play, View
        <2>3. CASE f.ev \in Terminus \cup {Accepted}
            <3>1. f.ev.kind # "stage"
                BY <2>3 DEF Terminus, Accepted
            <3>2. QED BY <2>1, <3>1 DEF Play, View
        <2>4. QED BY <2>1, <2>2, <2>3 DEF Event
    <1>3. QED BY <1>1, <1>2 DEF Frames

-----------------------------------------------------------------------------
(***************************************************************************)
(* Reading a stream: what one more frame at its end does, and that reading *)
(* its first frame changes nothing of what it comes to.                    *)
(***************************************************************************)
Reading(r, v, w) ==
    /\ r \in [0..Len(w) -> View]
    /\ r[0] = v
    /\ \A n \in 1..Len(w) : r[n] = Play(r[n - 1], w[n])

LEMMA ReadingExists ==
    ASSUME NEW v \in View, NEW w \in Seq(Frames)
    PROVE  \E r : Reading(r, v, w)
    <1> DEFINE T == {n \in Nat : n <= Len(w) =>
                        \E r \in [0..n -> View] : r[0] = v /\ \A i \in 1..n : r[i] = Play(r[i - 1], w[i])}
    <1>0. Len(w) \in Nat /\ \A i \in 1..Len(w) : w[i] \in Frames
        BY LenProperties, ElementOfSeq
    <1>1. 0 \in T
        <2>1. [i \in 0..0 |-> v] \in [0..0 -> View] /\ [i \in 0..0 |-> v][0] = v
            OBVIOUS
        <2>2. 1..0 = {}
            OBVIOUS
        <2>3. QED BY <2>1, <2>2
    <1>2. ASSUME NEW n \in Nat, n \in T PROVE n + 1 \in T
        <2>1. ASSUME n + 1 <= Len(w)
              PROVE  \E r \in [0..(n + 1) -> View] :
                        r[0] = v /\ \A i \in 1..(n + 1) : r[i] = Play(r[i - 1], w[i])
            <3>1. PICK r \in [0..n -> View] : r[0] = v /\ \A i \in 1..n : r[i] = Play(r[i - 1], w[i])
                BY <1>0, <1>2, <2>1
            <3> DEFINE g == [i \in 0..(n + 1) |-> IF i = n + 1 THEN Play(r[n], w[n + 1]) ELSE r[i]]
            <3>2. r[n] \in View /\ w[n + 1] \in Frames
                BY <1>0, <2>1, <3>1
            <3>3. Play(r[n], w[n + 1]) \in View
                BY <3>2, PlayType
            <3>4. g \in [0..(n + 1) -> View]
                BY <3>1, <3>3
            <3>5. g[0] = v
                BY <3>1
            <3>6. ASSUME NEW i \in 1..(n + 1) PROVE g[i] = Play(g[i - 1], w[i])
                <4>1. CASE i = n + 1
                    BY <4>1
                <4>2. CASE i \in 1..n
                    BY <3>1, <4>2
                <4>3. QED BY <4>1, <4>2
            <3> HIDE DEF g
            <3>7. QED BY <3>4, <3>5, <3>6
        <2>2. QED BY <2>1
    <1>3. Len(w) \in T
        <2> HIDE DEF T
        <2>1. QED BY <1>0, <1>1, <1>2, Induction
    <1>4. QED BY <1>0, <1>3 DEF Reading

LEMMA ReadIs ==
    ASSUME NEW v \in View, NEW w \in Seq(Frames), NEW r, Reading(r, v, w)
    PROVE  Read(v, w) = r[Len(w)]
    <1> DEFINE G(g) == [n \in 0..Len(w) |-> IF n = 0 THEN v ELSE Play(g[n - 1], w[n])]
               g == CHOOSE g : g = G(g)
               T == {n \in Nat : n <= Len(w) => g[n] = r[n]}
    <1>0. Len(w) \in Nat
        BY LenProperties
    <1>1. r = G(r)
        BY <1>0 DEF Reading
    <1>2. g = G(g)
        BY <1>1
    <1>3. \A n \in 0..Len(w) : g[n] = IF n = 0 THEN v ELSE Play(g[n - 1], w[n])
        <2> HIDE DEF g
        <2>1. QED BY <1>2
    <1>4. 0 \in T
        <2> HIDE DEF g
        <2>1. QED BY <1>0, <1>3 DEF Reading
    <1>5. \A n \in Nat : n \in T => n + 1 \in T
        <2> HIDE DEF g
        <2>1. QED BY <1>0, <1>3 DEF Reading
    <1>6. Len(w) \in T
        <2> HIDE DEF T
        <2>1. QED BY <1>0, <1>4, <1>5, Induction
    <1>7. Read(v, w) = g[Len(w)]
        BY DEF Read
    <1>8. QED BY <1>0, <1>6, <1>7

LEMMA ReadNothing ==
    ASSUME NEW v \in View
    PROVE  Read(v, <<>>) = v
    <1>1. <<>> \in Seq(Frames) /\ Len(<<>>) = 0
        BY EmptySeq
    <1>2. PICK r : Reading(r, v, <<>>)
        BY <1>1, ReadingExists
    <1>3. Read(v, <<>>) = r[0]
        BY <1>1, <1>2, ReadIs
    <1>4. QED BY <1>2, <1>3 DEF Reading

LEMMA ReadType ==
    ASSUME NEW v \in View, NEW w \in Seq(Frames)
    PROVE  Read(v, w) \in View
    <1>1. PICK r : Reading(r, v, w)
        BY ReadingExists
    <1>2. Len(w) \in Nat
        BY LenProperties
    <1>3. QED BY <1>1, <1>2, ReadIs DEF Reading

LEMMA ReadOneMore ==
    ASSUME NEW v \in View, NEW w \in Seq(Frames), NEW f \in Frames
    PROVE  Read(v, Append(w, f)) = Play(Read(v, w), f)
    <1>1. PICK r : Reading(r, v, Append(w, f))
        BY ReadingExists, AppendProperties
    <1>2. /\ Len(w) \in Nat /\ Append(w, f) \in Seq(Frames) /\ Len(Append(w, f)) = Len(w) + 1
          /\ \A i \in 1..Len(w) : Append(w, f)[i] = w[i]
          /\ Append(w, f)[Len(w) + 1] = f
        BY AppendProperties, LenProperties
    <1> DEFINE s == [n \in 0..Len(w) |-> r[n]]
    <1>3. Reading(s, v, w)
        <2>1. s \in [0..Len(w) -> View] /\ s[0] = v
            BY <1>1, <1>2 DEF Reading
        <2>2. ASSUME NEW n \in 1..Len(w) PROVE s[n] = Play(s[n - 1], w[n])
            BY <1>1, <1>2 DEF Reading
        <2>3. QED BY <2>1, <2>2 DEF Reading
    <1>4. Read(v, w) = r[Len(w)]
        <2>1. Read(v, w) = s[Len(w)]
            <3> HIDE DEF s
            <3>1. QED BY <1>3, ReadIs
        <2>2. QED BY <1>2, <2>1
    <1>5. Read(v, Append(w, f)) = r[Len(w) + 1]
        BY <1>1, <1>2, ReadIs
    <1>6. QED BY <1>1, <1>2, <1>4, <1>5 DEF Reading

LEMMA ReadFirst ==
    ASSUME NEW v \in View, NEW w \in Seq(Frames), w # <<>>
    PROVE  Read(Play(v, Head(w)), Tail(w)) = Read(v, w)
    <1>1. PICK r : Reading(r, v, w)
        BY ReadingExists
    <1>2. /\ Len(w) \in Nat /\ Len(w) > 0 /\ Head(w) = w[1] /\ Head(w) \in Frames
          /\ Tail(w) \in Seq(Frames) /\ Len(Tail(w)) = Len(w) - 1
          /\ \A i \in 1..(Len(w) - 1) : Tail(w)[i] = w[i + 1]
        BY HeadTailProperties, LenProperties, EmptySeq
    <1> DEFINE s == [n \in 0..(Len(w) - 1) |-> r[n + 1]]
               u == Play(v, Head(w))
    <1>3. u \in View
        BY <1>2, PlayType
    <1>4. Reading(s, u, Tail(w))
        <2>1. s \in [0..Len(Tail(w)) -> View] /\ s[0] = u
            BY <1>1, <1>2 DEF Reading
        <2>2. ASSUME NEW n \in 1..Len(Tail(w)) PROVE s[n] = Play(s[n - 1], Tail(w)[n])
            BY <1>1, <1>2 DEF Reading
        <2>3. QED BY <2>1, <2>2 DEF Reading
    <1>5. Read(u, Tail(w)) = s[Len(w) - 1]
        <2> HIDE DEF s, u
        <2>1. QED BY <1>2, <1>3, <1>4, ReadIs
    <1>6. Read(v, w) = r[Len(w)]
        BY <1>1, ReadIs
    <1>7. QED BY <1>2, <1>5, <1>6

-----------------------------------------------------------------------------
(***************************************************************************)
(* The types are kept.                                                     *)
(***************************************************************************)
LEMMA Types ==
    ASSUME Typed
    PROVE  /\ row \in [state : {"queued", "running"} \cup Terminal, seq : Nat, ended : BOOLEAN]
           /\ (row.state \in Terminal => row.ended)
           /\ stage \in [Index -> Stage] /\ base \in Nat
           /\ run \in [on : BOOLEAN, seq : Nat, ev : Event]
           /\ on \in [Follower -> BOOLEAN] /\ view \in [Follower -> View]
           /\ wire \in [Follower -> Seq(Frames)]
           /\ way \in [Follower -> {"stream", "poll"}]
           /\ faults \in 0..MaxFaults
           /\ \A c \in Follower : (on[c] => up) /\ (c \notin Streams => wire[c] = <<>>)
    BY DEF Typed, TypeOK

\* A step of the rows, the call or the run, with what it sends to the open streams.
LEMMA RowType ==
    ASSUME Typed, NEW state \in {"queued", "running"} \cup Terminal, NEW seq \in Nat,
           Transition(state, seq)
    PROVE  /\ row' \in [state : {"queued", "running"} \cup Terminal, seq : Nat, ended : BOOLEAN]
           /\ (row'.state \in Terminal => row'.ended)
    BY Types DEF Transition

LEMMA NotifyType ==
    ASSUME Typed, NEW f \in Frames, Notify(f), UNCHANGED <<way, on>>
    PROVE  /\ wire' \in [Follower -> Seq(Frames)]
           /\ \A c \in Follower : c \notin Streams' => wire'[c] = <<>>
    <1>1. \A c \in Follower : wire[c] \in Seq(Frames) /\ Append(wire[c], f) \in Seq(Frames)
        BY Types, AppendProperties
    <1>2. Streams' = Streams
        BY DEF Streams
    <1>3. QED BY <1>1, <1>2, Types DEF Notify

LEMMA EventFrame ==
    ASSUME NEW n \in Nat, NEW e \in Event
    PROVE  Frame(n, e) \in Frames /\ Frame(n, e).id = n /\ ~Frame(n, e).full /\ Frame(n, e).ev = e
    BY DEF Frame, Frames, Single

LEMMA EndFrame ==
    ASSUME NEW s \in Terminal
    PROVE  Ends(s) \in Event /\ Ends(s).kind = "terminal"
    BY DEF Ends, Event, Terminus

LEMMA UpsertType ==
    ASSUME Typed, NEW e \in Event, e.kind = "stage"
    PROVE  Upsert(e) \in [Index -> Stage] /\ e \in Report
    <1>1. e \in Report
        BY DEF Event, Accepted, Terminus
    <1>2. [name |-> e.name, status |-> e.status] \in Stage /\ e.index \in Index
        BY <1>1 DEF Report, Stage
    <1>3. QED BY <1>1, <1>2, Types DEF Upsert

LEMMA ApplyType ==
    ASSUME Typed, ApplyEvent, UNCHANGED <<way, on>>
    PROVE  /\ row' \in [state : {"queued", "running"} \cup Terminal, seq : Nat, ended : BOOLEAN]
           /\ (row'.state \in Terminal => row'.ended)
           /\ stage' \in [Index -> Stage]
           /\ wire' \in [Follower -> Seq(Frames)]
           /\ \A c \in Follower : c \notin Streams' => wire'[c] = <<>>
    <1>1. run.seq \in Nat /\ run.ev \in Event
        BY Types
    <1>2. CASE Fresh
        <2>1. StateAfter(run.ev) \in {"queued", "running"} \cup Terminal
            BY <1>1, Types DEF StateAfter, Event, Accepted, Report, Terminus, Terminal
        <2>2. Transition(StateAfter(run.ev), run.seq) /\ Notify(Frame(run.seq, run.ev))
            BY <1>2 DEF ApplyEvent
        <2>3. stage' \in [Index -> Stage]
            BY <1>1, <1>2, UpsertType, Types DEF ApplyEvent
        <2>4. QED BY <1>1, <2>1, <2>2, <2>3, RowType, NotifyType, EventFrame
    <1>3. CASE ~Fresh
        <2>1. UNCHANGED <<row, stage, wire>>
            BY <1>3 DEF ApplyEvent
        <2>2. Streams' = Streams
            BY DEF Streams
        <2>3. QED BY <2>1, <2>2, Types
    <1>4. QED BY <1>2, <1>3

LEMMA AdvanceType ==
    ASSUME Typed, Advance
    PROVE  run' \in [on : BOOLEAN, seq : Nat, ev : Event]
    <1>1. run \in [on : BOOLEAN, seq : Nat, ev : Event]
        BY Types
    <1>2. ASSUME NEW e \in Follow(run.ev), run' = [run EXCEPT !.seq = @ + 1, !.ev = e]
          PROVE  run' \in [on : BOOLEAN, seq : Nat, ev : Event]
        <2>1. e \in Event
            BY <1>1, FollowType
        <2>2. run' = [on |-> run.on, seq |-> run.seq + 1, ev |-> e]
            BY <1>1, <1>2
        <2>3. run.on \in BOOLEAN /\ run.seq + 1 \in Nat
            BY <1>1
        <2>4. QED BY <2>1, <2>2, <2>3
    <1>3. QED BY <1>1, <1>2 DEF Advance

LEMMA FaultType == TypeOK /\ Fault => faults' \in 0..MaxFaults
    BY DEF TypeOK, Fault

LEMMA ApiEndsType ==
    ASSUME Typed, ApiEnds
    PROVE  /\ up' \in BOOLEAN /\ call' \in {"none", "sent", "taken", "lost"}
           /\ on' \in [Follower -> BOOLEAN] /\ wire' \in [Follower -> Seq(Frames)]
           /\ \A c \in Follower : ~on'[c] /\ wire'[c] = <<>>
    <1>1. <<>> \in Seq(Frames)
        BY EmptySeq
    <1>2. QED BY <1>1 DEF ApiEnds

LEMMA TypeInit == Init => Typed
    <1> SUFFICES ASSUME Init PROVE Typed
        OBVIOUS
    <1>1. <<>> \in Seq(Frames) /\ Accepted \in Event
        BY EmptySeq DEF Event
    <1>2. [i \in Index |-> NoStage] \in [Index -> Stage]
        BY DEF Stage
    <1>3. NoView \in View
        BY <1>2 DEF NoView, View
    <1>4. QED BY <1>1, <1>2, <1>3 DEF Init, Typed, TypeOK, NoRun, Terminal

LEMMA ViewAfter ==
    ASSUME NEW v \in View, NEW n \in Nat, NEW b \in BOOLEAN
    PROVE  [v EXCEPT !.last = n, !.ended = b] \in View
    <1> DEFINE R == Nat \cup {NoId}
               T == [Index -> Stage]
    <1>1. v \in [last : R, stage : T, ended : BOOLEAN] /\ n \in R
        BY DEF View
    <1>2. [v EXCEPT !.last = n, !.ended = b] \in [last : R, stage : T, ended : BOOLEAN]
        <2> HIDE DEF R, T
        <2>1. QED BY <1>1
    <1>3. QED BY <1>2 DEF View

\* What the followers do.
LEMMA FollowerType ==
    ASSUME Typed, NEW c \in Follower,
           Watch(c) \/ Receive(c) \/ Break(c) \/ WaitForTask(c) \/ AnswerWaiter(c)
    PROVE  Typed'
    <1>0. UNCHANGED <<row, stage, up, call, base, run, way, odd>>
        BY DEF Watch, Receive, Break, WaitForTask, AnswerWaiter
    <1>1. CASE Watch(c)
        <2>1. Snapshot \in Frames /\ Snapshot.id = row.seq
            BY Types DEF Snapshot, Frames, Whole
        <2>2. <<Snapshot>> \in Seq(Frames) /\ <<>> \in Seq(Frames)
            BY <2>1, EmptySeq
        <2>3. wire' \in [Follower -> Seq(Frames)] /\ on' \in [Follower -> BOOLEAN]
            BY <1>1, <2>2, Types DEF Watch
        <2>4. \A d \in Follower : (on'[d] => up) /\ (d \notin Streams' => wire'[d] = <<>>)
            BY <1>0, <1>1, Types DEF Watch, Streams
        <2>5. QED BY <1>0, <1>1, <2>3, <2>4 DEF Watch, Typed, TypeOK
    <1>2. CASE Receive(c)
        <2>1. wire[c] \in Seq(Frames) /\ wire[c] # <<>> /\ view[c] \in View
            BY <1>2, Types DEF Receive
        <2>2. Head(wire[c]) \in Frames /\ Tail(wire[c]) \in Seq(Frames)
            BY <2>1, HeadTailProperties, EmptySeq, LenProperties
        <2>3. Play(view[c], Head(wire[c])) \in View
            BY <2>1, <2>2, PlayType
        <2>4. wire' \in [Follower -> Seq(Frames)] /\ view' \in [Follower -> View]
            BY <1>2, <2>2, <2>3, Types DEF Receive
        <2>5. \A d \in Follower : (on'[d] => up) /\ (d \notin Streams' => wire'[d] = <<>>)
            BY <1>0, <1>2, Types DEF Receive, Streams
        <2>6. QED BY <1>0, <1>2, <2>4, <2>5 DEF Receive, Typed, TypeOK
    <1>3. CASE Break(c)
        <2>1. <<>> \in Seq(Frames)
            BY EmptySeq
        <2>2. wire' \in [Follower -> Seq(Frames)] /\ on' \in [Follower -> BOOLEAN]
            BY <1>3, <2>1, Types DEF Break
        <2>3. \A d \in Follower : (on'[d] => up) /\ (d \notin Streams' => wire'[d] = <<>>)
            BY <1>0, <1>3, Types DEF Break, Streams
        <2>4. faults' \in 0..MaxFaults
            BY <1>3, FaultType DEF Break, Typed
        <2>5. QED BY <1>0, <1>3, <2>2, <2>3, <2>4 DEF Break, Typed, TypeOK
    <1>4. CASE WaitForTask(c) \/ AnswerWaiter(c)
        <2>1. wire' = wire /\ faults' = faults /\ way[c] = "poll" /\ (on'[c] => up) /\ on' \in [Follower -> BOOLEAN]
              /\ \A d \in Follower \ {c} : on'[d] = on[d]
            BY <1>4, Types DEF WaitForTask, AnswerWaiter
        <2>2. view' \in [Follower -> View]
            <3>1. Revision \in Nat
                BY Types DEF Revision
            <3>2. [view[c] EXCEPT !.last = Revision, !.ended = row.ended] \in View
                <4>1. view[c] \in View /\ row.ended \in BOOLEAN
                    BY Types
                <4>2. QED BY <3>1, <4>1, ViewAfter
            <3>3. Answer(c) => view' = [view EXCEPT ![c] = [view[c] EXCEPT !.last = Revision, !.ended = row.ended]]
                BY Types DEF Answer
            <3>4. QED BY <1>4, <3>2, <3>3, Types DEF WaitForTask, AnswerWaiter
        <2>3. \A d \in Follower : (on'[d] => up) /\ (d \notin Streams' => wire'[d] = <<>>)
            BY <1>0, <2>1, Types DEF Streams
        <2>4. QED BY <1>0, <2>1, <2>2, <2>3 DEF Typed, TypeOK
    <1>5. QED BY <1>1, <1>2, <1>3, <1>4

\* What the api and the agent do.
LEMMA TaskType ==
    ASSUME Typed,
           \/ Dispatch \/ Begin \/ BeginAnswered \/ FailBeforeChange \/ CancelQueued \/ SweepExpired
           \/ Deliver \/ DeliverUnanswered \/ GiveUp
           \/ ApiCrash \/ ApiCrashInEvent \/ ApiRestart \/ AgentCrash
    PROVE  Typed'
    <1>1. CASE Dispatch \/ Begin \/ AgentCrash
        <2>1. run' \in [on : BOOLEAN, seq : Nat, ev : Event]
            <3>1. run \in [on : BOOLEAN, seq : Nat, ev : Event]
                BY Types
            <3>2. [on |-> TRUE, seq |-> 1, ev |-> Accepted] \in [on : BOOLEAN, seq : Nat, ev : Event]
                BY DEF Event
            <3>3. CASE AgentCrash
                <4>1. run' = [on |-> FALSE, seq |-> run.seq, ev |-> run.ev]
                    BY <3>1, <3>3 DEF AgentCrash
                <4>2. QED BY <3>1, <4>1
            <3>4. QED BY <1>1, <3>1, <3>2, <3>3 DEF Dispatch, Begin
        <2>2. faults' \in 0..MaxFaults
            BY <1>1, Types, FaultType DEF Dispatch, Begin, AgentCrash, Typed
        <2>3. base' \in Nat /\ call' \in {"none", "sent", "taken", "lost"} /\ odd' \subseteq {"reran", "rewound", "swept", "torn"}
            BY <1>1, Types DEF Dispatch, Begin, AgentCrash, Typed, TypeOK
        <2>4. UNCHANGED <<row, stage, up, way, on, wire, view>>
            BY <1>1 DEF Dispatch, Begin, AgentCrash
        <2>5. Streams' = Streams
            BY <2>4 DEF Streams
        <2>6. QED BY <2>1, <2>2, <2>3, <2>4, <2>5 DEF Typed, TypeOK
    <1>2. CASE BeginAnswered \/ SweepExpired
        <2>1. \E s \in {"running", "requires_manual_recovery"} : Transition(s, row.seq)
            BY <1>2 DEF BeginAnswered, SweepExpired
        <2>2. /\ row' \in [state : {"queued", "running"} \cup Terminal, seq : Nat, ended : BOOLEAN]
              /\ (row'.state \in Terminal => row'.ended)
            BY <2>1, RowType, Types DEF Terminal
        <2>3. faults' \in 0..MaxFaults
            BY <1>2, Types, FaultType DEF BeginAnswered, SweepExpired, Typed
        <2>4. UNCHANGED <<stage, up, base, run, way, on, wire, view>>
            BY <1>2 DEF BeginAnswered, SweepExpired
        <2>5. call' \in {"none", "sent", "taken", "lost"} /\ odd' \subseteq {"reran", "rewound", "swept", "torn"}
            BY <1>2 DEF BeginAnswered, SweepExpired, Typed, TypeOK
        <2>6. Streams' = Streams
            BY <2>4 DEF Streams
        <2>7. QED BY <2>2, <2>3, <2>4, <2>5, <2>6 DEF Typed, TypeOK
    <1>3. CASE FailBeforeChange \/ CancelQueued
        <2>1. PICK n \in {base + 1, row.seq + 1}, s \in {"failed", "cancelled"} :
                 Transition(s, n) /\ Notify(Frame(n, Ends(s)))
            BY <1>3 DEF FailBeforeChange, CancelQueued
        <2>2. n \in Nat /\ s \in Terminal
            BY Types DEF Terminal
        <2>3. UNCHANGED <<stage, up, base, run, way, on, view>>
            BY <1>3 DEF FailBeforeChange, CancelQueued
        <2>4. /\ row' \in [state : {"queued", "running"} \cup Terminal, seq : Nat, ended : BOOLEAN]
              /\ (row'.state \in Terminal => row'.ended)
            BY <2>1, <2>2, RowType
        <2>5. Frame(n, Ends(s)) \in Frames
            BY <2>2, EndFrame, EventFrame
        <2>6. /\ wire' \in [Follower -> Seq(Frames)]
              /\ \A c \in Follower : c \notin Streams' => wire'[c] = <<>>
            BY <2>1, <2>3, <2>5, NotifyType
        <2>7. faults' \in 0..MaxFaults
            BY <1>3, Types, FaultType DEF FailBeforeChange, CancelQueued, Typed
        <2>8. call' \in {"none", "sent", "taken", "lost"} /\ odd' \subseteq {"reran", "rewound", "swept", "torn"}
            BY <1>3 DEF FailBeforeChange, CancelQueued, Typed, TypeOK
        <2>9. QED BY <2>3, <2>4, <2>6, <2>7, <2>8 DEF Typed, TypeOK
    <1>4. CASE Deliver \/ DeliverUnanswered
        <2>1. ApplyEvent /\ UNCHANGED <<up, call, base, way, on, view, odd>>
            BY <1>4 DEF Deliver, DeliverUnanswered
        <2>2. run' \in [on : BOOLEAN, seq : Nat, ev : Event]
            BY <1>4, Types, AdvanceType DEF Deliver, DeliverUnanswered
        <2>3. faults' \in 0..MaxFaults
            BY <1>4, Types, FaultType DEF Deliver, DeliverUnanswered, Typed
        <2>4. QED BY <2>1, <2>2, <2>3, ApplyType DEF Typed, TypeOK
    <1>5. CASE GiveUp
        <2>1. run' \in [on : BOOLEAN, seq : Nat, ev : Event] /\ faults' \in 0..MaxFaults
            BY <1>5, AdvanceType, FaultType DEF GiveUp, Typed
        <2>2. Streams' = Streams
            BY <1>5 DEF GiveUp, Streams
        <2>3. QED BY <1>5, <2>1, <2>2 DEF GiveUp, Typed, TypeOK
    <1>6. CASE ApiCrash \/ ApiCrashInEvent
        <2>1. ApiEnds /\ Fault /\ UNCHANGED <<row, base, run, way, view>>
            BY <1>6 DEF ApiCrash, ApiCrashInEvent
        <2>2. faults' \in 0..MaxFaults
            BY <2>1, FaultType DEF Typed
        <2>3. stage' \in [Index -> Stage] /\ odd' \subseteq {"reran", "rewound", "swept", "torn"}
            <3>1. odd \subseteq {"reran", "rewound", "swept", "torn"}
                BY DEF Typed, TypeOK
            <3>2. stage \in [Index -> Stage] /\ run.ev \in Event
                BY Types
            <3>3. CASE ApiCrashInEvent
                <4>1. run.ev.kind = "stage" /\ stage' = Upsert(run.ev) /\ odd' = odd \cup {"torn"}
                    BY <3>3 DEF ApiCrashInEvent
                <4>2. Upsert(run.ev) \in [Index -> Stage]
                    BY <3>2, <4>1, UpsertType
                <4>3. QED BY <3>1, <4>1, <4>2
            <3>4. QED BY <1>6, <3>1, <3>2, <3>3 DEF ApiCrash
        <2>4. QED BY <2>1, <2>2, <2>3, ApiEndsType DEF Typed, TypeOK
    <1>7. CASE ApiRestart
        <2>1. Streams' = Streams
            BY <1>7 DEF ApiRestart, Streams
        <2>2. QED BY <1>7, <2>1 DEF ApiRestart, Typed, TypeOK
    <1>8. QED BY <1>1, <1>2, <1>3, <1>4, <1>5, <1>6, <1>7

LEMMA TypeStep == Typed /\ [Next]_vars => Typed'
    <1> SUFFICES ASSUME Typed, [Next]_vars PROVE Typed'
        OBVIOUS
    <1>1. CASE UNCHANGED vars
        <2>1. Streams' = Streams
            BY <1>1 DEF vars, Streams
        <2>2. QED BY <1>1, <2>1 DEF vars, Typed, TypeOK
    <1>2. ASSUME NEW c \in Follower,
                 Watch(c) \/ Receive(c) \/ Break(c) \/ WaitForTask(c) \/ AnswerWaiter(c)
          PROVE  Typed'
        BY <1>2, FollowerType
    <1>3. QED BY <1>1, <1>2, TaskType DEF Next

\* Every reachable state is of the declared types.
THEOREM TypeCorrect == Spec => []TypeOK
    <1>1. Spec => []Typed
        BY TypeInit, TypeStep, PTL DEF Spec
    <1>2. Typed => TypeOK
        BY DEF Typed
    <1>3. QED BY <1>1, <1>2, PTL

-----------------------------------------------------------------------------
(***************************************************************************)
(* The streams.  The last frame on its way carries the sequence of the     *)
(* row, every other one a lower sequence: a follower whose last id is the  *)
(* row's has read all there was, and resumes with nothing missed.          *)
(***************************************************************************)
Tells(v, rows, ended, o) ==
    /\ "torn" \notin o => v.stage = rows
    /\ "swept" \notin o => v.ended = ended

Followed(c) ==
    /\ view[c].last <= row.seq
    /\ view[c].last = row.seq => Tells(view[c], stage, row.ended, odd)
    /\ \A n \in 1..Len(wire[c]) :
          wire[c][n].id <= row.seq /\ (n < Len(wire[c]) => wire[c][n].id < row.seq)
    /\ on[c] => Told(c).last = row.seq /\ Tells(Told(c), stage, row.ended, odd)

FeedInv == Typed /\ ("rewound" \notin odd => \A c \in Follower : way[c] = "stream" => Followed(c))

\* Neither the row nor the frames on their way move, or the stream is closed.
LEMMA StreamStays ==
    ASSUME Typed, NEW c \in Follower, Followed(c), odd \subseteq odd', UNCHANGED view,
           row'.seq = row.seq,
           stage' = stage \/ "torn" \in odd', row'.ended = row.ended \/ "swept" \in odd',
           \/ wire'[c] = wire[c] /\ on'[c] = on[c]
           \/ wire'[c] = <<>> /\ ~on'[c]
    PROVE  Followed(c)'
    <1>1. \A v \in View : Tells(v, stage, row.ended, odd) => Tells(v, stage', row'.ended, odd')
        BY DEF Tells
    <1>2. view[c] \in View /\ Told(c) \in View
        BY Types, ReadType DEF Told
    <1>3. CASE wire'[c] = wire[c] /\ on'[c] = on[c]
        <2>1. Told(c)' = Told(c)
            BY <1>3 DEF Told
        <2>2. QED BY <1>1, <1>2, <1>3, <2>1 DEF Followed
    <1>4. CASE wire'[c] = <<>> /\ ~on'[c]
        <2>1. 1..Len(wire'[c]) = {}
            BY <1>4, EmptySeq
        <2>2. QED BY <1>1, <1>2, <1>4, <2>1 DEF Followed
    <1>5. QED BY <1>3, <1>4

\* The row moves on, and a frame with its sequence follows in every open stream.
LEMMA StreamGrows ==
    ASSUME Typed, NEW c \in Follower, Followed(c), way[c] = "stream", UNCHANGED <<way, on, view>>,
           NEW f \in Frames, Notify(f), f.id = row'.seq, row'.seq \in Nat, row'.seq > row.seq,
           \A v \in View : Tells(v, stage, row.ended, odd) => Tells(Play(v, f), stage', row'.ended, odd')
    PROVE  Followed(c)'
    <1>1. view[c] \in View /\ wire[c] \in Seq(Frames) /\ Told(c) \in View /\ row.seq \in Nat
          /\ (~on[c] => wire[c] = <<>>)
        BY Types, ReadType DEF Told, Streams
    <1>2. view[c].last <= row.seq /\ view[c].last \in Int
        BY <1>1 DEF View, NoId, Followed
    <1>3. CASE ~on[c]
        <2>1. wire'[c] = <<>> /\ ~on'[c]
            BY <1>1, <1>3 DEF Notify, Streams
        <2>2. 1..Len(wire'[c]) = {}
            BY <2>1, EmptySeq
        <2>3. QED BY <1>1, <1>2, <2>1, <2>2 DEF Followed
    <1>4. CASE on[c]
        <2>1. wire'[c] = Append(wire[c], f) /\ on'[c]
            BY <1>4 DEF Notify, Streams
        <2>2. /\ Len(wire'[c]) = Len(wire[c]) + 1 /\ Len(wire[c]) \in Nat
              /\ \A n \in 1..Len(wire[c]) : wire'[c][n] = wire[c][n] /\ wire[c][n] \in Frames
              /\ wire'[c][Len(wire[c]) + 1] = f
            BY <1>1, <2>1, AppendProperties, LenProperties, ElementOfSeq
        <2>3. \A g \in Frames : g.id \in Nat
            BY DEF Frames, Whole, Single
        <2>4. \A n \in 1..Len(wire[c]) : wire[c][n].id <= row.seq
            BY DEF Followed
        <2>5. ASSUME NEW n \in 1..Len(wire'[c])
              PROVE  wire'[c][n].id <= row'.seq /\ (n < Len(wire'[c]) => wire'[c][n].id < row'.seq)
            <3>1. CASE n = Len(wire[c]) + 1
                BY <2>2, <3>1
            <3>2. CASE n \in 1..Len(wire[c])
                <4>1. wire'[c][n].id <= row.seq /\ wire'[c][n].id \in Nat
                    BY <2>2, <2>3, <2>4, <3>2
                <4>2. QED BY <1>1, <4>1
            <3>3. QED BY <2>2, <3>1, <3>2
        <2>6. Told(c)' = Play(Told(c), f)
            BY <1>1, <2>1, ReadOneMore DEF Told
        <2>7. Told(c)'.last = row'.seq
            BY <1>1, <2>6, PlayType
        <2>8. Tells(Told(c)', stage', row'.ended, odd')
            BY <1>1, <1>4, <2>6 DEF Followed
        <2>9. view'[c].last <= row'.seq /\ view'[c].last # row'.seq
            BY <1>1, <1>2
        <2>10. QED BY <2>5, <2>7, <2>8, <2>9 DEF Followed
    <1>5. QED BY <1>3, <1>4

\* A stream opens: with a snapshot, or at the id it resumes from.
LEMMA StreamOpens ==
    ASSUME Typed, NEW c \in Follower, Followed(c), Watch(c)
    PROVE  Followed(c)'
    <1>1. view[c] \in View /\ row.seq \in Nat /\ view[c].last \in Nat \cup {NoId}
          /\ wire \in [Follower -> Seq(Frames)]
        BY Types DEF View
    <1>2. UNCHANGED <<row, stage, view, odd>>
        BY DEF Watch
    <1>3. CASE Resync(c)
        <2>1. Snapshot \in Frames /\ Snapshot.id = row.seq /\ Snapshot.full
              /\ Snapshot.stage = stage /\ Snapshot.ended = row.ended
            BY Types DEF Snapshot, Frames, Whole
        <2>2. wire'[c] = <<Snapshot>> /\ <<>> \in Seq(Frames) /\ <<Snapshot>> = Append(<<>>, Snapshot)
            BY <1>1, <1>3, EmptySeq DEF Watch
        <2>3. Told(c)' = Play(view[c], Snapshot)
            <3>1. Told(c)' = Read(view[c], <<Snapshot>>)
                BY <1>2, <2>2 DEF Told
            <3>2. Read(view[c], Append(<<>>, Snapshot)) = Play(Read(view[c], <<>>), Snapshot)
                BY <1>1, <2>1, <2>2, ReadOneMore
            <3>3. Read(view[c], <<>>) = view[c]
                BY <1>1, ReadNothing
            <3>4. QED BY <2>2, <3>1, <3>2, <3>3
        <2>4. Told(c)'.last = row.seq /\ Tells(Told(c)', stage, row.ended, odd)
            BY <2>1, <2>3 DEF Play, Tells
        <2>5. \A n \in 1..Len(wire'[c]) : n = 1 /\ wire'[c][n].id = row.seq
            BY <2>1, <2>2
        <2>6. Len(wire'[c]) = 1
            BY <2>2
        <2>7. QED BY <1>1, <1>2, <2>4, <2>5, <2>6 DEF Followed
    <1>4. CASE ~Resync(c)
        <2>1. view[c].last = row.seq
            BY <1>1, <1>4 DEF Resync, Followed, NoId
        <2>2. wire'[c] = <<>>
            BY <1>1, <1>4 DEF Watch
        <2>3. Told(c)' = view[c]
            BY <1>1, <1>2, <2>2, ReadNothing DEF Told
        <2>4. 1..Len(wire'[c]) = {}
            BY <2>2, EmptySeq
        <2>5. QED BY <1>2, <2>1, <2>3, <2>4 DEF Followed
    <1>5. QED BY <1>3, <1>4

\* A frame is read: the one with the row's sequence is the last.
LEMMA StreamIsRead ==
    ASSUME Typed, NEW c \in Follower, Followed(c), Receive(c)
    PROVE  Followed(c)'
    <1> DEFINE w == wire[c]
               u == Play(view[c], Head(w))
    <1>1. view[c] \in View /\ w \in Seq(Frames) /\ w # <<>> /\ on[c] /\ row.seq \in Nat
        BY Types DEF Receive, Streams
    <1>2. /\ Len(w) \in Nat /\ Len(w) > 0 /\ Head(w) = w[1] /\ Head(w) \in Frames
          /\ Tail(w) \in Seq(Frames) /\ Len(Tail(w)) = Len(w) - 1
          /\ \A i \in 1..(Len(w) - 1) : Tail(w)[i] = w[i + 1]
        BY <1>1, HeadTailProperties, LenProperties, EmptySeq
    <1>3. UNCHANGED <<row, stage, on, odd>> /\ view'[c] = u /\ wire'[c] = Tail(w)
        BY Types DEF Receive
    <1>4. u \in View /\ u.last = w[1].id
        BY <1>1, <1>2, PlayType
    <1>5. Told(c)' = Told(c)
        <2>1. Read(u, Tail(w)) = Read(view[c], w)
            BY <1>1, ReadFirst
        <2>2. QED BY <1>3, <2>1 DEF Told
    <1>6. \A n \in 1..Len(w) : w[n].id <= row.seq /\ (n < Len(w) => w[n].id < row.seq)
        BY DEF Followed
    <1>7. u.last <= row.seq
        BY <1>2, <1>4, <1>6
    <1>8. u.last = row.seq => Tells(u, stage, row.ended, odd)
        <2>1. SUFFICES ASSUME u.last = row.seq PROVE Tells(u, stage, row.ended, odd)
            OBVIOUS
        <2>2. Len(w) = 1
            <3>1. 1 \in 1..Len(w)
                BY <1>2
            <3>2. 1 < Len(w) => w[1].id < row.seq
                BY <1>6, <3>1
            <3>3. w[1].id = row.seq
                BY <1>4, <2>1
            <3>4. ~(row.seq < row.seq)
                BY <1>1
            <3>5. ~(1 < Len(w))
                BY <3>2, <3>3, <3>4
            <3> HIDE DEF w
            <3>6. QED BY <1>2, <3>5
        <2>3. Tail(w) = <<>>
            <3>1. Tail(w) \in Seq(Frames) /\ Len(Tail(w)) = 0
                BY <1>2, <2>2
            <3>2. QED BY <3>1, EmptySeq
        <2>4. Told(c)' = u
            BY <1>3, <1>4, <2>3, ReadNothing DEF Told
        <2>5. QED BY <1>1, <1>5, <2>4 DEF Followed
    <1>9. \A n \in 1..Len(Tail(w)) :
             Tail(w)[n].id <= row.seq /\ (n < Len(Tail(w)) => Tail(w)[n].id < row.seq)
        <2>1. SUFFICES ASSUME NEW n \in 1..Len(Tail(w))
                       PROVE  Tail(w)[n].id <= row.seq /\ (n < Len(Tail(w)) => Tail(w)[n].id < row.seq)
            OBVIOUS
        <2>2. Tail(w)[n] = w[n + 1] /\ n + 1 \in 1..Len(w) /\ (n < Len(Tail(w)) => n + 1 < Len(w))
            BY <1>2
        <2>3. QED BY <1>6, <2>2
    <1>10. Told(c)'.last = row.seq /\ Tells(Told(c)', stage, row.ended, odd)
        BY <1>1, <1>5 DEF Followed
    <1> HIDE DEF u, w
    <1>11. QED BY <1>3, <1>7, <1>8, <1>9, <1>10 DEF Followed

\* The frame of an event tells what the event writes.
LEMMA EventTold ==
    ASSUME Typed, ApplyEvent, Fresh, odd' = odd, NEW v \in View, Tells(v, stage, row.ended, odd)
    PROVE  Tells(Play(v, Frame(run.seq, run.ev)), stage', row'.ended, odd')
    <1> DEFINE f == Frame(run.seq, run.ev)
    <1>1. run.ev \in Event /\ run.seq \in Nat /\ row.ended \in BOOLEAN /\ v.ended \in BOOLEAN
          /\ (row.state \in Terminal => row.ended)
        BY Types DEF View
    <1>2. ~f.full /\ f.ev = run.ev /\ Play(v, f).ended = (v.ended \/ run.ev.kind = "terminal")
          /\ Play(v, f).stage = IF run.ev.kind = "stage"
               THEN [v.stage EXCEPT ![run.ev.index] = [name |-> run.ev.name, status |-> run.ev.status]]
               ELSE v.stage
        BY DEF Frame, Play
    <1>3. row'.ended = (row.ended \/ StateAfter(run.ev) \in Terminal)
        BY DEF ApplyEvent, Transition
    <1>4. run.ev.kind = "terminal" <=> run.ev \in Terminus
        BY <1>1 DEF Event, Accepted, Report, Terminus
    <1>5. StateAfter(run.ev) \in Terminal <=> (run.ev \in Terminus \/ row.state \in Terminal)
        BY <1>1 DEF StateAfter, Event, Accepted, Report, Terminus, Terminal
    <1>6. "swept" \notin odd' => Play(v, f).ended = row'.ended
        BY <1>1, <1>2, <1>3, <1>4, <1>5 DEF Tells
    <1>7. stage' = IF run.ev.kind = "stage"
               THEN [stage EXCEPT ![run.ev.index] = [name |-> run.ev.name, status |-> run.ev.status]]
               ELSE stage
        BY DEF ApplyEvent, Upsert
    <1>8. "torn" \notin odd' => Play(v, f).stage = stage'
        BY <1>2, <1>7 DEF Tells
    <1> HIDE DEF f
    <1>9. Tells(Play(v, f), stage', row'.ended, odd')
        BY <1>6, <1>8 DEF Tells
    <1>10. QED BY <1>9 DEF f

\* So does the frame of an end the api comes to by itself.
LEMMA EndTold ==
    ASSUME NEW s \in Terminal, NEW n, Transition(s, n), UNCHANGED stage,
           odd \subseteq odd', NEW v, Tells(v, stage, row.ended, odd)
    PROVE  Tells(Play(v, Frame(n, Ends(s))), stage', row'.ended, odd')
    BY DEF Transition, Frame, Ends, Play, Tells

LEMMA OddGrows ==
    ASSUME Typed, [Next]_vars
    PROVE  odd \subseteq odd' /\ UNCHANGED way
    BY DEF Next, vars, Dispatch, Begin, BeginAnswered, FailBeforeChange, CancelQueued, SweepExpired, Deliver,
           DeliverUnanswered, GiveUp, ApiCrash, ApiCrashInEvent, ApiRestart, AgentCrash, Watch, Receive, Break,
           WaitForTask, AnswerWaiter

\* What the api and the agent do.
LEMMA TaskFollowed ==
    ASSUME Typed, NEW c \in Follower, way[c] = "stream", Followed(c), "rewound" \notin odd',
           odd \subseteq odd',
           \/ Dispatch \/ Begin \/ BeginAnswered \/ FailBeforeChange \/ CancelQueued \/ SweepExpired
           \/ Deliver \/ DeliverUnanswered \/ GiveUp
           \/ ApiCrash \/ ApiCrashInEvent \/ ApiRestart \/ AgentCrash
    PROVE  Followed(c)'
    <1>1. CASE Dispatch \/ Begin \/ AgentCrash \/ GiveUp \/ ApiRestart
        <2>1. UNCHANGED <<row, stage, view, wire, on>>
            BY <1>1 DEF Dispatch, Begin, AgentCrash, GiveUp, ApiRestart
        <2>2. QED BY <2>1, StreamStays
    <1>2. CASE BeginAnswered \/ SweepExpired
        <2>1. UNCHANGED <<stage, view, wire, on>>
            BY <1>2 DEF BeginAnswered, SweepExpired
        <2>2. row'.seq = row.seq
            BY <1>2 DEF BeginAnswered, SweepExpired, Transition
        <2>3. row'.ended = row.ended \/ "swept" \in odd'
            BY <1>2, Types DEF BeginAnswered, SweepExpired, Transition, Terminal
        <2>4. QED BY <2>1, <2>2, <2>3, StreamStays
    <1>3. CASE ApiCrash \/ ApiCrashInEvent
        <2>1. UNCHANGED <<row, view>> /\ wire'[c] = <<>> /\ ~on'[c]
            BY <1>3 DEF ApiCrash, ApiCrashInEvent, ApiEnds
        <2>2. stage' = stage \/ "torn" \in odd'
            BY <1>3 DEF ApiCrash, ApiCrashInEvent
        <2>3. QED BY <2>1, <2>2, StreamStays
    <1>4. CASE FailBeforeChange \/ CancelQueued
        <2>1. PICK n \in {base + 1, row.seq + 1}, s \in {"failed", "cancelled"} :
                 Transition(s, n) /\ Notify(Frame(n, Ends(s))) /\ n > row.seq
            <3>1. CASE FailBeforeChange
                <4>1. base + 1 <= row.seq => "rewound" \in odd'
                    BY <3>1 DEF FailBeforeChange
                <4>2. base + 1 > row.seq
                    BY <4>1, Types
                <4>3. QED BY <3>1, <4>2 DEF FailBeforeChange
            <3>2. CASE CancelQueued
                <4>1. row.seq + 1 > row.seq
                    BY Types
                <4>2. QED BY <3>2, <4>1 DEF CancelQueued
            <3>3. QED BY <1>4, <3>1, <3>2
        <2>2. n \in Nat /\ s \in Terminal
            BY Types DEF Terminal
        <2>3. UNCHANGED <<way, on, view, stage>>
            BY <1>4 DEF FailBeforeChange, CancelQueued
        <2>4. Frame(n, Ends(s)) \in Frames /\ Frame(n, Ends(s)).id = n
            BY <2>2, EndFrame, EventFrame
        <2>5. row'.seq = n
            BY <2>1 DEF Transition
        <2>6. \A v \in View : Tells(v, stage, row.ended, odd)
                              => Tells(Play(v, Frame(n, Ends(s))), stage', row'.ended, odd')
            BY <2>1, <2>2, <2>3, EndTold
        <2>7. QED BY <2>1, <2>2, <2>3, <2>4, <2>5, <2>6, StreamGrows
    <1>5. CASE Deliver \/ DeliverUnanswered
        <2>1. ApplyEvent /\ UNCHANGED <<way, on, view, odd>>
            BY <1>5 DEF Deliver, DeliverUnanswered
        <2>2. CASE Fresh
            <3>1. run.seq \in Nat /\ run.ev \in Event /\ run.seq > row.seq
                BY <2>2, Types DEF Fresh
            <3>2. row'.seq = run.seq /\ Notify(Frame(run.seq, run.ev))
                BY <2>1, <2>2 DEF ApplyEvent, Transition
            <3>3. Frame(run.seq, run.ev) \in Frames /\ Frame(run.seq, run.ev).id = run.seq
                BY <3>1, EventFrame
            <3>4. \A v \in View : Tells(v, stage, row.ended, odd)
                              => Tells(Play(v, Frame(run.seq, run.ev)), stage', row'.ended, odd')
                BY <2>1, <2>2, EventTold
            <3>5. QED BY <2>1, <3>1, <3>2, <3>3, <3>4, StreamGrows
        <2>3. CASE ~Fresh
            <3>1. UNCHANGED <<row, stage, wire>>
                BY <2>1, <2>3 DEF ApplyEvent
            <3>2. QED BY <2>1, <3>1, StreamStays
        <2>4. QED BY <2>2, <2>3
    <1>6. QED BY <1>1, <1>2, <1>3, <1>4, <1>5

\* What the followers do.
LEMMA FollowerFollowed ==
    ASSUME Typed, NEW c \in Follower, way[c] = "stream", Followed(c), NEW d \in Follower,
           Watch(d) \/ Receive(d) \/ Break(d) \/ WaitForTask(d) \/ AnswerWaiter(d)
    PROVE  Followed(c)'
    <1>1. UNCHANGED <<row, stage, odd>>
        BY DEF Watch, Receive, Break, WaitForTask, AnswerWaiter
    <1>2. CASE c # d
        <2>1. view'[c] = view[c] /\ wire'[c] = wire[c] /\ on'[c] = on[c]
            BY <1>2, Types DEF Watch, Receive, Break, WaitForTask, AnswerWaiter, Answer
        <2>2. Told(c)' = Told(c)
            BY <2>1 DEF Told
        <2>3. QED BY <1>1, <2>1, <2>2 DEF Followed
    <1>3. CASE c = d
        <2>1. CASE Watch(c)
            BY <2>1, StreamOpens
        <2>2. CASE Receive(c)
            BY <2>2, StreamIsRead
        <2>3. CASE Break(c)
            <3>1. wire'[c] = <<>> /\ ~on'[c] /\ UNCHANGED view
                BY <2>3, Types DEF Break
            <3>2. QED BY <1>1, <3>1, StreamStays
        <2>4. ~WaitForTask(c) /\ ~AnswerWaiter(c)
            BY DEF WaitForTask, AnswerWaiter
        <2>5. QED BY <1>3, <2>1, <2>2, <2>3, <2>4
    <1>4. QED BY <1>2, <1>3

LEMMA FeedInit == Init => FeedInv
    <1> SUFFICES ASSUME Init PROVE FeedInv
        OBVIOUS
    <1>1. Typed
        BY TypeInit
    <1>2. ASSUME NEW c \in Follower PROVE Followed(c)
        <2>1. view[c].last = -1 /\ row.seq = 0 /\ ~on[c] /\ wire[c] = <<>>
            BY DEF Init, NoView, NoId
        <2>2. 1..Len(wire[c]) = {}
            BY <2>1, EmptySeq
        <2>3. QED BY <2>1, <2>2 DEF Followed
    <1>3. QED BY <1>1, <1>2 DEF FeedInv

LEMMA FeedStep == FeedInv /\ [Next]_vars => FeedInv'
    <1> SUFFICES ASSUME FeedInv, [Next]_vars PROVE FeedInv'
        OBVIOUS
    <1>1. Typed /\ Typed'
        BY TypeStep DEF FeedInv
    <1>2. odd \subseteq odd' /\ way' = way
        BY <1>1, OddGrows
    <1>3. ASSUME "rewound" \notin odd', NEW c \in Follower, way'[c] = "stream" PROVE Followed(c)'
        <2>1. Followed(c) /\ way[c] = "stream"
            BY <1>2, <1>3 DEF FeedInv
        <2>2. CASE UNCHANGED vars
            <3>1. Told(c)' = Told(c)
                BY <2>2 DEF vars, Told
            <3>2. QED BY <2>1, <2>2, <3>1 DEF vars, Followed
        <2>3. ASSUME NEW d \in Follower,
                     Watch(d) \/ Receive(d) \/ Break(d) \/ WaitForTask(d) \/ AnswerWaiter(d)
              PROVE  Followed(c)'
            BY <1>1, <2>1, <2>3, FollowerFollowed
        <2>4. QED BY <1>1, <1>2, <1>3, <2>1, <2>2, <2>3, TaskFollowed DEF Next
    <1>4. QED BY <1>1, <1>3 DEF FeedInv

\* The frames and the followers of every reachable state are as FeedInv says.
THEOREM FeedInductive == Spec => []FeedInv
    BY FeedInit, FeedStep, PTL DEF Spec

\* A stream read to its end says what the rows say (StreamComplete), whatever its
\* follower missed before, unless the sequence was set back, a stage row was written
\* without its event, or, for the end of the task, a sweep ended it.
THEOREM StreamsTell == Spec => []StreamComplete
    <1>1. FeedInv => StreamComplete
        <2>1. SUFFICES ASSUME FeedInv, NEW c \in Streams, "rewound" \notin odd
                       PROVE  Told(c).last = row.seq /\ Tells(Told(c), stage, row.ended, odd)
            BY DEF StreamComplete, Tells
        <2>2. QED BY <2>1 DEF FeedInv, Streams, Followed
    <1>2. QED BY <1>1, FeedInductive, PTL

-----------------------------------------------------------------------------
(***************************************************************************)
(* The phase.  Within one run the rows that are written are not past the   *)
(* row of the event in hand, and none is of a later phase; that event      *)
(* therefore moves the current row to its own, or leaves it alone.         *)
(***************************************************************************)
LEMMA GreatestIndex ==
    ASSUME NEW S \in SUBSET Index, S # {}
    PROVE  \E n \in S : \A m \in S : m <= n
    <1> DEFINE T == {NStages + 1 - i : i \in S}
    <1>1. T \in SUBSET Nat /\ T # {}
        <2>1. \A i \in S : NStages + 1 - i \in Nat
            BY DEF Index
        <2>2. QED BY <2>1
    <1>2. PICK t \in T : \A u \in T : t <= u
        <2> HIDE DEF T
        <2>1. QED BY <1>1, LeastNumber
    <1>3. PICK n \in S : t = NStages + 1 - n
        OBVIOUS
    <1>4. ASSUME NEW m \in S PROVE m <= n
        <2>1. t <= NStages + 1 - m
            BY <1>2
        <2>2. QED BY <1>3, <2>1 DEF Index
    <1>5. QED BY <1>4

WrittenIn(rows) == {i \in Index : rows[i] # NoStage}
RunningIn(rows) == {i \in WrittenIn(rows) : rows[i].status = "running"}

CurrentIn(rows) ==
    IF RunningIn(rows) # {} THEN CHOOSE i \in RunningIn(rows) : \A j \in RunningIn(rows) : i <= j
    ELSE CHOOSE i \in WrittenIn(rows) : \A j \in WrittenIn(rows) : j <= i

LEMMA CurrentRow ==
    ASSUME NEW rows, WrittenIn(rows) # {}
    PROVE  /\ CurrentIn(rows) \in WrittenIn(rows)
           /\ RunningIn(rows) # {} => /\ CurrentIn(rows) \in RunningIn(rows)
                                     /\ \A j \in RunningIn(rows) : CurrentIn(rows) <= j
           /\ RunningIn(rows) = {} => \A j \in WrittenIn(rows) : j <= CurrentIn(rows)
    <1>1. WrittenIn(rows) \in SUBSET Index /\ RunningIn(rows) \subseteq WrittenIn(rows)
          /\ RunningIn(rows) \in SUBSET Nat
        BY Indices DEF WrittenIn, RunningIn
    <1>2. CASE RunningIn(rows) # {}
        <2>1. \E i \in RunningIn(rows) : \A j \in RunningIn(rows) : i <= j
            BY <1>1, <1>2, LeastNumber
        <2>2. CurrentIn(rows) = CHOOSE i \in RunningIn(rows) : \A j \in RunningIn(rows) : i <= j
            BY <1>2 DEF CurrentIn
        <2>3. QED BY <1>1, <1>2, <2>1, <2>2
    <1>3. CASE RunningIn(rows) = {}
        <2>1. \E i \in WrittenIn(rows) : \A j \in WrittenIn(rows) : j <= i
            BY <1>1, GreatestIndex
        <2>2. CurrentIn(rows) = CHOOSE i \in WrittenIn(rows) : \A j \in WrittenIn(rows) : j <= i
            BY <1>3 DEF CurrentIn
        <2>3. QED BY <1>3, <2>1, <2>2
    <1>4. QED BY <1>2, <1>3

RankOf(name) == Order[PhaseOf(name)]

LEMMA Ranks ==
    ASSUME NEW name \in Name
    PROVE  RankOf(name) \in 0..2
    BY DEF Name, RankOf, PhaseOf, Order

Behind(rows, e) == \A i \in WrittenIn(rows) : i <= e.index /\ RankOf(rows[i].name) <= RankOf(e.name)

LEMMA EventForward ==
    ASSUME NEW rows \in [Index -> Stage], NEW e \in Report, Behind(rows, e), NEW after,
           after = [rows EXCEPT ![e.index] = [name |-> e.name, status |-> e.status]]
    PROVE  /\ Behind(after, e)
           /\ WrittenIn(after) # {}
           /\ WrittenIn(rows) # {} =>
                 RankOf(rows[CurrentIn(rows)].name) <= RankOf(after[CurrentIn(after)].name)
           /\ RankOf(after[CurrentIn(after)].name) \in 0..2
    <1> DEFINE i == e.index
    <1>1. /\ i \in Index /\ e.name \in Name /\ e.status \in Status
          /\ RankOf(e.name) \in 0..2
        BY Ranks DEF Report
    <1>2. /\ after \in [Index -> Stage]
          /\ after[i] # NoStage /\ after[i].name = e.name /\ after[i].status = e.status
          /\ \A j \in Index : j # i => after[j] = rows[j]
        BY <1>1 DEF Stage, NoStage, Name
    <1>3. WrittenIn(after) = WrittenIn(rows) \cup {i}
        BY <1>1, <1>2 DEF WrittenIn
    <1>4. Behind(after, e)
        <2>1. SUFFICES ASSUME NEW j \in WrittenIn(after)
                       PROVE  j <= i /\ RankOf(after[j].name) <= RankOf(e.name)
            BY DEF Behind
        <2>2. CASE j = i
            <3>1. j \in Nat /\ after[j].name = e.name
                BY <1>1, <1>2, <2>2, Indices
            <3>2. RankOf(after[j].name) = RankOf(e.name)
                BY <3>1
            <3>3. j <= i
                BY <2>2, <3>1
            <3>4. RankOf(e.name) <= RankOf(e.name)
                BY <1>1
            <3>5. QED BY <3>2, <3>3, <3>4
        <2>3. CASE j # i
            BY <1>2, <1>3, <2>3 DEF Behind, WrittenIn
        <2>4. QED BY <2>2, <2>3
    <1>5. ASSUME NEW j \in Index, after[j] # NoStage PROVE RankOf(after[j].name) \in 0..2
        BY <1>2, <1>5, Ranks DEF Stage
    <1>6. RankOf(after[CurrentIn(after)].name) \in 0..2
        BY <1>3, <1>5, CurrentRow DEF WrittenIn
    <1>7. ASSUME WrittenIn(rows) # {}
          PROVE  RankOf(rows[CurrentIn(rows)].name) <= RankOf(after[CurrentIn(after)].name)
        <2> DEFINE c == CurrentIn(rows)
                   d == CurrentIn(after)
        <2>1. c \in WrittenIn(rows) /\ c \in Nat /\ c <= i /\ i \in Nat
              /\ RankOf(rows[c].name) <= RankOf(e.name)
            BY <1>1, <1>7, CurrentRow, Indices DEF Behind, WrittenIn
        <2>2. d \in WrittenIn(after) /\ d \in Nat /\ d <= i
            BY <1>3, <1>4, CurrentRow, Indices DEF Behind, WrittenIn
        <2>3. CASE RunningIn(rows) # {} /\ c # i
            <3>1. c \in RunningIn(rows) /\ \A j \in RunningIn(rows) : c <= j
                BY <1>7, <2>3, CurrentRow
            <3>2. c \in RunningIn(after) /\ c < i /\ after[c] = rows[c]
                BY <1>2, <1>3, <2>1, <2>3, <3>1 DEF RunningIn, WrittenIn
            <3>3. d \in RunningIn(after) /\ d <= c
                BY <1>3, <3>2, CurrentRow
            <3>4. d # i
                BY <2>1, <2>2, <3>2, <3>3
            <3>5. d \in RunningIn(rows)
                BY <1>2, <1>3, <3>3, <3>4 DEF RunningIn, WrittenIn
            <3>6. c = d
                BY <2>1, <2>2, <3>1, <3>3, <3>5
            <3>7. RankOf(rows[c].name) \in 0..2
                BY <1>6, <3>2, <3>6
            <3>8. QED BY <3>2, <3>6, <3>7
        <2>4. CASE RunningIn(rows) = {} \/ c = i
            <3>1. RunningIn(after) \subseteq {i}
                <4>1. ASSUME NEW j \in RunningIn(after), j # i PROVE FALSE
                    <5>1. j \in RunningIn(rows) /\ j <= i /\ j \in Nat
                        BY <1>2, <1>3, <4>1, Indices DEF RunningIn, WrittenIn, Behind
                    <5>2. c <= j
                        BY <1>7, <5>1, CurrentRow
                    <5>3. QED BY <2>1, <2>4, <4>1, <5>1, <5>2
                <4>2. QED BY <4>1
            <3>2. d = i
                <4>1. CASE RunningIn(after) # {}
                    BY <1>3, <3>1, <4>1, CurrentRow
                <4>2. CASE RunningIn(after) = {}
                    <5>1. i <= d
                        BY <1>3, <4>2, CurrentRow
                    <5>2. QED BY <2>1, <2>2, <5>1
                <4>3. QED BY <4>1, <4>2
            <3>3. after[d].name = e.name
                BY <1>2, <3>2
            <3>4. QED BY <2>1, <3>3
        <2>5. QED BY <2>3, <2>4
    <1>8. QED BY <1>3, <1>4, <1>6, <1>7

LEMMA FollowForward ==
    ASSUME NEW e \in Event, NEW f \in Follow(e)
    PROVE  /\ f # Accepted
           /\ f.kind = "stage" /\ e.kind = "stage" =>
                e.index <= f.index /\ RankOf(e.name) <= RankOf(f.name)
    <1>1. f # Accepted
        BY DEF Event, Accepted, Terminus, Report, Follow, AfterReport, AfterStage, AfterRollback, Proceed, Reports,
               Ends, Name, Status
    <1>2. ASSUME f.kind = "stage", e.kind = "stage"
          PROVE  e.index <= f.index /\ RankOf(e.name) <= RankOf(f.name)
        <2>1. /\ e.name \in Name /\ e.status \in Status /\ e.index \in IndexOf(e.name) /\ e.index \in Nat
              /\ f \in AfterReport(e)
            BY <1>2, Indices DEF Event, Accepted, Terminus, Report, Follow
        <2>2. /\ RankOf("snapshot_before") = 0 /\ RankOf("stage") = 1
              /\ RankOf("rollback") = 2 /\ RankOf("snapshot_after") = 2
            BY DEF RankOf, PhaseOf, Order
        <2>3. \A i \in Nat : \A g \in Proceed(i) :
                 g.kind = "stage" => g.index = i + 1 /\ g.name \in {"stage", "rollback", "snapshot_after"}
            BY DEF Proceed, Reports, Ends
        <2>4. CASE e.name = "snapshot_before"
            <3>1. e.index = 0 /\ f \in Proceed(0)
                BY <2>1, <2>4 DEF AfterReport, IndexOf
            <3>2. f.index = 0 + 1 /\ f.name \in {"stage", "rollback", "snapshot_after"}
                BY <1>2, <2>3, <3>1
            <3>3. QED BY <2>2, <2>4, <3>1, <3>2
        <2>5. CASE e.name = "stage"
            <3>1. f \in AfterStage(e)
                BY <2>1, <2>5 DEF AfterReport
            <3>2. f.index \in {e.index, e.index + 1} /\ f.name \in {"stage", "rollback", "snapshot_after"}
                <4>1. CASE e.status = "success"
                    <5>1. f \in Proceed(e.index)
                        BY <3>1, <4>1 DEF AfterStage
                    <5>2. QED BY <1>2, <2>1, <2>3, <5>1
                <4>2. CASE e.status # "success"
                    BY <2>1, <3>1, <4>2 DEF AfterStage, Reports, Status
                <4>3. QED BY <4>1, <4>2
            <3>3. QED BY <2>1, <2>2, <2>5, <3>2
        <2>6. CASE e.name = "snapshot_after"
            BY <1>2, <2>1, <2>6 DEF AfterReport, Ends
        <2>7. CASE e.name = "rollback"
            <3>1. f.index = e.index /\ f.name = "rollback"
                BY <1>2, <2>1, <2>7 DEF AfterReport, AfterRollback, Reports, Ends, Status
            <3>2. QED BY <2>1, <2>2, <2>7, <3>1
        <2>8. QED BY <2>1, <2>4, <2>5, <2>6, <2>7 DEF Name
    <1>3. QED BY <1>1, <1>2

PhaseInv ==
    /\ Typed
    /\ "reran" \notin odd =>
          /\ run.seq = 0 => run.ev = Accepted
          /\ run.ev = Accepted => WrittenIn(stage) = {}
          /\ run.ev.kind = "stage" => Behind(stage, run.ev)

\* What a step does to the rows of the stages, and that an ended task stays ended.
LEMMA StageSteps ==
    ASSUME Typed, [Next]_vars
    PROVE  /\ stage' = stage \/ (run.ev.kind = "stage" /\ stage' = Upsert(run.ev))
           /\ row.ended => row'.ended
    <1>1. row.ended \in BOOLEAN
        BY Types
    <1>2. CASE UNCHANGED vars
        BY <1>2 DEF vars
    <1>3. CASE Deliver \/ DeliverUnanswered
        <2>1. ApplyEvent
            BY <1>3 DEF Deliver, DeliverUnanswered
        <2>2. stage' = stage \/ (run.ev.kind = "stage" /\ stage' = Upsert(run.ev))
            BY <2>1 DEF ApplyEvent
        <2>3. row' = row \/ row'.ended = (row.ended \/ StateAfter(run.ev) \in Terminal)
            BY <2>1 DEF ApplyEvent, Transition
        <2>4. QED BY <1>1, <2>2, <2>3
    <1>4. CASE BeginAnswered \/ FailBeforeChange \/ CancelQueued \/ SweepExpired
        <2>1. stage' = stage /\ \E state, seq : Transition(state, seq)
            BY <1>4 DEF BeginAnswered, FailBeforeChange, CancelQueued, SweepExpired
        <2>2. \E state : row'.ended = (row.ended \/ state \in Terminal)
            BY <2>1 DEF Transition
        <2>3. QED BY <1>1, <2>1, <2>2
    <1>5. CASE Dispatch \/ Begin \/ GiveUp \/ ApiCrash \/ ApiCrashInEvent \/ ApiRestart \/ AgentCrash
        BY <1>5 DEF Dispatch, Begin, GiveUp, ApiCrash, ApiCrashInEvent, ApiRestart, AgentCrash
    <1>6. CASE \E c \in Follower : Watch(c) \/ Receive(c) \/ Break(c) \/ WaitForTask(c) \/ AnswerWaiter(c)
        BY <1>6 DEF Watch, Receive, Break, WaitForTask, AnswerWaiter
    <1>7. QED BY <1>2, <1>3, <1>4, <1>5, <1>6 DEF Next

LEMMA Advances ==
    ASSUME Typed, Advance
    PROVE  \/ run'.seq = run.seq /\ run'.ev = run.ev
           \/ \E e \in Follow(run.ev) : run'.ev = e /\ run'.seq = run.seq + 1
    <1>1. run \in [on : BOOLEAN, seq : Nat, ev : Event]
        BY Types
    <1>2. QED BY <1>1 DEF Advance

\* What a step does to the run.
LEMMA RunSteps ==
    ASSUME Typed, [Next]_vars
    PROVE  \/ run'.seq = run.seq /\ run'.ev = run.ev
           \/ \E e \in Follow(run.ev) : run'.ev = e /\ run'.seq = run.seq + 1
           \/ /\ run'.ev = Accepted /\ run'.seq = 1 /\ UNCHANGED stage
              /\ run.seq = 0 \/ "reran" \in odd'
    <1>1. run \in [on : BOOLEAN, seq : Nat, ev : Event]
        BY Types
    <1>2. CASE UNCHANGED vars
        BY <1>2 DEF vars
    <1>3. CASE Deliver \/ GiveUp
        <2>1. Advance
            BY <1>3 DEF Deliver, GiveUp
        <2>2. QED BY <2>1, Advances
    <1>4. CASE Begin
        <2>1. UNCHANGED stage
            BY <1>4 DEF Begin
        <2>2. CASE run.on
            BY <1>4, <2>2 DEF Begin
        <2>3. CASE ~run.on
            BY <1>1, <1>4, <2>1, <2>3 DEF Begin
        <2>4. QED BY <2>2, <2>3
    <1>5. CASE AgentCrash
        BY <1>1, <1>5 DEF AgentCrash
    <1>6. CASE \/ BeginAnswered \/ FailBeforeChange \/ CancelQueued \/ SweepExpired \/ Dispatch
               \/ DeliverUnanswered \/ ApiCrash \/ ApiCrashInEvent \/ ApiRestart
        BY <1>6 DEF BeginAnswered, FailBeforeChange, CancelQueued, SweepExpired, Dispatch, DeliverUnanswered, ApiCrash,
                    ApiCrashInEvent, ApiRestart
    <1>7. CASE \E c \in Follower : Watch(c) \/ Receive(c) \/ Break(c) \/ WaitForTask(c) \/ AnswerWaiter(c)
        BY <1>7 DEF Watch, Receive, Break, WaitForTask, AnswerWaiter
    <1>8. QED BY <1>2, <1>3, <1>4, <1>5, <1>6, <1>7 DEF Next

LEMMA PhaseInit == Init => PhaseInv
    <1> SUFFICES ASSUME Init PROVE PhaseInv
        OBVIOUS
    <1>1. Typed
        BY TypeInit
    <1>2. run.ev = Accepted /\ WrittenIn(stage) = {}
        BY DEF Init, NoRun, WrittenIn
    <1>3. run.ev.kind # "stage"
        BY <1>2 DEF Accepted
    <1>4. QED BY <1>1, <1>2, <1>3 DEF PhaseInv

LEMMA PhaseStep == PhaseInv /\ [Next]_vars => PhaseInv'
    <1> SUFFICES ASSUME PhaseInv, [Next]_vars PROVE PhaseInv'
        OBVIOUS
    <1>1. Typed /\ Typed'
        BY TypeStep DEF PhaseInv
    <1>2. SUFFICES ASSUME "reran" \notin odd'
                   PROVE  /\ run'.seq = 0 => run'.ev = Accepted
                          /\ run'.ev = Accepted => WrittenIn(stage') = {}
                          /\ run'.ev.kind = "stage" => Behind(stage', run'.ev)
        BY <1>1 DEF PhaseInv, WrittenIn, Behind
    <1>3. /\ run.seq = 0 => run.ev = Accepted
          /\ run.ev = Accepted => WrittenIn(stage) = {}
          /\ run.ev.kind = "stage" => Behind(stage, run.ev)
        BY <1>1, <1>2, OddGrows DEF PhaseInv
    <1>4. run.ev \in Event /\ run.seq \in Nat /\ stage \in [Index -> Stage]
        BY <1>1, Types
    <1>5. /\ run.ev = Accepted => stage' = stage
          /\ run.ev.kind = "stage" => Behind(stage', run.ev)
        <2>1. CASE stage' = stage
            BY <1>3, <2>1
        <2>2. CASE run.ev.kind = "stage" /\ stage' = Upsert(run.ev)
            <3>1. run.ev \in Report
                BY <1>1, <1>4, <2>2, UpsertType
            <3>2. Behind(stage', run.ev)
                BY <1>3, <1>4, <2>2, <3>1, EventForward DEF Upsert
            <3>3. QED BY <2>2, <3>2 DEF Accepted
        <2>3. QED BY <1>1, <2>1, <2>2, StageSteps
    <1>6. CASE run'.seq = run.seq /\ run'.ev = run.ev
        BY <1>3, <1>5, <1>6
    <1>7. ASSUME NEW e \in Follow(run.ev), run'.ev = e, run'.seq = run.seq + 1
          PROVE  /\ run'.seq # 0 /\ run'.ev # Accepted
                 /\ run'.ev.kind = "stage" => Behind(stage', run'.ev)
        <2>1. run'.seq # 0 /\ run'.ev # Accepted
            BY <1>4, <1>7, FollowForward
        <2>2. ASSUME e.kind = "stage" PROVE Behind(stage', e)
            <3>1. e \in Report
                BY <1>4, <2>2, FollowType DEF Event, Accepted, Terminus
            <3>2. CASE run.ev.kind = "stage"
                <4>1. run.ev \in Report
                    BY <1>1, <1>4, <3>2, UpsertType
                <4>2. run.ev.index <= e.index /\ RankOf(run.ev.name) <= RankOf(e.name)
                    BY <1>4, <2>2, <3>2, FollowForward
                <4>3. SUFFICES ASSUME NEW i \in WrittenIn(stage')
                               PROVE  i <= e.index /\ RankOf(stage'[i].name) <= RankOf(e.name)
                    BY DEF Behind
                <4>4. i <= run.ev.index /\ RankOf(stage'[i].name) <= RankOf(run.ev.name)
                    BY <1>5, <3>2 DEF Behind
                <4>5. i \in Nat /\ e.index \in Nat /\ run.ev.index \in Nat
                    BY <3>1, <4>1, Indices DEF WrittenIn, Report
                <4>6. stage'[i].name \in Name
                    <5>1. stage' \in [Index -> Stage]
                        BY <1>1 DEF Typed, TypeOK
                    <5>2. QED BY <5>1 DEF WrittenIn, Stage
                <4>7. /\ RankOf(stage'[i].name) \in 0..2 /\ RankOf(run.ev.name) \in 0..2
                      /\ RankOf(e.name) \in 0..2
                    BY <3>1, <4>1, <4>6, Ranks DEF Report
                <4>8. QED BY <4>2, <4>4, <4>5, <4>7
            <3>3. CASE run.ev = Accepted
                <4>1. WrittenIn(stage') = {}
                    BY <1>3, <1>5, <3>3
                <4>2. QED BY <4>1 DEF Behind
            <3>4. CASE run.ev \in Terminus
                BY <1>7, <3>4 DEF Terminus, Follow
            <3>5. QED BY <1>4, <3>2, <3>3, <3>4 DEF Event, Report
        <2>3. QED BY <1>7, <2>1, <2>2
    <1>8. CASE run'.ev = Accepted /\ run'.seq = 1 /\ UNCHANGED stage /\ run.seq = 0
        BY <1>3, <1>8 DEF Accepted
    <1>9. QED BY <1>1, <1>2, <1>6, <1>7, <1>8, RunSteps

\* The rows and the run of every reachable state are as PhaseInv says.
THEOREM PhaseInductive == Spec => []PhaseInv
    BY PhaseInit, PhaseStep, PTL DEF Spec

-----------------------------------------------------------------------------
PhaseIn(rows, ended) ==
    CASE ended                                  -> "done"
      [] ~ended /\ WrittenIn(rows) = {}         -> "preparing"
      [] ~ended /\ WrittenIn(rows) # {}         -> PhaseOf(rows[CurrentIn(rows)].name)

LEMMA PhaseRank ==
    ASSUME NEW rows \in [Index -> Stage]
    PROVE  /\ Order[PhaseIn(rows, TRUE)] = 3
           /\ WrittenIn(rows) = {} => Order[PhaseIn(rows, FALSE)] = 0
           /\ WrittenIn(rows) # {} => /\ Order[PhaseIn(rows, FALSE)] = RankOf(rows[CurrentIn(rows)].name)
                                     /\ Order[PhaseIn(rows, FALSE)] \in 0..2
    <1>1. Order[PhaseIn(rows, TRUE)] = 3
        BY DEF PhaseIn, Order
    <1>2. ASSUME WrittenIn(rows) = {} PROVE Order[PhaseIn(rows, FALSE)] = 0
        BY <1>2 DEF PhaseIn, Order
    <1>3. ASSUME WrittenIn(rows) # {}
          PROVE  /\ Order[PhaseIn(rows, FALSE)] = RankOf(rows[CurrentIn(rows)].name)
                 /\ Order[PhaseIn(rows, FALSE)] \in 0..2
        <2>1. PhaseIn(rows, FALSE) = PhaseOf(rows[CurrentIn(rows)].name)
            BY <1>3 DEF PhaseIn
        <2>2. rows[CurrentIn(rows)].name \in Name
            BY <1>3, CurrentRow DEF WrittenIn, Stage
        <2>3. QED BY <2>1, <2>2, Ranks DEF RankOf
    <1>4. QED BY <1>1, <1>2, <1>3

\* The phase of the rollup never goes back (PhaseForward), whichever events are lost,
\* answered late or posted again, unless the agent runs the task a second time.
THEOREM PhaseNeverBack == Spec => PhaseForward
    <1>1. PhaseInv /\ [Next]_vars => [Order[Phase] <= Order[Phase'] \/ "reran" \in odd']_vars
        <2>1. SUFFICES ASSUME PhaseInv, [Next]_vars, "reran" \notin odd'
                       PROVE  Order[Phase] <= Order[Phase']
            OBVIOUS
        <2>2. Typed /\ Typed'
            BY <2>1, TypeStep DEF PhaseInv
        <2>3. /\ row.ended \in BOOLEAN /\ row'.ended \in BOOLEAN /\ run.ev \in Event
              /\ stage \in [Index -> Stage] /\ stage' \in [Index -> Stage]
            BY <2>2, Types DEF Typed, TypeOK
        <2>4. Phase = PhaseIn(stage, row.ended) /\ Phase' = PhaseIn(stage', row'.ended)
            <3>1. Written = WrittenIn(stage) /\ Running = RunningIn(stage) /\ Current = CurrentIn(stage)
                BY DEF Written, Running, Current, WrittenIn, RunningIn, CurrentIn
            <3>2. Written' = WrittenIn(stage') /\ Running' = RunningIn(stage') /\ Current' = CurrentIn(stage')
                BY DEF Written, Running, Current, WrittenIn, RunningIn, CurrentIn
            <3>3. Phase = PhaseIn(stage, row.ended)
                BY <3>1 DEF Phase, PhaseIn
            <3>4. Phase' = PhaseIn(stage', row'.ended)
                BY <3>2 DEF Phase, PhaseIn
            <3>5. QED BY <3>3, <3>4
        <2>a. Order[Phase] \in 0..3
            <3>1. CASE row.ended
                <4>1. Order[Phase] = 3
                    BY <2>3, <2>4, <3>1, PhaseRank
                <4>2. QED BY <4>1
            <3>2. CASE row.ended = FALSE
                <4>1. Phase = PhaseIn(stage, FALSE)
                    BY <2>4, <3>2
                <4>2. CASE WrittenIn(stage) = {}
                    <5>1. Order[Phase] = 0
                        BY <2>3, <4>1, <4>2, PhaseRank
                    <5>2. QED BY <5>1
                <4>3. CASE WrittenIn(stage) # {}
                    <5>1. Order[Phase] \in 0..2
                        BY <2>3, <4>1, <4>3, PhaseRank
                    <5>2. QED BY <5>1
                <4>4. QED BY <4>2, <4>3
            <3>3. QED BY <2>3, <3>1, <3>2
        <2>5. CASE row'.ended
            <3>1. Order[Phase'] = 3
                BY <2>3, <2>4, <2>5, PhaseRank
            <3>2. QED BY <2>a, <3>1
        <2>6. CASE ~row'.ended
            <3>1. row.ended = FALSE /\ row'.ended = FALSE
                BY <2>2, <2>1, <2>3, <2>6, StageSteps
            <3>2. CASE stage' = stage
                <4>1. Phase' = Phase
                    BY <2>4, <3>1, <3>2
                <4>2. QED BY <2>a, <4>1
            <3>3. CASE run.ev.kind = "stage" /\ stage' = Upsert(run.ev)
                <4>1. run.ev \in Report
                    BY <2>2, <2>3, <3>3, UpsertType
                <4>2. Behind(stage, run.ev)
                    BY <2>1, <2>2, <3>3, OddGrows DEF PhaseInv
                <4>3. /\ WrittenIn(stage') # {}
                      /\ WrittenIn(stage) # {} =>
                            RankOf(stage[CurrentIn(stage)].name) <= RankOf(stage'[CurrentIn(stage')].name)
                      /\ RankOf(stage'[CurrentIn(stage')].name) \in 0..2
                    BY <2>3, <3>3, <4>1, <4>2, EventForward DEF Upsert
                <4>4. Order[Phase'] = RankOf(stage'[CurrentIn(stage')].name)
                    BY <2>3, <2>4, <3>1, <4>3, PhaseRank
                <4>5. Order[Phase] = IF WrittenIn(stage) = {} THEN 0 ELSE RankOf(stage[CurrentIn(stage)].name)
                    BY <2>3, <2>4, <3>1, PhaseRank
                <4>6. QED BY <4>3, <4>4, <4>5
            <3>4. QED BY <2>1, <2>2, <3>2, <3>3, StageSteps
        <2>7. QED BY <2>3, <2>5, <2>6
    <1>2. QED BY <1>1, PhaseInductive, PTL DEF Spec, PhaseForward
=============================================================================
