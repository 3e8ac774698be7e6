-------------------------- MODULE EventStream_proofs --------------------------
(***************************************************************************)
(* Theorems about EventStream, for any users, workers, runs and bounds:      *)
(*   StreamTyped       Spec => []EventStreamTypeOK                           *)
(*   OrderIsKept       Spec => CommittedInOrder                              *)
(*   StreamSkipsNone   Spec => []NothingPassedOver                           *)
(*   ViewIsTrue        Spec => []ViewAgrees                                  *)
(*   RequestsAreShown  Spec => []RequestsShown                               *)
(* The order rests on LockInv, who holds the two locks, and NumberInv, what    *)
(* is committed is below what is flushed, which is below what is numbered.     *)
(* The stream rests on these, on StartInv, that a start is alone and its        *)
(* events hidden, and on StreamInv, that the cursor and what is read are        *)
(* below everything still to be committed.                                    *)
(* The agreement of page and truth rests on all of them and on AgreeInv.  It    *)
(* speaks of the last event of each kind only, so that no replay of the log has  *)
(* to be reasoned about: in the committed and settled events the last ones tell   *)
(* the truth (Tells), and the page is right about everything whose events it was  *)
(* shown to the last (Right).  What a command is about to commit tells what it     *)
(* writes (Carries), which is checked of each command once.                      *)
(***************************************************************************)
EXTENDS EventStream, SequenceTheorems, FiniteSetTheorems, WellFoundedInduction, TLAPS

Places == {"idle", "open", "starting", "settled", "publishing"}
Requests == {"none", "pending", "answered"}
Faces == {"none", "open", "disabled", "answered"}
Mishaps == {"lost", "crossed", "overlaid", "leaked"}

RunEvents == [type : {"created", "status", "terminal", "stage"}, run : Runs,
              status : Statuses, index : Nat]
RequestEvents == [type : {"ask", "answer"}, run : Runs, status : Faces, index : Nat]
Events == RunEvents \union RequestEvents

Truth == [status : [Runs -> Statuses], before : [Runs -> Statuses],
          request : [Runs -> Requests], current : Runs \union {NoRun}]
Transaction == [at : Places, todo : Seq(Events), rows : SUBSET Events, next : Seq(Truth),
                from : Seq(Truth), run : Runs \union {NoRun}]
View == [runs : [Runs -> Statuses], current : Runs \union {NoRun}, status : Statuses,
         feed : [Runs -> Faces]]
Reply == [view : View, seen : SUBSET Nat]

\* A transaction that has still to commit its control and runtime rows has them.
HasNext(w) == writer[w].at \in {"open", "starting", "publishing"} => writer[w].next # <<>>

\* The stream is open only to a page that is there.
OpenTo == stream.open => page.view # <<>>

EventStreamTypeOK ==
  /\ truth \in Truth /\ hidden \subseteq Runs
  /\ log \subseteq Events /\ IsFiniteSet(log) /\ highWater \in Nat
  /\ numberLock \in Writers \union {Nobody} /\ writeLock \in Writers \union {Nobody}
  /\ writer \in [Writers -> Transaction]
  /\ \A w \in Writers : IsFiniteSet(writer[w].rows) /\ HasNext(w)
  /\ stream \in [open : BOOLEAN, cursor : Nat, hidden : SUBSET Runs, batch : SUBSET Events,
                 reading : BOOLEAN]
  /\ page \in [view : View \union {<<>>}, seen : SUBSET Nat, skipped : SUBSET Nat,
               reply : Seq(Reply)]
  /\ IsFiniteSet(page.seen) /\ OpenTo
  /\ left \in Nat /\ astray \subseteq Mishaps

-----------------------------------------------------------------------------
(* The highest of finitely many numbers                                     *)

\* A finite set has an element at which f is greatest: of the sets of the elements
\* above an element, one has no other inside it.
LEMMA GreatestExists ==
  ASSUME NEW S, IsFiniteSet(S), S # {}, NEW f \in [S -> Nat]
  PROVE  \E m \in S : \A i \in S : f[i] <= f[m]
<1> DEFINE Above(i) == {j \in S : f[i] < f[j]}
           T == {Above(i) : i \in S}
           R == StrictSubsetOrdering(S)
<1>1. T \subseteq FiniteSubsetsOf(S) /\ T # {}
  <2>1. T \subseteq SUBSET S
    OBVIOUS
  <2> T # {}
    <3>1. PICK i \in S : TRUE
      OBVIOUS
    <3>2. Above(i) \in T
      OBVIOUS
    <3>3. QED
      BY <3>2
  <2>2. FiniteSubsetsOf(S) = SUBSET S
    BY FS_FiniteSubsetsOfFinite
  <2>3. QED
    BY <2>1, <2>2
<1>2. PICK t \in T : \A u \in T : <<u, t>> \notin R
  <2> HIDE DEF T, R
  <2> QED BY <1>1, WFMin, FS_StrictSubsetOrderingWellFounded DEF R
<1>3. PICK m \in S : t = Above(m)
  OBVIOUS
<1>4. ASSUME NEW i \in S, ~(f[i] <= f[m])
      PROVE  FALSE
  <2>1. Above(i) \subseteq Above(m) /\ Above(i) # Above(m)
    <3>1. i \in Above(m) /\ i \notin Above(i)
      BY <1>4
    <3>2. \A j \in Above(i) : j \in Above(m)
      BY <1>4
    <3>3. QED
      BY <3>1, <3>2
  <2>2. <<Above(i), Above(m)>> \in R
    BY <2>1 DEF StrictSubsetOrdering
  <2>3. QED
    BY <1>2, <1>3, <2>2
<1>5. QED
  BY <1>4

LEMMA LastExists ==
  ASSUME NEW S \in SUBSET Events, IsFiniteSet(S), S # {}
  PROVE  \E m \in S : \A e \in S : e.index <= m.index
<1> DEFINE f == [e \in S |-> e.index]
<1>1. f \in [S -> Nat]
  BY DEF Events, RunEvents, RequestEvents
<1>2. PICK m \in S : \A e \in S : f[e] <= f[m]
  <2> HIDE DEF f
  <2> QED BY <1>1, GreatestExists
<1>3. QED
  BY <1>2

LEMMA IndicesAre ==
  ASSUME NEW S \in SUBSET Events, IsFiniteSet(S)
  PROVE  Indices(S) \subseteq Nat /\ IsFiniteSet(Indices(S))
<1>1. Indices(S) \subseteq Nat
  BY DEF Indices, Events, RunEvents, RequestEvents
<1>2. CASE S = {}
  BY <1>2, FS_EmptySet DEF Indices
<1>3. CASE S # {}
  <2>1. PICK m \in S : \A e \in S : e.index <= m.index
    BY <1>3, LastExists
  <2>2. m.index \in Nat /\ \A i \in Indices(S) : i <= m.index
    BY <1>1, <2>1 DEF Indices
  <2>3. QED
    BY <1>1, <2>2, FS_BoundedSetOfNaturals
<1>4. QED
  BY <1>1, <1>2, <1>3

LEMMA HighestIs ==
  ASSUME NEW S \in SUBSET Nat, IsFiniteSet(S)
  PROVE  /\ Highest(S) \in Nat
         /\ \A i \in S : i <= Highest(S)
         /\ S # {} => Highest(S) \in S
<1>1. CASE S = {}
  BY <1>1 DEF Highest
<1>2. CASE S # {}
  <2> DEFINE f == [i \in S |-> i]
  <2>1. f \in [S -> Nat]
    OBVIOUS
  <2>2. PICK m \in S : \A i \in S : f[i] <= f[m]
    <3> HIDE DEF f
    <3> QED BY <1>2, <2>1, GreatestExists
  <2>3. \A i \in S : m >= i
    BY <2>2
  <2>4. Max(S) \in S /\ \A i \in S : Max(S) >= i
    BY <2>3, Zenon DEF Max
  <2>5. QED
    BY <1>2, <2>4 DEF Highest
<1>3. QED
  BY <1>1, <1>2

-----------------------------------------------------------------------------
(* The commands                                                             *)

Unnumbered0(events) ==
  /\ events \in Seq(Events)
  /\ \A i \in DOMAIN events : events[i].index = 0

\* A command numbers nothing yet, and leaves the session with a current run.
Prepared(c) ==
  /\ Unnumbered0(c.events)
  /\ c.next \in Truth /\ c.next.current # NoRun /\ c.run \in Runs

LEMMA CommandIs ==
  ASSUME NEW events, NEW next, NEW run,
         Unnumbered0(events), next \in Truth, next.current # NoRun, run \in Runs
  PROVE  /\ Prepared(Command(events, next, run)) /\ Command(events, next, run).run = run
         /\ Command(events, next, run).events = events
  BY DEF Command, Prepared

LEMMA EventIs ==
  ASSUME NEW r \in Runs
  PROVE  /\ \A type \in {"created", "status", "terminal", "stage"}, s \in Statuses :
              Event(type, r, s) \in Events
         /\ \A type \in {"ask", "answer"}, s \in Faces : Event(type, r, s) \in Events
         /\ \A type, s : Event(type, r, s).index = 0 /\ Event(type, r, s).run = r
  BY DEF Event, Events, RunEvents, RequestEvents

LEMMA OneEvent ==
  ASSUME NEW e \in Events, e.index = 0
  PROVE  Unnumbered0(<<e>>)
  BY DEF Unnumbered0

LEMMA MoreEvents ==
  ASSUME NEW s, NEW t, Unnumbered0(s), Unnumbered0(t)
  PROVE  Unnumbered0(s \o t)
<1>1. s \o t \in Seq(Events) /\ Len(s \o t) = Len(s) + Len(t)
  BY ConcatProperties DEF Unnumbered0
<1>2. ASSUME NEW i \in 1 .. Len(s) + Len(t)
      PROVE  (s \o t)[i].index = 0
  <2>1. (s \o t)[i] = IF i <= Len(s) THEN s[i] ELSE t[i - Len(s)]
    BY ConcatProperties DEF Unnumbered0
  <2>2. CASE i <= Len(s)
    BY <2>1, <2>2 DEF Unnumbered0
  <2>3. CASE ~(i <= Len(s))
    <3>1. i - Len(s) \in 1 .. Len(t)
      BY <2>3 DEF Unnumbered0
    <3>2. QED
      BY <2>1, <2>3, <3>1 DEF Unnumbered0
  <2>4. QED
    BY <2>2, <2>3
<1>3. QED
  BY <1>1, <1>2 DEF Unnumbered0

LEMMA MovedIs ==
  ASSUME EventStreamTypeOK, NEW r \in Runs, NEW s \in Statuses
  PROVE  Moved(r, s) \in Truth /\ Moved(r, s).current = truth.current
  BY DEF Moved, Truth, EventStreamTypeOK

LEMMA RefreshedIs ==
  ASSUME EventStreamTypeOK, NEW r \in Runs, NEW face \in Faces
  PROVE  Unnumbered0(Refreshed(r, face))
<1>1. Unnumbered0(<<>>)
  BY DEF Unnumbered0
<1>2. Unnumbered0(<<Event("ask", r, face)>>)
  BY EventIs, OneEvent
<1>3. QED
  BY <1>1, <1>2 DEF Refreshed

\* A start opens the session's first run, alone; every other command is of the
\* current run.
LEMMA StartIs ==
  ASSUME EventStreamTypeOK, NEW c \in StartFirstRun
  PROVE  /\ Prepared(c) /\ c.run \in Fresh
         /\ truth.current = NoRun /\ hidden = {}
         /\ \A i \in DOMAIN c.events : c.events[i].run = c.run
<1>1. truth.current = NoRun /\ hidden = {}
  BY DEF StartFirstRun
<1>2. PICK r \in Fresh :
        c = Command(<<Event("created", r, "running")>>,
                    [Moved(r, "running") EXCEPT !.current = r], r)
  BY <1>1 DEF StartFirstRun
<1> r \in Runs /\ r # NoRun
  BY EventStreamAssumption DEF Fresh
<1>3. Unnumbered0(<<Event("created", r, "running")>>)
  BY EventIs, OneEvent DEF Statuses
<1>4. Moved(r, "running") \in Truth
  BY MovedIs DEF Statuses
<1>5. [Moved(r, "running") EXCEPT !.current = r] \in Truth
      /\ [Moved(r, "running") EXCEPT !.current = r].current = r
  BY <1>4 DEF Truth
<1>6. Event("created", r, "running").run = r
  BY EventIs
<1>7. /\ Prepared(c) /\ c.run = r /\ c.events = <<Event("created", r, "running")>>
  <2> DEFINE events == <<Event("created", r, "running")>>
             next == [Moved(r, "running") EXCEPT !.current = r]
  <2>1. /\ c = Command(events, next, r) /\ Unnumbered0(events)
        /\ next \in Truth /\ next.current # NoRun
    BY <1>2, <1>3, <1>5
  <2> HIDE DEF events, next
  <2>2. Prepared(c) /\ c.run = r /\ c.events = events
    BY <2>1, CommandIs
  <2>3. QED
    BY <2>2 DEF events
<1>8. \A i \in DOMAIN <<Event("created", r, "running")>> :
        <<Event("created", r, "running")>>[i].run = r
  <2> DEFINE e == Event("created", r, "running")
  <2>1. e.run = r
    BY <1>6
  <2> HIDE DEF e
  <2>2. \A i \in DOMAIN <<e>> : <<e>>[i] = e
    OBVIOUS
  <2>3. QED
    BY <2>1, <2>2 DEF e
<1>9. QED
  BY <1>1, <1>2, <1>7, <1>8, Zenon

LEMMA CurrentIs ==
  ASSUME EventStreamTypeOK, NEW statuses, NEW r \in CurrentIn(statuses)
  PROVE  r \in Runs /\ truth.current = r /\ r # NoRun /\ truth.status[r] \in statuses
         /\ truth.status[r] \in Statuses /\ truth.before[r] \in Statuses
<1>1. r \in Runs /\ truth.current = r /\ truth.status[r] \in statuses
  BY Zenon DEF CurrentIn, Current
<1>2. truth \in Truth
  BY DEF EventStreamTypeOK
<1>3. QED
  BY <1>1, <1>2, EventStreamAssumption DEF Truth

LEMMA ChangeIs ==
  ASSUME EventStreamTypeOK, NEW r \in Runs, NEW s \in Statuses
  PROVE  /\ \A b \in Statuses :
              /\ [Moved(r, s) EXCEPT !.before[r] = b] \in Truth
              /\ [Moved(r, s) EXCEPT !.before[r] = b].current = truth.current
         /\ \A q \in Requests :
              /\ [Moved(r, s) EXCEPT !.request[r] = q] \in Truth
              /\ [Moved(r, s) EXCEPT !.request[r] = q].current = truth.current
         /\ [Moved(r, s) EXCEPT !.current = r] \in Truth
         /\ [Moved(r, s) EXCEPT !.current = r].current = r
<1>1. Moved(r, s) \in Truth /\ Moved(r, s).current = truth.current
  BY MovedIs
<1>2. QED
  BY <1>1 DEF Truth

LEMMA AppendTwo ==
  ASSUME NEW e \in Events, NEW f \in Events, e.index = 0, f.index = 0
  PROVE  Unnumbered0(<<e, f>>)
  BY DEF Unnumbered0

\* Every command but a start is of the run that is current, and leaves one current.
LEMMA OthersAre ==
  ASSUME EventStreamTypeOK,
         NEW c \in (ByUsers \union ByWorker) \ StartFirstRun
  PROVE  Prepared(c) /\ truth.current # NoRun
<1>1. {"running", "paused", "terminated", "waiting", "completed", "failed"} \subseteq Statuses
  BY DEF Statuses, Over
<1>2. CASE c \in PauseRun
  <2>1. PICK r \in CurrentIn({"running", "waiting"}) :
          c = Command(<<Event("status", r, "paused")>> \o Refreshed(r, "disabled"),
                      [Moved(r, "paused") EXCEPT !.before[r] = truth.status[r]], r)
    BY <1>2 DEF PauseRun
  <2>2. r \in Runs /\ truth.current = r /\ r # NoRun /\ truth.status[r] \in Statuses
    BY CurrentIs
  <2>3. Unnumbered0(<<Event("status", r, "paused")>> \o Refreshed(r, "disabled"))
    BY <1>1, <2>2, EventIs, OneEvent, MoreEvents, RefreshedIs DEF Faces
  <2>4. [Moved(r, "paused") EXCEPT !.before[r] = truth.status[r]] \in Truth
       /\ [Moved(r, "paused") EXCEPT !.before[r] = truth.status[r]].current = truth.current
    <3>1. "paused" \in Statuses
      BY <1>1
    <3>2. \A b \in Statuses :
            /\ [Moved(r, "paused") EXCEPT !.before[r] = b] \in Truth
            /\ [Moved(r, "paused") EXCEPT !.before[r] = b].current = truth.current
      BY <2>2, <3>1, ChangeIs, Zenon
    <3>3. QED
      BY <2>2, <3>2, Zenon
  <2>5. Prepared(c)
    BY <2>1, <2>2, <2>3, <2>4, CommandIs, Zenon
  <2>6. QED
    BY <2>2, <2>5
<1>3. CASE c \in ResumeRun
  <2>1. PICK r \in CurrentIn({"paused"}) :
          c = Command(<<Event("status", r, truth.before[r])>> \o Refreshed(r, "open"),
                      Moved(r, truth.before[r]), r)
    BY <1>3 DEF ResumeRun
  <2>2. r \in Runs /\ truth.current = r /\ r # NoRun /\ truth.before[r] \in Statuses
    BY CurrentIs
  <2>3. Unnumbered0(<<Event("status", r, truth.before[r])>> \o Refreshed(r, "open"))
    BY <2>2, EventIs, OneEvent, MoreEvents, RefreshedIs DEF Faces
  <2>4. QED
    BY <2>1, <2>2, <2>3, MovedIs DEF Command, Prepared
<1>4. CASE c \in TerminateRun
  <2>1. PICK r \in CurrentIn({"running", "waiting", "paused"}) :
          c = Command(Refreshed(r, "disabled") \o <<Event("terminal", r, "terminated")>>,
                      Moved(r, "terminated"), r)
    BY <1>4 DEF TerminateRun
  <2>2. r \in Runs /\ truth.current = r /\ r # NoRun
    BY CurrentIs
  <2>3. Unnumbered0(Refreshed(r, "disabled") \o <<Event("terminal", r, "terminated")>>)
    BY <1>1, <2>2, EventIs, OneEvent, MoreEvents, RefreshedIs DEF Faces
  <2>4. QED
    BY <1>1, <2>1, <2>2, <2>3, MovedIs DEF Command, Prepared
<1>5. CASE c \in AnswerUser
  <2>1. PICK r \in CurrentIn({"waiting"}) :
          c = Command(<<Event("answer", r, "answered")>>,
                      [Moved(r, "running") EXCEPT !.request[r] = "answered"], r)
    BY <1>5 DEF AnswerUser
  <2>2. r \in Runs /\ truth.current = r /\ r # NoRun
    BY CurrentIs
  <2>3. Unnumbered0(<<Event("answer", r, "answered")>>)
    BY <2>2, EventIs, OneEvent DEF Faces
  <2>4. [Moved(r, "running") EXCEPT !.request[r] = "answered"] \in Truth
       /\ [Moved(r, "running") EXCEPT !.request[r] = "answered"].current = truth.current
    BY <1>1, <2>2, ChangeIs, Zenon DEF Requests
  <2>5. Prepared(c)
    BY <2>1, <2>2, <2>3, <2>4, CommandIs, Zenon
  <2>6. QED
    BY <2>2, <2>5
<1>6. CASE c \in AskUser
  <2>1. PICK r \in CurrentIn({"running"}) :
          c = Command(<<Event("ask", r, "open")>>,
                      [Moved(r, "waiting") EXCEPT !.request[r] = "pending"], r)
    BY <1>6 DEF AskUser
  <2>2. r \in Runs /\ truth.current = r /\ r # NoRun
    BY CurrentIs
  <2>3. Unnumbered0(<<Event("ask", r, "open")>>)
    BY <2>2, EventIs, OneEvent DEF Faces
  <2>4. [Moved(r, "waiting") EXCEPT !.request[r] = "pending"] \in Truth
       /\ [Moved(r, "waiting") EXCEPT !.request[r] = "pending"].current = truth.current
    BY <1>1, <2>2, ChangeIs, Zenon DEF Requests
  <2>5. Prepared(c)
    BY <2>1, <2>2, <2>3, <2>4, CommandIs, Zenon
  <2>6. QED
    BY <2>2, <2>5
<1>7. CASE c \in FinishRun
  <2>1. PICK r \in CurrentIn({"running"}) :
          c = Command(<<Event("status", r, "completed")>>, Moved(r, "completed"), r)
    BY <1>7 DEF FinishRun
  <2>2. r \in Runs /\ truth.current = r /\ r # NoRun
    BY CurrentIs
  <2>3. Unnumbered0(<<Event("status", r, "completed")>>)
    BY <1>1, <2>2, EventIs, OneEvent
  <2>4. QED
    BY <1>1, <2>1, <2>2, <2>3, MovedIs DEF Command, Prepared
<1>8. CASE c \in FailRun
  <2>1. PICK r \in CurrentIn({"running"}) :
          c = Command(<<Event("stage", r, "running"), Event("terminal", r, "failed")>>,
                      Moved(r, "failed"), r)
    BY <1>8 DEF FailRun
  <2>2. r \in Runs /\ truth.current = r /\ r # NoRun
    BY CurrentIs
  <2>3. Unnumbered0(<<Event("stage", r, "running"), Event("terminal", r, "failed")>>)
    BY <1>1, <2>2, EventIs, AppendTwo
  <2>4. QED
    BY <1>1, <2>1, <2>2, <2>3, MovedIs DEF Command, Prepared
<1>9. CASE c \in Rerun
  <2>1. PICK old \in CurrentIn({"failed", "terminated"}), new \in Fresh :
          c = RerunOf(old, new)
    BY <1>9 DEF Rerun
  <2>2. old \in Runs /\ truth.current = old /\ old # NoRun
        /\ truth.status[old] \in Statuses /\ new \in Runs /\ new # NoRun
    BY CurrentIs, EventStreamAssumption DEF Fresh
  <2>3. Unnumbered0(<<Event("terminal", old, truth.status[old]), Event("created", new, "running")>>)
    BY <1>1, <2>2, EventIs, AppendTwo
  <2>4. QED
    BY <1>1, <2>1, <2>2, <2>3, ChangeIs DEF RerunOf, Command, Prepared
<1>10. QED
  BY <1>2, <1>3, <1>4, <1>5, <1>6, <1>7, <1>8, <1>9 DEF ByUsers, ByWorker

-----------------------------------------------------------------------------
(* The page                                                                 *)

LEMMA TimelineIs ==
  ASSUME EventStreamTypeOK, NEW r \in Runs
  PROVE  Timeline(r) \in Faces
<1>1. CASE AboutRequest(r) = {}
  BY <1>1 DEF Timeline, Faces
<1>2. CASE AboutRequest(r) # {}
  <2>1. AboutRequest(r) \subseteq RequestEvents /\ AboutRequest(r) \in SUBSET log
    BY DEF AboutRequest, Visible, EventStreamTypeOK, Events, RunEvents
  <2>2. IsFiniteSet(AboutRequest(r)) /\ AboutRequest(r) \in SUBSET Events
    BY <2>1, FS_Subset DEF EventStreamTypeOK, Events
  <2>3. \E m \in AboutRequest(r) : \A e \in AboutRequest(r) : e.index <= m.index
    BY <1>2, <2>2, LastExists
  <2>4. LastOf(AboutRequest(r)) \in AboutRequest(r)
    BY <2>3, Zenon DEF LastOf
  <2>5. LastOf(AboutRequest(r)).status \in Faces
    BY <2>1, <2>4 DEF RequestEvents
  <2>6. QED
    BY <1>2, <2>5 DEF Timeline
<1>3. QED
  BY <1>1, <1>2

LEMMA SnapshotIs ==
  ASSUME EventStreamTypeOK
  PROVE  Snapshot \in View
<1>1. NarrativeFeed \in [Runs -> Faces]
  BY TimelineIs DEF NarrativeFeed
<1>2. SessionStatus \in Statuses
  BY DEF SessionStatus, EventStreamTypeOK, Truth, Statuses
<1>3. QED
  BY <1>1, <1>2 DEF Snapshot, View, EventStreamTypeOK, Truth

\* The reducer keeps a view a view.
LEMMA ApplyIs ==
  ASSUME NEW view \in View, NEW e \in Events
  PROVE  Apply(view, e) \in View
<1>1. WithRun(view, e.run, e.status) \in View \/ e \in RequestEvents
  BY DEF WithRun, View, Events, RunEvents
<1>2. e \in RunEvents => /\ ApplyCreated(view, e) \in View
                         /\ ApplyStatus(view, e) \in View
                         /\ ApplyTerminal(view, e) \in View
  <2>1. SUFFICES ASSUME e \in RunEvents
                 PROVE  /\ ApplyCreated(view, e) \in View
                        /\ ApplyStatus(view, e) \in View
                        /\ ApplyTerminal(view, e) \in View
    OBVIOUS
  <2>2. e.run \in Runs /\ e.status \in Statuses
    BY <2>1 DEF RunEvents
  <2> DEFINE v == WithRun(view, e.run, e.status)
  <2>3. v \in View
    BY <2>2 DEF WithRun, View
  <2>4. ApplyCreated(view, e) \in View
    BY <2>2 DEF ApplyCreated, View
  <2> HIDE DEF v
  <2>5. [v EXCEPT !.status = e.status, !.current = e.run] \in View
    BY <2>2, <2>3 DEF View
  <2>6. [v EXCEPT !.status = IF view.current = e.run THEN e.status ELSE @] \in View
    BY <2>2, <2>3 DEF View
  <2>7. QED
    BY <2>4, <2>5, <2>6, Zenon DEF v, ApplyStatus, ApplyTerminal
<1>3. e \in RequestEvents => [view EXCEPT !.feed = InFeed(view.feed, e)] \in View
  BY DEF InFeed, View, RequestEvents
<1>4. CASE e \in RunEvents
  <2>1. e.type \in {"created", "status", "terminal", "stage"}
    BY <1>4 DEF RunEvents
  <2>2. Apply(view, e) \in {ApplyCreated(view, e), ApplyStatus(view, e), ApplyTerminal(view, e), view}
    BY <2>1, Zenon DEF Apply
  <2>3. QED
    BY <1>2, <1>4, <2>2
<1>5. CASE e \in RequestEvents
  <2>1. e.type \in {"ask", "answer"}
    BY <1>5 DEF RequestEvents
  <2>2. Apply(view, e) = [view EXCEPT !.feed = InFeed(view.feed, e)]
    BY <2>1, Zenon DEF Apply
  <2>3. QED
    BY <1>3, <1>5, <2>2
<1>6. QED
  BY <1>4, <1>5 DEF Events

-----------------------------------------------------------------------------
(* What the steps of a command do to its transaction                        *)

\* The transaction of w becomes row, the others stay.
Becomes(w, row) ==
  /\ writer'[w] = row
  /\ \A v \in Writers : v # w => writer'[v] = writer[v]

LEMMA TransactionChanges ==
  ASSUME EventStreamTypeOK, NEW w \in Writers, NEW row \in Transaction,
         IsFiniteSet(row.rows), writer' = [writer EXCEPT ![w] = row]
  PROVE  /\ Becomes(w, row)
         /\ writer' \in [Writers -> Transaction]
         /\ \A v \in Writers : IsFiniteSet(writer'[v].rows)
<1>1. writer \in [Writers -> Transaction] /\ \A v \in Writers : IsFiniteSet(writer[v].rows)
  BY DEF EventStreamTypeOK
<1>2. QED
  BY <1>1 DEF Becomes

LEMMA TransactionIs ==
  ASSUME EventStreamTypeOK, NEW w \in Writers
  PROVE  /\ writer[w] \in Transaction /\ IsFiniteSet(writer[w].rows)
         /\ writer[w].at \in Places /\ writer[w].todo \in Seq(Events)
         /\ writer[w].rows \in SUBSET Events /\ writer[w].next \in Seq(Truth)
         /\ writer[w].from \in Seq(Truth) /\ writer[w].run \in Runs \union {NoRun}
  BY DEF EventStreamTypeOK, Transaction

LEMMA TransactionShape ==
  ASSUME EventStreamTypeOK, NEW w \in Writers
  PROVE  writer[w] = [at |-> writer[w].at, todo |-> writer[w].todo, rows |-> writer[w].rows,
                      next |-> writer[w].next, from |-> writer[w].from,
                      run |-> writer[w].run]
  BY DEF EventStreamTypeOK, Transaction

LEMMA SameTransaction ==
  ASSUME NEW x \in Transaction, NEW y \in Transaction,
         x.at = y.at, x.todo = y.todo, x.rows = y.rows, x.next = y.next, x.from = y.from,
         x.run = y.run
  PROVE  x = y
  BY DEF Transaction

LEMMA IdleIs == Idle \in Transaction /\ IsFiniteSet(Idle.rows)
  BY FS_EmptySet DEF Idle, Transaction, Places

LEMMA NextIndexIs ==
  ASSUME EventStreamTypeOK, NEW w \in Writers
  PROVE  /\ NextIndex(w) \in Nat /\ NextIndex(w) > highWater
         /\ \A e \in log \union writer[w].rows : e.index < NextIndex(w)
<1> DEFINE S == Indices(log) \union Indices(writer[w].rows) \union {highWater}
<1>1. /\ Indices(log) \subseteq Nat /\ IsFiniteSet(Indices(log))
      /\ Indices(writer[w].rows) \subseteq Nat /\ IsFiniteSet(Indices(writer[w].rows))
  BY TransactionIs, IndicesAre DEF EventStreamTypeOK
<1>2. IsFiniteSet(S) /\ S \in SUBSET Nat
  BY <1>1, FS_Union, FS_AddElement DEF EventStreamTypeOK
<1>3. highWater \in S /\ \A e \in log \union writer[w].rows : e.index \in S
  BY DEF Indices
<1>4. NextIndex(w) = Highest(S) + 1
  BY DEF NextIndex
<1>5. Highest(S) \in Nat /\ \A i \in S : i <= Highest(S)
  <2> HIDE DEF S
  <2> QED BY <1>2, HighestIs
<1>6. NextIndex(w) \in Nat /\ \A i \in S : i < NextIndex(w)
  <2> HIDE DEF S
  <2> QED BY <1>2, <1>4, <1>5
<1>7. QED
  <2> HIDE DEF S
  <2> QED BY <1>3, <1>6

\* The first of the rows to number gets its number, the others stay as they are.
Numbering(todo, n) ==
  [i \in DOMAIN todo |-> IF i = 1 THEN [todo[1] EXCEPT !.index = n] ELSE todo[i]]

LEMMA NumberingIs ==
  ASSUME NEW todo \in Seq(Events), todo # <<>>, NEW n \in Nat
  PROVE  /\ [todo EXCEPT ![1].index = n] = Numbering(todo, n)
         /\ Numbering(todo, n) \in Seq(Events) /\ Numbering(todo, n) # <<>>
         /\ Len(Numbering(todo, n)) = Len(todo)
         /\ Head(Numbering(todo, n)) = [Head(todo) EXCEPT !.index = n]
         /\ Head(Numbering(todo, n)).index = n
         /\ Head(Numbering(todo, n)).run = Head(todo).run
         /\ \A i \in 2 .. Len(todo) : Numbering(todo, n)[i] = todo[i]
<1> DEFINE e == [todo[1] EXCEPT !.index = n]
<1>1. todo[1] \in Events /\ 1 \in DOMAIN todo /\ Head(todo) = todo[1] /\ Len(todo) \in Nat
      /\ DOMAIN todo = 1 .. Len(todo)
  OBVIOUS
<1>2. e \in Events /\ e.index = n /\ e.run = todo[1].run
  BY <1>1 DEF Events, RunEvents, RequestEvents
<1>3. [todo EXCEPT ![1].index = n] = Numbering(todo, n)
  BY DEF Numbering
<1> HIDE DEF e
<1>4. Numbering(todo, n) = [i \in 1 .. Len(todo) |-> IF i = 1 THEN e ELSE todo[i]]
  BY <1>1 DEF Numbering, e
<1>5. \A i \in 1 .. Len(todo) : (IF i = 1 THEN e ELSE todo[i]) \in Events
  BY <1>1, <1>2
<1>6. Numbering(todo, n) \in Seq(Events) /\ Len(Numbering(todo, n)) = Len(todo)
  BY <1>1, <1>4, <1>5, IsASeq, LenProperties
<1>7. Numbering(todo, n)[1] = e /\ \A i \in 2 .. Len(todo) : Numbering(todo, n)[i] = todo[i]
  BY <1>1, <1>4
<1>8. Numbering(todo, n) # <<>> /\ Head(Numbering(todo, n)) = e
  BY <1>1, <1>6, <1>7
<1>9. QED
  BY <1>1, <1>2, <1>3, <1>6, <1>7, <1>8 DEF e

TransactionsOK ==
  writer' \in [Writers -> Transaction] /\ \A v \in Writers : IsFiniteSet(writer'[v].rows)

LEMMA BeginDoes ==
  ASSUME EventStreamTypeOK, NEW w \in Writers, Begin(w)
  PROVE  \E c \in Commands(w) :
           /\ Becomes(w, [at |-> IF c \in StartFirstRun THEN "starting" ELSE "open",
                          todo |-> c.events, rows |-> {}, next |-> <<c.next>>,
                          from |-> <<truth>>, run |-> c.run])
           /\ Prepared(c) /\ (c \notin StartFirstRun => truth.current # NoRun)
           /\ hidden' = IF c \in StartFirstRun THEN hidden \union {c.run} ELSE hidden
           /\ TransactionsOK
<1>1. PICK c \in Commands(w) :
        /\ writer' = [writer EXCEPT ![w] =
             [at |-> IF c \in StartFirstRun THEN "starting" ELSE "open",
              todo |-> c.events, rows |-> {}, next |-> <<c.next>>, from |-> <<truth>>,
              run |-> c.run]]
        /\ hidden' = IF c \in StartFirstRun THEN hidden \union {c.run} ELSE hidden
  BY DEF Begin
<1>2. c \in ByUsers \union ByWorker
  BY DEF Commands
<1>3. Prepared(c) /\ (c \notin StartFirstRun => truth.current # NoRun)
  BY <1>2, StartIs, OthersAre
<1> DEFINE row == [at |-> IF c \in StartFirstRun THEN "starting" ELSE "open",
                   todo |-> c.events, rows |-> {}, next |-> <<c.next>>, from |-> <<truth>>,
                   run |-> c.run]
<1>4. row \in Transaction /\ row.rows = {}
  BY <1>3 DEF Transaction, Places, Prepared, Unnumbered0, EventStreamTypeOK
<1>5. Becomes(w, row) /\ TransactionsOK
  <2> HIDE DEF row
  <2>1. writer' = [writer EXCEPT ![w] = row]
    BY <1>1 DEF row
  <2>2. IsFiniteSet(row.rows)
    BY <1>4, FS_EmptySet
  <2>3. QED
    BY <1>4, <2>1, <2>2, TransactionChanges DEF TransactionsOK
<1>6. QED
  BY <1>1, <1>3, <1>5

LEMMA TakeNumberDoes ==
  ASSUME EventStreamTypeOK, NEW w \in Writers, TakeNumber(w)
  PROVE  /\ writer[w].todo # <<>> /\ Head(writer[w].todo).index = 0
         /\ numberLock = Nobody /\ numberLock' = w /\ highWater' = NextIndex(w)
         /\ Becomes(w, [at |-> writer[w].at, todo |-> Numbering(writer[w].todo, NextIndex(w)),
                        rows |-> writer[w].rows, next |-> writer[w].next,
                        from |-> writer[w].from, run |-> writer[w].run])
         /\ TransactionsOK
<1> DEFINE n == NextIndex(w)
           todo == writer[w].todo
           row == [at |-> writer[w].at, todo |-> Numbering(todo, n),
                   rows |-> writer[w].rows, next |-> writer[w].next,
                   from |-> writer[w].from, run |-> writer[w].run]
<1>1. /\ todo # <<>> /\ Head(todo).index = 0
      /\ numberLock = Nobody /\ numberLock' = w /\ highWater' = n
      /\ writer' = [writer EXCEPT ![w].todo[1].index = n]
  BY DEF TakeNumber
<1>2. /\ todo \in Seq(Events) /\ n \in Nat
      /\ writer[w] = [at |-> writer[w].at, todo |-> todo, rows |-> writer[w].rows,
                      next |-> writer[w].next, from |-> writer[w].from,
                      run |-> writer[w].run]
  BY TransactionIs, TransactionShape, NextIndexIs
<1>3. [todo EXCEPT ![1].index = n] = Numbering(todo, n) /\ Numbering(todo, n) \in Seq(Events)
  BY <1>1, <1>2, NumberingIs
<1> HIDE DEF n
<1>4. [writer[w] EXCEPT !.todo[1].index = n] = row
  <2> DEFINE numbered == Numbering(todo, n)
  <2>1. [writer[w] EXCEPT !.todo[1].index = n] = [writer[w] EXCEPT !.todo = [todo EXCEPT ![1].index = n]]
    OBVIOUS
  <2>2. [writer[w] EXCEPT !.todo = numbered] = row
    <3> HIDE DEF numbered
    <3>1. row = [at |-> writer[w].at, todo |-> numbered,
                 rows |-> writer[w].rows, next |-> writer[w].next,
                 from |-> writer[w].from, run |-> writer[w].run]
      BY DEF numbered
    <3>2. QED
      BY <1>2, <3>1
  <2>3. QED
    BY <1>3, <2>1, <2>2
<1>5. writer' = [writer EXCEPT ![w] = row]
  <2>1. writer' = [writer EXCEPT ![w] = [writer[w] EXCEPT !.todo[1].index = n]]
    BY <1>1
  <2>2. QED
    BY <1>4, <2>1
<1>6. row \in Transaction /\ IsFiniteSet(row.rows)
  BY <1>3, TransactionIs DEF Transaction
<1>7. Becomes(w, row) /\ TransactionsOK
  <2> HIDE DEF row
  <2> QED BY <1>5, <1>6, TransactionChanges DEF TransactionsOK
<1>8. QED
  BY <1>1, <1>7 DEF n

LEMMA FlushRowDoes ==
  ASSUME EventStreamTypeOK, NEW w \in Writers, FlushRow(w)
  PROVE  /\ writer[w].todo # <<>> /\ Head(writer[w].todo).index # 0
         /\ writeLock \in {Nobody, w} /\ writeLock' = w
         /\ numberLock' = Released(w, numberLock)
         /\ Becomes(w, [at |-> writer[w].at, todo |-> Tail(writer[w].todo),
                        rows |-> writer[w].rows \union {Head(writer[w].todo)},
                        next |-> writer[w].next, from |-> writer[w].from,
                        run |-> writer[w].run])
         /\ TransactionsOK
<1> DEFINE row == [at |-> writer[w].at, todo |-> Tail(writer[w].todo),
                   rows |-> writer[w].rows \union {Head(writer[w].todo)},
                   next |-> writer[w].next, from |-> writer[w].from,
                   run |-> writer[w].run]
<1>1. /\ writer[w].todo # <<>> /\ Head(writer[w].todo).index # 0
      /\ writeLock \in {Nobody, w} /\ writeLock' = w
      /\ numberLock' = Released(w, numberLock)
      /\ writer' = [writer EXCEPT ![w].rows = @ \union {Head(writer[w].todo)},
                                  ![w].todo = Tail(@)]
  BY DEF FlushRow, Released
<1>2. writer[w] \in Transaction /\ writer \in [Writers -> Transaction]
  BY DEF EventStreamTypeOK
<1>3. Head(writer[w].todo) \in Events /\ Tail(writer[w].todo) \in Seq(Events)
  BY <1>1, TransactionIs, HeadTailProperties
<1>4. row \in Transaction
  BY <1>3, TransactionIs DEF Transaction
<1>5. writer' = [writer EXCEPT ![w] = row]
  <2> DEFINE changed == [writer[w] EXCEPT !.rows = @ \union {Head(writer[w].todo)},
                                     !.todo = Tail(@)]
  <2>1. writer' = [writer EXCEPT ![w] = changed]
    BY <1>1, <1>2
  <2>2. /\ changed \in Transaction /\ changed.at = writer[w].at
        /\ changed.todo = Tail(writer[w].todo)
        /\ changed.rows = writer[w].rows \union {Head(writer[w].todo)}
        /\ changed.next = writer[w].next /\ changed.from = writer[w].from
        /\ changed.run = writer[w].run
    BY <1>2, <1>3 DEF Transaction
  <2>3. changed = row
    <3> HIDE DEF changed
    <3> QED BY <1>4, <2>2, SameTransaction
  <2>4. QED
    BY <2>1, <2>3
<1>6. IsFiniteSet(row.rows)
  <2>1. IsFiniteSet(writer[w].rows)
    BY TransactionIs
  <2>2. QED
    BY <2>1, FS_AddElement
<1>7. Becomes(w, row) /\ TransactionsOK
  <2> HIDE DEF row
  <2> QED BY <1>4, <1>5, <1>6, TransactionChanges DEF TransactionsOK
<1>8. QED
  BY <1>1, <1>7

LEMMA UndoDoes ==
  ASSUME EventStreamTypeOK, NEW w \in Writers, Undo(w)
  PROVE  /\ Becomes(w, Idle) /\ TransactionsOK
         /\ hidden' = IF writer[w].at \in {"starting", "publishing"}
                      THEN hidden \ {writer[w].run} ELSE hidden
         /\ numberLock' = Released(w, numberLock) /\ writeLock' = Released(w, writeLock)
  BY IdleIs, TransactionChanges DEF Undo, TransactionsOK

LEMMA CommitRowsDoes ==
  ASSUME EventStreamTypeOK, NEW w \in Writers, CommitRows(w), writer[w].next # <<>>
  PROVE  /\ writer[w].at = "open" /\ writer[w].todo = <<>>
         /\ Becomes(w, [at |-> "settled", todo |-> <<>>, rows |-> writer[w].rows,
                        next |-> <<>>, from |-> <<>>, run |-> writer[w].run])
         /\ truth'.current = Head(writer[w].next).current
         /\ truth' \in Truth /\ TransactionsOK
<1> DEFINE row == [at |-> "settled", todo |-> <<>>, rows |-> writer[w].rows,
                   next |-> <<>>, from |-> <<>>, run |-> writer[w].run]
           next == Head(writer[w].next)
           run == writer[w].run
<1>1. /\ writer[w].at = "open" /\ writer[w].todo = <<>>
      /\ writer' = [writer EXCEPT ![w].at = "settled", ![w].next = <<>>, ![w].from = <<>>]
      /\ truth' = [status |-> [truth.status EXCEPT ![run] = next.status[run]],
                   before |-> [truth.before EXCEPT ![run] = next.before[run]],
                   request |-> [truth.request EXCEPT ![run] = next.request[run]],
                   current |-> next.current]
  BY DEF CommitRows
<1>2. writer[w] \in Transaction /\ writer \in [Writers -> Transaction]
  BY DEF EventStreamTypeOK
<1>3. writer' = [writer EXCEPT ![w] = row]
  <2> DEFINE changed == [writer[w] EXCEPT !.at = "settled", !.next = <<>>, !.from = <<>>]
  <2>1. writer' = [writer EXCEPT ![w] = changed]
    BY <1>1, <1>2
  <2>2. changed = row
    BY <1>1, <1>2 DEF Transaction
  <2>3. QED
    BY <2>1, <2>2
<1>4. row \in Transaction /\ IsFiniteSet(row.rows)
  BY TransactionIs DEF Transaction, Places
<1>5. Becomes(w, row) /\ TransactionsOK
  <2> HIDE DEF row
  <2> QED BY <1>3, <1>4, TransactionChanges DEF TransactionsOK
<1>6. next \in Truth /\ truth \in Truth
  BY TransactionIs, HeadTailProperties DEF EventStreamTypeOK
<1>7. truth' \in Truth /\ truth'.current = next.current
  <2> HIDE DEF next, run
  <2>1. /\ [truth.status EXCEPT ![run] = next.status[run]] \in [Runs -> Statuses]
        /\ [truth.before EXCEPT ![run] = next.before[run]] \in [Runs -> Statuses]
        /\ [truth.request EXCEPT ![run] = next.request[run]] \in [Runs -> Requests]
    BY <1>6 DEF Truth
  <2>2. QED
    BY <1>1, <1>6, <2>1 DEF Truth
<1>8. QED
  BY <1>1, <1>5, <1>7

LEMMA CommitEventsDoes ==
  ASSUME EventStreamTypeOK, NEW w \in Writers, CommitEvents(w)
  PROVE  /\ writer[w].at = "settled" /\ log' = log \union writer[w].rows
         /\ writeLock' = Released(w, writeLock)
         /\ Becomes(w, Idle) /\ TransactionsOK
  BY IdleIs, TransactionChanges DEF CommitEvents, TransactionsOK

LEMMA CommitStartEventsDoes ==
  ASSUME EventStreamTypeOK, NEW w \in Writers, CommitStartEvents(w)
  PROVE  /\ writer[w].at = "starting" /\ writer[w].todo = <<>>
         /\ log' = log \union writer[w].rows /\ writeLock' = Released(w, writeLock)
         /\ Becomes(w, [at |-> "publishing", todo |-> <<>>, rows |-> {},
                        next |-> writer[w].next, from |-> writer[w].from,
                        run |-> writer[w].run])
         /\ TransactionsOK
<1> DEFINE row == [at |-> "publishing", todo |-> <<>>, rows |-> {},
                   next |-> writer[w].next, from |-> writer[w].from, run |-> writer[w].run]
<1>1. /\ writer[w].at = "starting" /\ writer[w].todo = <<>>
      /\ log' = log \union writer[w].rows /\ writeLock' = Released(w, writeLock)
      /\ writer' = [writer EXCEPT ![w].at = "publishing", ![w].rows = {}]
  BY DEF CommitStartEvents
<1>2. writer[w] \in Transaction /\ writer \in [Writers -> Transaction]
  BY DEF EventStreamTypeOK
<1>3. row \in Transaction /\ IsFiniteSet(row.rows)
  <2>1. row \in Transaction /\ row.rows = {}
    BY TransactionIs DEF Transaction, Places
  <2>2. QED
    BY <2>1, FS_EmptySet
<1>4. writer' = [writer EXCEPT ![w] = row]
  <2> DEFINE changed == [writer[w] EXCEPT !.at = "publishing", !.rows = {}]
  <2>1. writer' = [writer EXCEPT ![w] = changed]
    BY <1>1, <1>2
  <2>2. /\ changed \in Transaction /\ changed.at = "publishing"
        /\ changed.todo = <<>> /\ changed.rows = {}
        /\ changed.next = writer[w].next /\ changed.from = writer[w].from
        /\ changed.run = writer[w].run
    BY <1>1, <1>2 DEF Transaction, Places
  <2>3. changed = row
    <3> HIDE DEF changed
    <3> QED BY <1>3, <2>2, SameTransaction
  <2>4. QED
    BY <2>1, <2>3
<1>5. Becomes(w, row) /\ TransactionsOK
  <2> HIDE DEF row
  <2> QED BY <1>3, <1>4, TransactionChanges DEF TransactionsOK
<1>6. QED
  BY <1>1, <1>5

LEMMA PublishDoes ==
  ASSUME EventStreamTypeOK, NEW w \in Writers, Publish(w), writer[w].next # <<>>
  PROVE  /\ writer[w].at = "publishing" /\ hidden' = hidden \ {writer[w].run}
         /\ truth' = Head(writer[w].next) /\ truth' \in Truth
         /\ Becomes(w, Idle) /\ TransactionsOK
<1>1. Head(writer[w].next) \in Truth
  BY TransactionIs, HeadTailProperties
<1>2. QED
  BY <1>1, IdleIs, TransactionChanges DEF Publish, TransactionsOK

LEMMA AbortStartDoes ==
  ASSUME EventStreamTypeOK, NEW w \in Writers, AbortStart(w)
  PROVE  /\ writer[w].at = "publishing" /\ hidden' = hidden \ {writer[w].run}
         /\ log' = {e \in log : e.run # writer[w].run}
         /\ numberLock' = Released(w, numberLock) /\ writeLock' = Released(w, writeLock)
         /\ Becomes(w, Idle) /\ TransactionsOK
  BY UndoDoes DEF AbortStart

-----------------------------------------------------------------------------
(* Type correctness                                                         *)

LEMMA InitTyped == Init => EventStreamTypeOK
<1> SUFFICES ASSUME Init PROVE EventStreamTypeOK
  OBVIOUS
<1>1. truth \in Truth
  BY DEF Init, Truth, Statuses, Requests
<1>2. writer \in [Writers -> Transaction]
      /\ \A w \in Writers : writer[w].at = "idle" /\ IsFiniteSet(writer[w].rows)
  BY IdleIs DEF Init, Idle
<1>3. page \in [view : View \union {<<>>}, seen : SUBSET Nat, skipped : SUBSET Nat,
                reply : Seq(Reply)] /\ page.seen = {}
  BY DEF Init, NoPage
<1>4. stream \in [open : BOOLEAN, cursor : Nat, hidden : SUBSET Runs, batch : SUBSET Events,
                  reading : BOOLEAN]
  BY DEF Init, Closed
<1>5. IsFiniteSet(log) /\ IsFiniteSet(page.seen)
  BY <1>3, FS_EmptySet DEF Init
<1>6. QED
  BY <1>1, <1>2, <1>3, <1>4, <1>5, EventStreamAssumption DEF Init, EventStreamTypeOK, HasNext, OpenTo, Closed

\* What the steps of the commands leave alone, and what those of the stream do.
serverVars == <<truth, hidden, log, highWater, numberLock, writeLock, writer>>
clientVars == <<stream, page>>

LEMMA WriterStepLeaves ==
  ASSUME NEW w \in Writers, WriterStep(w)
  PROVE  UNCHANGED clientVars
  BY DEF WriterStep, Begin, Proceed, TakeNumber, FlushRow, CommitRows, CommitEvents,
         CommitStartEvents, Publish, BusyTimeout, RollBack, AbortStart, Undo, clientVars

LEMMA ReleasedIs ==
  ASSUME NEW w \in Writers, NEW lock \in Writers \union {Nobody}
  PROVE  Released(w, lock) \in Writers \union {Nobody}
  BY DEF Released

LEMMA HasNextStays ==
  ASSUME EventStreamTypeOK, NEW w \in Writers, NEW row, Becomes(w, row),
         row.at \in {"open", "starting", "publishing"} => row.next # <<>>
  PROVE  \A v \in Writers : HasNext(v)'
<1>1. \A v \in Writers : HasNext(v)
  BY DEF EventStreamTypeOK
<1>2. QED
  BY <1>1 DEF HasNext, Becomes

LEMMA WriterStepTyped ==
  ASSUME EventStreamTypeOK, NEW w \in Writers, WriterStep(w)
  PROVE  EventStreamTypeOK'
<1> USE DEF EventStreamTypeOK
<1>1. stream' = stream /\ page' = page /\ (OpenTo => OpenTo')
  BY WriterStepLeaves DEF clientVars, OpenTo
<1>2. /\ numberLock \in Writers \union {Nobody} /\ writeLock \in Writers \union {Nobody}
      /\ Released(w, numberLock) \in Writers \union {Nobody}
      /\ Released(w, writeLock) \in Writers \union {Nobody}
  BY ReleasedIs
<1>3. CASE Begin(w)
  <2>1. PICK c \in Commands(w) :
           /\ Becomes(w, [at |-> IF c \in StartFirstRun THEN "starting" ELSE "open",
                          todo |-> c.events, rows |-> {}, next |-> <<c.next>>,
                          from |-> <<truth>>, run |-> c.run])
           /\ Prepared(c)
           /\ hidden' = IF c \in StartFirstRun THEN hidden \union {c.run} ELSE hidden
           /\ TransactionsOK
    BY <1>3, BeginDoes
  <2>2. hidden' \subseteq Runs
    BY <2>1 DEF Prepared
  <2>3. \A v \in Writers : HasNext(v)'
    BY <2>1 DEF HasNext, Becomes
  <2>4. QED
    BY <1>1, <1>3, <2>1, <2>2, <2>3 DEF Begin, TransactionsOK
<1>4. CASE TakeNumber(w)
  <2>1. TransactionsOK /\ numberLock' = w /\ highWater' \in Nat
    BY <1>4, TakeNumberDoes, NextIndexIs
  <2>2. \A v \in Writers : HasNext(v)'
    <3> DEFINE row == [at |-> writer[w].at, todo |-> Numbering(writer[w].todo, NextIndex(w)),
                      rows |-> writer[w].rows, next |-> writer[w].next,
                      from |-> writer[w].from, run |-> writer[w].run]
    <3>1. Becomes(w, row)
      BY <1>4, TakeNumberDoes
    <3>2. HasNext(w)
      OBVIOUS
    <3>3. row.at \in {"open", "starting", "publishing"} => row.next # <<>>
      BY <1>4, <3>2 DEF HasNext, TakeNumber
    <3> HIDE DEF row
    <3>4. QED
      BY <3>1, <3>3, HasNextStays
  <2>3. QED
    BY <1>1, <1>4, <2>1, <2>2 DEF TakeNumber, TransactionsOK
<1>5. CASE FlushRow(w)
  <2>1. TransactionsOK /\ numberLock' = Released(w, numberLock) /\ writeLock' = w
    BY <1>5, FlushRowDoes
  <2>2. \A v \in Writers : HasNext(v)'
    <3> DEFINE row == [at |-> writer[w].at, todo |-> Tail(writer[w].todo),
                      rows |-> writer[w].rows \union {Head(writer[w].todo)},
                      next |-> writer[w].next, from |-> writer[w].from,
                      run |-> writer[w].run]
    <3>1. Becomes(w, row)
      BY <1>5, FlushRowDoes
    <3>2. HasNext(w)
      OBVIOUS
    <3>3. row.at \in {"open", "starting", "publishing"} => row.next # <<>>
      BY <1>5, <3>2 DEF HasNext, FlushRow
    <3> HIDE DEF row
    <3>4. QED
      BY <3>1, <3>3, HasNextStays
  <2>3. QED
    BY <1>1, <1>2, <1>5, <2>1, <2>2 DEF FlushRow, TransactionsOK
<1>6. CASE CommitRows(w)
  <2>1. writer[w].next # <<>>
    BY <1>6 DEF CommitRows, HasNext
  <2>2. TransactionsOK /\ truth' \in Truth
    BY <1>6, <2>1, CommitRowsDoes
  <2>3. \A v \in Writers : HasNext(v)'
    <3> DEFINE row == [at |-> "settled", todo |-> <<>>, rows |-> writer[w].rows,
                      next |-> <<>>, from |-> <<>>, run |-> writer[w].run]
    <3>1. Becomes(w, row)
      BY <1>6, <2>1, CommitRowsDoes
    <3>2. HasNext(w)
      OBVIOUS
    <3>3. row.at \in {"open", "starting", "publishing"} => row.next # <<>>
      BY <1>6, <3>2 DEF HasNext, CommitRows
    <3> HIDE DEF row
    <3>4. QED
      BY <3>1, <3>3, HasNextStays
  <2>4. astray' \subseteq Mishaps
    BY <1>6 DEF CommitRows, Mishaps
  <2>5. QED
    BY <1>1, <1>6, <2>2, <2>3, <2>4 DEF CommitRows, TransactionsOK
<1>7. CASE CommitEvents(w)
  <2>1. TransactionsOK /\ log' = log \union writer[w].rows /\ writeLock' = Released(w, writeLock)
    BY <1>7, CommitEventsDoes
  <2>2. \A v \in Writers : HasNext(v)'
    BY <1>7, CommitEventsDoes DEF HasNext, Becomes, Idle
  <2>3. log' \subseteq Events /\ IsFiniteSet(log')
    BY <2>1, TransactionIs, FS_Union
  <2>4. QED
    BY <1>1, <1>2, <1>7, <2>1, <2>2, <2>3 DEF CommitEvents, TransactionsOK
<1>8. CASE CommitStartEvents(w)
  <2>1. TransactionsOK /\ log' = log \union writer[w].rows /\ writeLock' = Released(w, writeLock)
    BY <1>8, CommitStartEventsDoes
  <2>2. \A v \in Writers : HasNext(v)'
    <3> DEFINE row == [at |-> "publishing", todo |-> <<>>, rows |-> {},
                      next |-> writer[w].next, from |-> writer[w].from,
                      run |-> writer[w].run]
    <3>1. Becomes(w, row)
      BY <1>8, CommitStartEventsDoes
    <3>2. HasNext(w)
      OBVIOUS
    <3>3. row.at \in {"open", "starting", "publishing"} => row.next # <<>>
      BY <1>8, <3>2 DEF HasNext, CommitStartEvents
    <3> HIDE DEF row
    <3>4. QED
      BY <3>1, <3>3, HasNextStays
  <2>3. log' \subseteq Events /\ IsFiniteSet(log')
    BY <2>1, TransactionIs, FS_Union
  <2>4. QED
    BY <1>1, <1>2, <1>8, <2>1, <2>2, <2>3 DEF CommitStartEvents, TransactionsOK
<1>9. CASE Publish(w)
  <2>1. writer[w].next # <<>>
    BY <1>9 DEF Publish, HasNext
  <2>2. TransactionsOK /\ truth' \in Truth /\ hidden' \subseteq Runs
    BY <1>9, <2>1, PublishDoes
  <2>3. \A v \in Writers : HasNext(v)'
    BY <1>9, <2>1, PublishDoes DEF HasNext, Becomes, Idle
  <2>4. QED
    BY <1>1, <1>9, <2>2, <2>3 DEF Publish, TransactionsOK
<1>10. CASE Undo(w) /\ UNCHANGED <<truth, highWater>> /\ left' \in {left, left - 1}
            /\ astray' \in {astray, astray \union {"lost"}}
            /\ (left' = left \/ left > 0) /\ log' \subseteq log
  <2>1. /\ TransactionsOK /\ hidden' \subseteq Runs
        /\ numberLock' = Released(w, numberLock) /\ writeLock' = Released(w, writeLock)
    BY <1>10, UndoDoes
  <2>2. \A v \in Writers : HasNext(v)'
    BY <1>10, UndoDoes DEF HasNext, Becomes, Idle
  <2>3. log' \subseteq Events /\ IsFiniteSet(log')
    BY <1>10, FS_Subset
  <2>4. left' \in Nat /\ astray' \subseteq Mishaps
    BY <1>10 DEF Mishaps
  <2>5. QED
    BY <1>1, <1>2, <1>10, <2>1, <2>2, <2>3, <2>4 DEF TransactionsOK
<1>11. CASE BusyTimeout(w)
  BY <1>10, <1>11 DEF BusyTimeout
<1>12. CASE RollBack(w)
  BY <1>10, <1>12 DEF RollBack, Disturb
<1>13. CASE AbortStart(w)
  BY <1>10, <1>13 DEF AbortStart, Disturb
<1>14. QED
  BY <1>3, <1>4, <1>5, <1>6, <1>7, <1>8, <1>9, <1>11, <1>12, <1>13 DEF WriterStep, Proceed

Crashing ==
  /\ writer' = [w \in Writers |-> Idle] /\ highWater' = 0
  /\ numberLock' = Nobody /\ writeLock' = Nobody /\ stream' = Closed
  /\ UNCHANGED <<truth, hidden, log, page>>

\* What the steps of the stream and of the page do.
Following ==
  Serve \/ OpenPage \/ Refetch \/ DropConnection

LEMMA FollowingLeaves == Following => UNCHANGED serverVars
  BY DEF Following, Serve, ReadHidden, ReadBatch, SendNext, Refetched, Reconnect, OpenPage,
         Refetch, DropConnection, serverVars

LEMMA StreamIs ==
  ASSUME EventStreamTypeOK
  PROVE  /\ stream.open \in BOOLEAN /\ stream.cursor \in Nat /\ stream.hidden \in SUBSET Runs
         /\ stream.batch \in SUBSET Events /\ stream.reading \in BOOLEAN
         /\ page.view \in View \union {<<>>} /\ page.seen \in SUBSET Nat
         /\ page.skipped \in SUBSET Nat /\ page.reply \in Seq(Reply)
  BY DEF EventStreamTypeOK

\* The lowest of the batch is sent or passed over.
LEMMA SendNextDoes ==
  ASSUME EventStreamTypeOK, page.view # <<>>, SendNext
  PROVE  \E e \in stream.batch :
           /\ \A f \in stream.batch : e.index <= f.index
           /\ stream' = [stream EXCEPT !.cursor = e.index, !.batch = @ \ {e}]
           /\ stream'.open /\ stream'.cursor = e.index /\ stream'.batch = stream.batch \ {e}
           /\ page'.view \in View /\ page'.reply = page.reply
           /\ page'.seen = IF e.run \in stream.hidden THEN page.seen
                           ELSE page.seen \union {e.index}
           /\ page'.skipped = IF e.run \in stream.hidden THEN page.skipped \union {e.index}
                              ELSE page.skipped
           /\ astray' = IF e.run \notin stream.hidden /\ (e.run \in hidden \/ e \notin log)
                        THEN astray \union {"leaked"} ELSE astray
           /\ page' \in [view : View \union {<<>>}, seen : SUBSET Nat, skipped : SUBSET Nat,
                         reply : Seq(Reply)]
<1>1. PICK e \in stream.batch :
        /\ stream.open /\ \A f \in stream.batch : e.index <= f.index
        /\ stream' = [stream EXCEPT !.cursor = e.index, !.batch = @ \ {e}]
        /\ page' = IF e.run \in stream.hidden
                   THEN [page EXCEPT !.skipped = @ \union {e.index}]
                   ELSE [page EXCEPT !.view = Apply(page.view, e), !.seen = @ \union {e.index}]
        /\ astray' = IF e.run \notin stream.hidden /\ (e.run \in hidden \/ e \notin log)
                     THEN astray \union {"leaked"} ELSE astray
  BY DEF SendNext
<1>2. e \in Events /\ page.view \in View
  BY StreamIs
<1>3. e.index \in Nat
  BY <1>2 DEF Events, RunEvents, RequestEvents
<1>4. Apply(page.view, e) \in View
  BY <1>2, ApplyIs
<1>5. page \in [view : View \union {<<>>}, seen : SUBSET Nat, skipped : SUBSET Nat,
                reply : Seq(Reply)]
  BY DEF EventStreamTypeOK
<1>6. /\ page'.view \in View /\ page'.reply = page.reply
      /\ page'.seen = IF e.run \in stream.hidden THEN page.seen
                           ELSE page.seen \union {e.index}
      /\ page'.skipped = IF e.run \in stream.hidden THEN page.skipped \union {e.index}
                              ELSE page.skipped
  <2>1. CASE e.run \in stream.hidden
    BY <1>1, <1>2, <1>5, <2>1
  <2>2. CASE e.run \notin stream.hidden
    BY <1>1, <1>4, <1>5, <2>2
  <2>3. QED
    BY <2>1, <2>2
<1>7. page' \in [view : View \union {<<>>}, seen : SUBSET Nat, skipped : SUBSET Nat,
                 reply : Seq(Reply)]
  <2>1. CASE e.run \in stream.hidden
    BY <1>1, <1>3, <1>5, <2>1
  <2>2. CASE e.run \notin stream.hidden
    BY <1>1, <1>3, <1>4, <1>5, <2>2
  <2>3. QED
    BY <2>1, <2>2
<1>8. stream'.open /\ stream'.cursor = e.index /\ stream'.batch = stream.batch \ {e}
  BY <1>1 DEF EventStreamTypeOK
<1>9. QED
  BY <1>1, <1>6, <1>7, <1>8

\* A view is a record, never the empty tuple of a page that is not there.
LEMMA ViewIsThere ==
  ASSUME NEW view \in View
  PROVE  view # <<>>
<1>1. "runs" \in DOMAIN view
  BY DEF View
<1>2. DOMAIN <<>> = {}
  OBVIOUS
<1>3. QED
  BY <1>1, <1>2

LEMMA PageWith ==
  ASSUME NEW Views, NEW Replies,
         NEW p \in [view : Views, seen : SUBSET Nat, skipped : SUBSET Nat, reply : Replies],
         NEW v \in Views, NEW r \in Replies, NEW q, q = [p EXCEPT !.view = v, !.reply = r]
  PROVE  /\ q \in [view : Views, seen : SUBSET Nat, skipped : SUBSET Nat, reply : Replies]
         /\ q.view = v /\ q.seen = p.seen
  OBVIOUS

LEMMA FollowingTyped ==
  ASSUME EventStreamTypeOK, Following
  PROVE  EventStreamTypeOK'
<1> DEFINE Streams == [open : BOOLEAN, cursor : Nat, hidden : SUBSET Runs,
                       batch : SUBSET Events, reading : BOOLEAN]
           Pages == [view : View \union {<<>>}, seen : SUBSET Nat, skipped : SUBSET Nat,
                     reply : Seq(Reply)]
<1>1. UNCHANGED serverVars
  BY FollowingLeaves
<1>2. SUFFICES /\ stream' \in Streams /\ page' \in Pages /\ IsFiniteSet(page'.seen)
               /\ stream'.open => page'.view # <<>>
               /\ left' \in Nat /\ astray' \subseteq Mishaps
  <2>1. \A w \in Writers : HasNext(w)'
    BY <1>1 DEF EventStreamTypeOK, HasNext, serverVars
  <2>2. QED
    BY <1>1, <2>1 DEF EventStreamTypeOK, serverVars, OpenTo
<1>3. /\ stream \in Streams /\ page \in Pages /\ IsFiniteSet(page.seen)
      /\ stream.open => page.view # <<>>
      /\ left \in Nat /\ astray \subseteq Mishaps /\ hidden \subseteq Runs
  BY DEF EventStreamTypeOK, OpenTo
<1>4. CASE ReadHidden
  BY <1>3, <1>4 DEF ReadHidden
<1>5. CASE ReadBatch
  <2>1. ListAfter(stream.cursor) \subseteq Events
    BY DEF ListAfter, After, EventStreamTypeOK
  <2>2. QED
    BY <1>3, <1>5, <2>1 DEF ReadBatch
<1>6. CASE SendNext
  <2>1. stream.open
    BY <1>6 DEF SendNext
  <2>2. PICK e \in stream.batch :
           /\ stream' = [stream EXCEPT !.cursor = e.index, !.batch = @ \ {e}]
           /\ page'.view \in View /\ page' \in Pages
           /\ page'.seen = IF e.run \in stream.hidden THEN page.seen
                           ELSE page.seen \union {e.index}
           /\ astray' = IF e.run \notin stream.hidden /\ (e.run \in hidden \/ e \notin log)
                        THEN astray \union {"leaked"} ELSE astray
    BY <1>3, <1>6, <2>1, SendNextDoes
  <2>3. e.index \in Nat
    BY StreamIs DEF Events, RunEvents, RequestEvents
  <2>4. stream' \in Streams
    BY <1>3, <2>2, <2>3
  <2>5. IsFiniteSet(page'.seen)
    <3>1. IsFiniteSet(page.seen \union {e.index})
      BY <1>3, FS_AddElement
    <3>2. QED
      BY <1>3, <2>2, <3>1
  <2>6. page'.view # <<>>
    BY <2>2, ViewIsThere
  <2>7. QED
    BY <1>3, <1>6, <2>2, <2>4, <2>5, <2>6 DEF SendNext, Mishaps
<1>7. CASE Refetched
  <2>1. Head(page.reply).view \in View
    <3>1. Head(page.reply) \in Reply
      BY <1>7, StreamIs, HeadTailProperties DEF Refetched
    <3>2. QED
      BY <3>1 DEF Reply
  <2>2. page' = [page EXCEPT !.view = Head(page.reply).view, !.reply = <<>>]
    BY <1>7 DEF Refetched
  <2>3. page' \in Pages /\ page'.view # <<>> /\ page'.seen = page.seen
    <3> DEFINE view == Head(page.reply).view
    <3>1. view # <<>>
      BY <2>1, ViewIsThere
    <3>2. page' = [page EXCEPT !.view = view, !.reply = <<>>] /\ view \in View
      BY <2>1, <2>2
    <3>3. <<>> \in Seq(Reply) /\ view \in View \union {<<>>}
      BY <3>2
    <3> HIDE DEF view
    <3>4. page' \in Pages /\ page'.view = view /\ page'.seen = page.seen
      BY <1>3, <3>2, <3>3, PageWith
    <3>5. QED
      BY <3>1, <3>4
  <2>4. QED
    BY <1>3, <1>7, <2>3 DEF Refetched, Mishaps
<1>8. CASE Reconnect
  <2>1. AfterCursor \in Nat
    BY <1>3, HighestIs DEF AfterCursor
  <2>2. QED
    BY <1>3, <1>8, <2>1 DEF Reconnect, Closed
<1>9. CASE OpenPage
  <2>1. Snapshot \in View
    BY SnapshotIs
  <2>2. Snapshot # <<>>
    BY <2>1, ViewIsThere
  <2>3. page' \in Pages /\ page'.view # <<>> /\ page'.seen = {}
    <3>1. page' = [view |-> Snapshot, seen |-> {}, skipped |-> {}, reply |-> <<>>]
      BY <1>9, Zenon DEF OpenPage, NoPage
    <3>2. QED
      BY <2>1, <2>2, <3>1
  <2>4. stream' \in Streams
    BY <1>9 DEF OpenPage, Closed
  <2>5. IsFiniteSet(page'.seen)
    BY <2>3, FS_EmptySet
  <2>6. QED
    BY <1>3, <1>9, <2>3, <2>4, <2>5 DEF OpenPage
<1>10. CASE Refetch
  <2>1. [view |-> Snapshot, seen |-> page.seen] \in Reply
    BY <1>3, SnapshotIs DEF Reply
  <2>2. page' \in Pages /\ page'.view = page.view /\ page'.seen = page.seen
    BY <1>3, <1>10, <2>1 DEF Refetch
  <2>3. QED
    BY <1>3, <1>10, <2>2 DEF Refetch, Disturb
<1>11. CASE DropConnection
  BY <1>3, <1>11 DEF DropConnection, Closed, Disturb
<1>12. QED
  BY <1>4, <1>5, <1>6, <1>7, <1>8, <1>9, <1>10, <1>11 DEF Following, Serve

LEMMA CrashTyped ==
  ASSUME EventStreamTypeOK, Crash
  PROVE  EventStreamTypeOK'
<1>1. Crashing /\ left' \in Nat /\ astray' \subseteq Mishaps
  BY DEF Crash, Crashing, Disturb, EventStreamTypeOK, Mishaps
<1>2. writer' \in [Writers -> Transaction]
      /\ \A w \in Writers : IsFiniteSet(writer'[w].rows) /\ HasNext(w)'
  BY <1>1, IdleIs DEF Crashing, HasNext, Idle
<1>3. stream' \in [open : BOOLEAN, cursor : Nat, hidden : SUBSET Runs, batch : SUBSET Events,
                   reading : BOOLEAN] /\ ~stream'.open
  BY <1>1 DEF Crashing, Closed
<1>4. QED
  BY <1>1, <1>2, <1>3 DEF Crashing, EventStreamTypeOK, OpenTo

\* Every variable keeps to its type: a number is taken by one command at a time, a
\* row is of a run and carries what its type may say, and every view the page is
\* given, by a snapshot or by the reducer, is a view of the session's runs.
THEOREM StreamTyped == Spec => []EventStreamTypeOK
<1>1. EventStreamTypeOK /\ [Next]_vars => EventStreamTypeOK'
  <2> SUFFICES ASSUME EventStreamTypeOK, [Next]_vars PROVE EventStreamTypeOK'
    OBVIOUS
  <2>1. CASE \E w \in Writers : WriterStep(w)
    BY <2>1, WriterStepTyped
  <2>2. CASE Following
    BY <2>2, FollowingTyped
  <2>3. CASE Crash
    BY <2>3, CrashTyped
  <2>4. CASE UNCHANGED vars
    BY <2>4 DEF vars, EventStreamTypeOK, HasNext, OpenTo
  <2>5. QED
    BY <2>1, <2>2, <2>3, <2>4 DEF Next, Following
<1>2. QED
  BY <1>1, InitTyped, PTL DEF Spec

-----------------------------------------------------------------------------
(* The order of the numbers                                                 *)

\* The sequence lock is held by the command whose next row has its number, the write
\* lock by the one that has flushed rows; a command numbers one row at a time.
OwnLocks(c, w, sequence, write) ==
  /\ c.todo # <<>> /\ Head(c.todo).index # 0 => sequence = w
  /\ c.rows # {} => write = w
  /\ \A i \in 2 .. Len(c.todo) : c.todo[i].index = 0
  /\ c.at \in {"idle", "settled", "publishing"} => c.todo = <<>>
  /\ c.at \in {"idle", "publishing"} => c.rows = {}

LockInv == \A w \in Writers : OwnLocks(writer[w], w, numberLock, writeLock)

Numbered(w) == writer[w].todo # <<>> /\ Head(writer[w].todo).index # 0
Number(w) == Head(writer[w].todo).index

\* What is flushed is above what is committed, and what has its number and is not
\* flushed is above both.
RowsAbove(w) ==
  \A g \in writer[w].rows :
    /\ 0 < g.index /\ g.index <= highWater
    /\ \A e \in log : e.index < g.index
    /\ \A f \in writer[w].rows : f.index = g.index => f = g

NumberAbove(w) ==
  Numbered(w) =>
    /\ Number(w) <= highWater
    /\ \A e \in log : e.index < Number(w)
    /\ \A v \in Writers : \A g \in writer[v].rows : g.index < Number(w)

NumberInv ==
  /\ \A e \in log : 0 < e.index
  /\ \A e, f \in log : e.index = f.index => e = f
  /\ \A w \in Writers : RowsAbove(w) /\ NumberAbove(w)

LEMMA IndexIs == \A e \in Events : e.index \in Nat
  BY DEF Events, RunEvents, RequestEvents

LEMMA LocksKept ==
  ASSUME LockInv, NEW w \in Writers, NEW row, Becomes(w, row),
         OwnLocks(row, w, numberLock', writeLock'),
         \A v \in Writers \ {w} : /\ numberLock = v => numberLock' = v
                                  /\ writeLock = v => writeLock' = v
  PROVE  LockInv'
<1>1. ASSUME NEW v \in Writers
      PROVE  OwnLocks(writer'[v], v, numberLock', writeLock')
  <2>1. CASE v = w
    BY <2>1 DEF Becomes
  <2>2. CASE v # w
    <3>1. OwnLocks(writer[v], v, numberLock, writeLock)
      BY DEF LockInv
    <3>2. writer'[v] = writer[v]
      BY <2>2 DEF Becomes
    <3>3. /\ numberLock = v => numberLock' = v
          /\ writeLock = v => writeLock' = v
      BY <2>2
    <3> DEFINE c == writer[v]
    <3>4. OwnLocks(c, v, numberLock', writeLock')
      <4> HIDE DEF c
      <4> QED BY <3>1, <3>3 DEF OwnLocks, c
    <3>5. QED
      BY <3>2, <3>4
  <2>3. QED
    BY <2>1, <2>2
<1>2. QED
  BY <1>1 DEF LockInv

LEMMA IdleLocks ==
  \A w \in Writers : \A sequence, write : OwnLocks(Idle, w, sequence, write)
  BY DEF Idle, OwnLocks

LEMMA UndoLocks ==
  ASSUME EventStreamTypeOK, LockInv, NEW w \in Writers, Becomes(w, Idle),
         numberLock' \in {numberLock, Released(w, numberLock)},
         writeLock' \in {writeLock, Released(w, writeLock)}
  PROVE  LockInv'
<1>1. \A v \in Writers \ {w} : /\ numberLock = v => numberLock' = v
                               /\ writeLock = v => writeLock' = v
  BY DEF Released
<1>2. QED
  BY <1>1, IdleLocks, LocksKept

LEMMA WriterStepLocks ==
  ASSUME EventStreamTypeOK, LockInv, NEW w \in Writers, WriterStep(w)
  PROVE  LockInv'
<1>1. OwnLocks(writer[w], w, numberLock, writeLock)
  BY DEF LockInv
<1>2. CASE Begin(w)
  <2>1. PICK c \in Commands(w) :
           /\ Becomes(w, [at |-> IF c \in StartFirstRun THEN "starting" ELSE "open",
                          todo |-> c.events, rows |-> {}, next |-> <<c.next>>,
                          from |-> <<truth>>, run |-> c.run])
           /\ Prepared(c)
    BY <1>2, BeginDoes
  <2> DEFINE row == [at |-> IF c \in StartFirstRun THEN "starting" ELSE "open",
                     todo |-> c.events, rows |-> {}, next |-> <<c.next>>,
                     from |-> <<truth>>, run |-> c.run]
  <2>2. /\ row.at \in {"starting", "open"} /\ row.rows = {} /\ row.todo = c.events
        /\ c.events \in Seq(Events) /\ \A i \in DOMAIN c.events : c.events[i].index = 0
    BY <2>1 DEF Prepared, Unnumbered0
  <2>3. UNCHANGED <<numberLock, writeLock>>
    BY <1>2 DEF Begin
  <2>4. OwnLocks(row, w, numberLock', writeLock')
    <3> HIDE DEF row
    <3>1. row.todo # <<>> => Head(row.todo).index = 0
      BY <2>2
    <3>2. \A i \in 2 .. Len(row.todo) : row.todo[i].index = 0
      BY <2>2
    <3>3. row.at \notin {"idle", "settled", "publishing"}
      BY <2>2
    <3>4. row.rows = {}
      BY <2>2
    <3>5. QED
      BY <3>1, <3>2, <3>3, <3>4 DEF OwnLocks
  <2>5. QED
    <3>1. Becomes(w, row)
      BY <2>1
    <3> HIDE DEF row
    <3>2. QED
      BY <2>3, <2>4, <3>1, LocksKept
<1>3. CASE TakeNumber(w)
  <2> DEFINE todo == writer[w].todo
             n == NextIndex(w)
             row == [at |-> writer[w].at, todo |-> Numbering(todo, n),
                     rows |-> writer[w].rows, next |-> writer[w].next,
                     from |-> writer[w].from, run |-> writer[w].run]
  <2>1. /\ todo # <<>> /\ numberLock = Nobody /\ numberLock' = w /\ Becomes(w, row)
        /\ writeLock' = writeLock
    BY <1>3, TakeNumberDoes DEF TakeNumber
  <2>2. todo \in Seq(Events) /\ n \in Nat
    BY TransactionIs, NextIndexIs
  <2>3. /\ Len(Numbering(todo, n)) = Len(todo)
        /\ \A i \in 2 .. Len(todo) : Numbering(todo, n)[i] = todo[i]
    BY <2>1, <2>2, NumberingIs
  <2>4. OwnLocks(row, w, numberLock', writeLock')
    <3>1. writer[w].at \notin {"idle", "settled", "publishing"}
      BY <1>1, <2>1 DEF OwnLocks
    <3>2. \A i \in 2 .. Len(Numbering(todo, n)) : Numbering(todo, n)[i].index = 0
      BY <1>1, <2>3 DEF OwnLocks
    <3>3. /\ row.at = writer[w].at /\ row.todo = Numbering(todo, n)
          /\ row.rows = writer[w].rows
      OBVIOUS
    <3>4. writer[w].rows # {} => writeLock' = w
      BY <1>1, <2>1 DEF OwnLocks
    <3> HIDE DEF row
    <3>5. QED
      BY <2>1, <3>1, <3>2, <3>3, <3>4 DEF OwnLocks
  <2>5. \A v \in Writers \ {w} : numberLock # v
    BY <2>1, EventStreamAssumption
  <2>6. QED
    <3> HIDE DEF row
    <3> QED BY <2>1, <2>4, <2>5, LocksKept
<1>4. CASE FlushRow(w)
  <2> DEFINE todo == writer[w].todo
             row == [at |-> writer[w].at, todo |-> Tail(todo),
                     rows |-> writer[w].rows \union {Head(todo)},
                     next |-> writer[w].next, from |-> writer[w].from,
                     run |-> writer[w].run]
  <2>1. /\ todo # <<>> /\ writeLock \in {Nobody, w} /\ writeLock' = w
        /\ numberLock' = Released(w, numberLock) /\ Becomes(w, row)
    BY <1>4, FlushRowDoes
  <2>2. todo \in Seq(Events)
    BY TransactionIs
  <2>3. Len(Tail(todo)) = Len(todo) - 1 /\ \A i \in 1 .. Len(Tail(todo)) : Tail(todo)[i] = todo[i + 1]
    BY <2>1, <2>2, HeadTailProperties
  <2>4. \A i \in 1 .. Len(Tail(todo)) : Tail(todo)[i].index = 0
    BY <1>1, <2>2, <2>3 DEF OwnLocks
  <2>5. Tail(todo) \in Seq(Events)
    BY <2>1, <2>2, HeadTailProperties
  <2>6. Tail(todo) # <<>> => Head(Tail(todo)).index = 0
    <3> DEFINE rest == Tail(todo)
    <3>1. rest \in Seq(Events) /\ \A i \in 1 .. Len(rest) : rest[i].index = 0
      BY <2>4, <2>5
    <3> HIDE DEF rest
    <3>2. rest # <<>> => Head(rest).index = 0
      BY <3>1
    <3>3. QED
      BY <3>2 DEF rest
  <2>7. OwnLocks(row, w, numberLock', writeLock')
    <3>1. writer[w].at \notin {"idle", "settled", "publishing"}
      BY <1>1, <2>1 DEF OwnLocks
    <3>2. row.at = writer[w].at /\ row.todo = Tail(todo)
      OBVIOUS
    <3> HIDE DEF row
    <3>3. QED
      BY <2>1, <2>4, <2>5, <2>6, <3>1, <3>2 DEF OwnLocks
  <2>8. \A v \in Writers \ {w} : writeLock # v /\ (numberLock = v => numberLock' = v)
    BY <2>1, EventStreamAssumption DEF Released
  <2>9. QED
    <3> HIDE DEF row
    <3> QED BY <2>1, <2>7, <2>8, LocksKept
<1>5. CASE CommitRows(w)
  <2> DEFINE row == [at |-> "settled", todo |-> <<>>, rows |-> writer[w].rows,
                     next |-> <<>>, from |-> <<>>, run |-> writer[w].run]
  <2>1. writer[w].next # <<>>
    BY <1>5 DEF EventStreamTypeOK, HasNext, CommitRows
  <2>2. Becomes(w, row) /\ UNCHANGED <<numberLock, writeLock>>
    BY <1>5, <2>1, CommitRowsDoes DEF CommitRows
  <2>3. OwnLocks(row, w, numberLock', writeLock')
    BY <1>1, <2>2 DEF OwnLocks
  <2>4. QED
    <3> HIDE DEF row
    <3> QED BY <2>2, <2>3, LocksKept
<1>6. CASE CommitEvents(w)
  BY <1>6, CommitEventsDoes, UndoLocks DEF CommitEvents
<1>7. CASE CommitStartEvents(w)
  <2> DEFINE row == [at |-> "publishing", todo |-> <<>>, rows |-> {},
                     next |-> writer[w].next, from |-> writer[w].from,
                     run |-> writer[w].run]
  <2>1. Becomes(w, row) /\ numberLock' = numberLock /\ writeLock' = Released(w, writeLock)
    BY <1>7, CommitStartEventsDoes DEF CommitStartEvents
  <2>2. OwnLocks(row, w, numberLock', writeLock')
    BY DEF OwnLocks
  <2>3. \A v \in Writers \ {w} : writeLock = v => writeLock' = v
    BY <2>1 DEF Released
  <2>4. QED
    <3> HIDE DEF row
    <3> QED BY <2>1, <2>2, <2>3, LocksKept
<1>8. CASE Publish(w)
  <2>1. writer[w].next # <<>>
    BY <1>8 DEF EventStreamTypeOK, HasNext, Publish
  <2>2. QED
    BY <1>8, <2>1, PublishDoes, UndoLocks DEF Publish
<1>9. CASE Undo(w)
  BY <1>9, UndoDoes, UndoLocks
<1>10. QED
  BY <1>2, <1>3, <1>4, <1>5, <1>6, <1>7, <1>8, <1>9
  DEF WriterStep, Proceed, BusyTimeout, RollBack, AbortStart

LEMMA LocksInductive ==
  /\ Init => LockInv
  /\ EventStreamTypeOK /\ LockInv /\ [Next]_vars => LockInv'
<1>1. Init => LockInv
  BY IdleLocks DEF Init, LockInv
<1>2. ASSUME EventStreamTypeOK, LockInv, [Next]_vars
      PROVE  LockInv'
  <2>1. CASE \E w \in Writers : WriterStep(w)
    BY <1>2, <2>1, WriterStepLocks
  <2>2. CASE Following
    BY <1>2, <2>2, FollowingLeaves DEF serverVars, LockInv
  <2>3. CASE Crash
    BY <2>3, IdleLocks DEF Crash, LockInv
  <2>4. CASE UNCHANGED vars
    BY <1>2, <2>4 DEF vars, LockInv
  <2>5. QED
    BY <1>2, <2>1, <2>2, <2>3, <2>4 DEF Next, Following
<1>3. QED
  BY <1>1, <1>2

\* The numbers that are there are numbers.
LEMMA NumbersAre ==
  ASSUME EventStreamTypeOK
  PROVE  /\ highWater \in Nat
         /\ \A e \in log : e.index \in Nat
         /\ \A w \in Writers : \A g \in writer[w].rows : g.index \in Nat
         /\ \A w \in Writers : writer[w].todo # <<>> => Number(w) \in Nat
<1>1. \A w \in Writers : writer[w].todo # <<>> => Head(writer[w].todo) \in Events
  BY TransactionIs, HeadTailProperties
<1>2. \A w \in Writers : \A g \in writer[w].rows : g \in Events
  BY TransactionIs
<1>3. QED
  BY <1>1, <1>2, IndexIs DEF Number, EventStreamTypeOK

\* Only one row at a time has its number and is not flushed, and only one command has
\* flushed rows.
LEMMA OneAtATime ==
  ASSUME LockInv
  PROVE  /\ \A v, w \in Writers : Numbered(v) /\ Numbered(w) => v = w
         /\ \A v, w \in Writers : writer[v].rows # {} /\ writer[w].rows # {} => v = w
  BY DEF LockInv, OwnLocks, Numbered

\* A step that numbers nothing and flushes nothing keeps the order, though rows of w
\* go and rows of the log are deleted.
LEMMA OrderKept ==
  ASSUME NumberInv, NEW w \in Writers, NEW row, Becomes(w, row),
         row.rows \subseteq writer[w].rows,
         row.todo = <<>> \/ Head(row.todo).index = 0,
         log' \subseteq log, highWater' = highWater
  PROVE  NumberInv'
<1>1. \A v \in Writers : /\ writer'[v].rows \subseteq writer[v].rows
                         /\ Numbered(v)' => Numbered(v) /\ Number(v)' = Number(v)
  BY DEF Becomes, Numbered, Number
<1>2. ASSUME NEW v \in Writers
      PROVE  RowsAbove(v)'
  <2>1. RowsAbove(v) /\ writer'[v].rows \subseteq writer[v].rows
    BY <1>1 DEF NumberInv
  <2>2. QED
    BY <2>1 DEF RowsAbove
<1>3. ASSUME NEW v \in Writers
      PROVE  NumberAbove(v)'
  <2>1. NumberAbove(v) /\ (Numbered(v)' => Numbered(v) /\ Number(v)' = Number(v))
    BY <1>1 DEF NumberInv
  <2>2. QED
    BY <1>1, <2>1 DEF NumberAbove
<1>4. QED
  BY <1>2, <1>3 DEF NumberInv

\* The rows of one command join the log: they are the only ones that are flushed, and
\* what has its number is above them.
LEMMA CommitKeepsOrder ==
  ASSUME EventStreamTypeOK, LockInv, NumberInv, NEW w \in Writers, NEW row, Becomes(w, row),
         row.rows = {}, row.todo = <<>>,
         log' = log \union writer[w].rows, highWater' = highWater
  PROVE  NumberInv' /\ InOrder
<1>1. \A v \in Writers : /\ writer'[v].rows \subseteq writer[v].rows
                         /\ writer[w].rows # {} => writer'[v].rows = {}
                         /\ Numbered(v)' => Numbered(v) /\ Number(v)' = Number(v)
  BY OneAtATime DEF Becomes, Numbered, Number
<1>2. InOrder
  <2>1. \A e \in log' \ log, f \in log : f.index < e.index
    BY DEF NumberInv, RowsAbove
  <2>2. \A e, f \in log' : e.index = f.index => e = f
    <3>1. \A e \in log, g \in writer[w].rows : e.index # g.index
      BY NumbersAre DEF NumberInv, RowsAbove
    <3>2. QED
      BY <3>1 DEF NumberInv, RowsAbove
  <2>3. QED
    BY <2>1, <2>2 DEF InOrder
<1>3. ASSUME NEW v \in Writers
      PROVE  RowsAbove(v)'
  <2>1. RowsAbove(v) /\ writer'[v].rows \subseteq writer[v].rows
    BY <1>1 DEF NumberInv
  <2>2. CASE writer[w].rows = {}
    BY <2>1, <2>2 DEF RowsAbove
  <2>3. CASE writer[w].rows # {}
    BY <1>1, <2>3 DEF RowsAbove
  <2>4. QED
    BY <2>2, <2>3
<1>4. ASSUME NEW v \in Writers
      PROVE  NumberAbove(v)'
  <2>1. NumberAbove(v) /\ (Numbered(v)' => Numbered(v) /\ Number(v)' = Number(v))
    BY <1>1 DEF NumberInv
  <2>2. Numbered(v) => \A e \in log' : e.index < Number(v)
    BY <2>1 DEF NumberAbove
  <2>3. QED
    BY <1>1, <2>1, <2>2 DEF NumberAbove
<1>5. \A e \in log' : 0 < e.index
  BY DEF NumberInv, RowsAbove
<1>6. QED
  BY <1>2, <1>3, <1>4, <1>5 DEF NumberInv, InOrder

LEMMA TakeNumberKeepsOrder ==
  ASSUME EventStreamTypeOK, LockInv, NumberInv, NEW w \in Writers, TakeNumber(w)
  PROVE  NumberInv'
<1> DEFINE n == NextIndex(w)
           todo == writer[w].todo
           row == [at |-> writer[w].at, todo |-> Numbering(todo, n),
                   rows |-> writer[w].rows, next |-> writer[w].next,
                   from |-> writer[w].from, run |-> writer[w].run]
<1>1. /\ todo # <<>> /\ numberLock = Nobody /\ Becomes(w, row) /\ highWater' = n
      /\ log' = log
  BY TakeNumberDoes DEF TakeNumber
<1>2. /\ n \in Nat /\ n > highWater /\ highWater \in Nat
      /\ \A e \in log : e.index < n
  BY NextIndexIs, NumbersAre
<1>3. Numbering(todo, n) # <<>> /\ Head(Numbering(todo, n)).index = n
  BY <1>1, <1>2, TransactionIs, NumberingIs
<1>4. /\ \A v \in Writers : writer'[v].rows = writer[v].rows
      /\ Number(w)' = n
  BY <1>1, <1>3 DEF Becomes, Number
<1>5. \A v \in Writers : v # w => ~Numbered(v)'
  <2>1. \A v \in Writers : ~Numbered(v)
    BY <1>1, EventStreamAssumption DEF LockInv, OwnLocks, Numbered
  <2>2. QED
    BY <1>1, <2>1 DEF Becomes, Numbered
<1> HIDE DEF n, row
<1>6. \A v \in Writers : \A g \in writer[v].rows : g.index < n
  BY <1>2, NumbersAre DEF NumberInv, RowsAbove
<1>7. \A v \in Writers : RowsAbove(v)'
  BY <1>1, <1>2, <1>4, NumbersAre DEF NumberInv, RowsAbove
<1>8. \A v \in Writers : NumberAbove(v)'
  BY <1>1, <1>2, <1>4, <1>5, <1>6 DEF NumberAbove
<1>9. QED
  BY <1>1, <1>7, <1>8 DEF NumberInv

LEMMA FlushRowKeepsOrder ==
  ASSUME EventStreamTypeOK, LockInv, NumberInv, NEW w \in Writers, FlushRow(w)
  PROVE  NumberInv'
<1> DEFINE todo == writer[w].todo
           row == [at |-> writer[w].at, todo |-> Tail(todo),
                   rows |-> writer[w].rows \union {Head(todo)},
                   next |-> writer[w].next, from |-> writer[w].from,
                   run |-> writer[w].run]
<1>1. /\ todo # <<>> /\ Numbered(w) /\ Becomes(w, row) /\ highWater' = highWater /\ log' = log
  BY FlushRowDoes DEF FlushRow, Numbered
<1>2. writer'[w].rows = writer[w].rows \union {Head(todo)} /\ Head(todo).index = Number(w)
      /\ \A v \in Writers : v # w => writer'[v].rows = writer[v].rows
  BY <1>1 DEF Becomes, Number
<1>3. \A v \in Writers : ~Numbered(v)'
  <2>1. ~Numbered(w)'
    <3>1. LockInv'
      BY WriterStepLocks DEF WriterStep, Proceed
    <3>2. numberLock' # w
      BY FlushRowDoes, EventStreamAssumption DEF Released
    <3>3. QED
      BY <3>1, <3>2 DEF LockInv, OwnLocks, Numbered
  <2>2. \A v \in Writers : v # w => ~Numbered(v)
    BY <1>1, OneAtATime
  <2>3. QED
    BY <1>1, <2>1, <2>2 DEF Becomes, Numbered
<1> HIDE DEF row
<1>4. /\ Number(w) \in Nat /\ 0 < Number(w) /\ Number(w) <= highWater
      /\ \A e \in log : e.index < Number(w)
      /\ \A v \in Writers : \A g \in writer[v].rows : g.index < Number(w)
  <2>1. Number(w) \in Nat
    BY <1>1, NumbersAre
  <2>2. QED
    BY <1>1, <2>1 DEF NumberInv, NumberAbove, Numbered, Number
<1>5. RowsAbove(w)'
  <2>1. ASSUME NEW g \in writer'[w].rows
        PROVE  /\ 0 < g.index /\ g.index <= highWater
               /\ \A e \in log : e.index < g.index
               /\ \A f \in writer'[w].rows : f.index = g.index => f = g
    <3>1. CASE g \in writer[w].rows
      <4>1. g.index # Head(todo).index
        BY <1>2, <1>4, <3>1, NumbersAre
      <4>2. RowsAbove(w)
        BY DEF NumberInv
      <4>3. QED
        BY <1>2, <3>1, <4>1, <4>2 DEF RowsAbove
    <3>2. CASE g = Head(todo)
      <4>1. \A f \in writer[w].rows : f.index # g.index
        BY <1>2, <1>4, <3>2, NumbersAre
      <4>2. QED
        BY <1>2, <1>4, <3>2, <4>1
    <3>3. QED
      BY <1>2, <3>1, <3>2
  <2>2. QED
    BY <1>1, <2>1 DEF RowsAbove
<1>6. \A v \in Writers : v # w => RowsAbove(v)'
  BY <1>1, <1>2 DEF NumberInv, RowsAbove
<1>7. QED
  BY <1>1, <1>3, <1>5, <1>6 DEF NumberInv, NumberAbove

\* No step but a commit brings an event to the log.
LEMMA NothingNew ==
  ASSUME log' \subseteq log, NumberInv
  PROVE  InOrder
  BY DEF InOrder, NumberInv

LEMMA WriterStepOrder ==
  ASSUME EventStreamTypeOK, LockInv, NumberInv, NEW w \in Writers, WriterStep(w)
  PROVE  NumberInv' /\ InOrder
<1>1. OwnLocks(writer[w], w, numberLock, writeLock)
  BY DEF LockInv
<1>2. CASE Begin(w)
  <2>1. PICK c \in Commands(w) :
           /\ Becomes(w, [at |-> IF c \in StartFirstRun THEN "starting" ELSE "open",
                          todo |-> c.events, rows |-> {}, next |-> <<c.next>>,
                          from |-> <<truth>>, run |-> c.run])
           /\ Prepared(c)
    BY <1>2, BeginDoes
  <2> DEFINE row == [at |-> IF c \in StartFirstRun THEN "starting" ELSE "open",
                     todo |-> c.events, rows |-> {}, next |-> <<c.next>>,
                     from |-> <<truth>>, run |-> c.run]
  <2>2. c.events # <<>> => Head(c.events).index = 0
    BY <2>1 DEF Prepared, Unnumbered0
  <2>3. /\ Becomes(w, row) /\ row.rows \subseteq writer[w].rows
        /\ row.todo = <<>> \/ Head(row.todo).index = 0
    BY <2>1, <2>2
  <2>4. log' = log /\ highWater' = highWater
    BY <1>2 DEF Begin
  <2> HIDE DEF row
  <2>5. QED
    BY <2>3, <2>4, OrderKept, NothingNew
<1>3. CASE TakeNumber(w)
  <2>1. log' = log
    BY <1>3 DEF TakeNumber
  <2>2. QED
    BY <1>3, <2>1, TakeNumberKeepsOrder, NothingNew
<1>4. CASE FlushRow(w)
  <2>1. log' = log
    BY <1>4 DEF FlushRow
  <2>2. QED
    BY <1>4, <2>1, FlushRowKeepsOrder, NothingNew
<1>5. CASE CommitRows(w)
  <2> DEFINE row == [at |-> "settled", todo |-> <<>>, rows |-> writer[w].rows,
                     next |-> <<>>, from |-> <<>>, run |-> writer[w].run]
  <2>1. writer[w].next # <<>>
    BY <1>5 DEF EventStreamTypeOK, HasNext, CommitRows
  <2>2. Becomes(w, row) /\ log' = log /\ highWater' = highWater
    BY <1>5, <2>1, CommitRowsDoes DEF CommitRows
  <2>3. row.rows \subseteq writer[w].rows /\ row.todo = <<>>
    OBVIOUS
  <2> HIDE DEF row
  <2>4. QED
    BY <2>2, <2>3, OrderKept, NothingNew
<1>6. CASE CommitEvents(w)
  <2>1. /\ Becomes(w, Idle) /\ log' = log \union writer[w].rows /\ highWater' = highWater
    BY <1>6, CommitEventsDoes DEF CommitEvents
  <2>2. Idle.rows = {} /\ Idle.todo = <<>>
    BY DEF Idle
  <2>3. QED
    BY <2>1, <2>2, CommitKeepsOrder
<1>7. CASE CommitStartEvents(w)
  <2> DEFINE row == [at |-> "publishing", todo |-> <<>>, rows |-> {},
                     next |-> writer[w].next, from |-> writer[w].from,
                     run |-> writer[w].run]
  <2>1. /\ Becomes(w, row) /\ log' = log \union writer[w].rows /\ highWater' = highWater
    BY <1>7, CommitStartEventsDoes DEF CommitStartEvents
  <2>2. row.rows = {} /\ row.todo = <<>>
    OBVIOUS
  <2> HIDE DEF row
  <2>3. QED
    BY <2>1, <2>2, CommitKeepsOrder
<1>8. ASSUME Becomes(w, Idle), log' \subseteq log, highWater' = highWater
      PROVE  NumberInv' /\ InOrder
  <2>1. Idle.rows \subseteq writer[w].rows /\ Idle.todo = <<>>
    BY DEF Idle
  <2>2. QED
    BY <1>8, <2>1, OrderKept, NothingNew
<1>9. CASE Publish(w)
  <2>1. writer[w].next # <<>>
    BY <1>9 DEF EventStreamTypeOK, HasNext, Publish
  <2>2. Becomes(w, Idle) /\ log' = log /\ highWater' = highWater
    BY <1>9, <2>1, PublishDoes DEF Publish
  <2>3. QED
    BY <1>8, <2>2
<1>10. CASE BusyTimeout(w) \/ RollBack(w) \/ AbortStart(w)
  <2>1. Undo(w) /\ log' \subseteq log /\ highWater' = highWater
    BY <1>10 DEF BusyTimeout, RollBack, AbortStart
  <2>2. QED
    BY <1>8, <2>1, UndoDoes
<1>11. QED
  BY <1>2, <1>3, <1>4, <1>5, <1>6, <1>7, <1>9, <1>10 DEF WriterStep, Proceed

LEMMA OrderStep ==
  ASSUME EventStreamTypeOK, LockInv, NumberInv, [Next]_vars
  PROVE  NumberInv' /\ InOrder
<1>1. CASE \E w \in Writers : WriterStep(w)
  BY <1>1, WriterStepOrder
<1>2. CASE UNCHANGED serverVars
  BY <1>2, NothingNew
  DEF serverVars, NumberInv, RowsAbove, NumberAbove, Numbered, Number
<1>3. CASE Crash
  <2>1. log' = log /\ \A w \in Writers : writer'[w] = Idle
    BY <1>3 DEF Crash
  <2>2. \A w \in Writers : RowsAbove(w)' /\ NumberAbove(w)'
    BY <2>1 DEF RowsAbove, NumberAbove, Numbered, Idle
  <2>3. QED
    BY <2>1, <2>2, NothingNew DEF NumberInv
<1>4. QED
  <2>1. Following => UNCHANGED serverVars
    BY FollowingLeaves
  <2>2. UNCHANGED vars => UNCHANGED serverVars
    BY DEF vars, serverVars
  <2>3. QED
    BY <1>1, <1>2, <1>3, <2>1, <2>2 DEF Next, Following

OrderInv == EventStreamTypeOK /\ LockInv /\ NumberInv

LEMMA OrderAlways == Spec => []OrderInv
<1>1. Init => OrderInv
  <2>1. Init => NumberInv
    BY DEF Init, NumberInv, RowsAbove, NumberAbove, Numbered, Idle
  <2>2. QED
    BY <2>1, InitTyped, LocksInductive DEF OrderInv
<1>2. OrderInv /\ [Next]_vars => LockInv' /\ NumberInv'
  BY LocksInductive, OrderStep DEF OrderInv
<1>3. QED
  BY <1>1, <1>2, StreamTyped, PTL DEF Spec, OrderInv

\* The order of the commits is the order of the numbers, for any number of commands
\* that append at a time: the write lock parts those that have flushed, and the
\* number that is taken under the sequence lock is above what each of them flushed.
THEOREM OrderIsKept == Spec => CommittedInOrder
<1>1. OrderInv /\ [Next]_vars => [InOrder]_vars
  BY OrderStep DEF OrderInv
<1>2. QED
  BY <1>1, OrderAlways, PTL DEF Spec, CommittedInOrder

-----------------------------------------------------------------------------
(* A start is alone, and what it commits is hidden                          *)

Starter(w) == writer[w].at \in {"starting", "publishing"}

\* The events of a start are of its run, and no other command is under way: the log
\* holds nothing when it begins and nothing but its events when it is published.
OwnEvents(w) ==
  /\ \A g \in writer[w].rows : g.run = writer[w].run
  /\ \A i \in DOMAIN writer[w].todo : writer[w].todo[i].run = writer[w].run

StartsHidden(w) ==
  Starter(w) => writer[w].run \in hidden /\ truth.current = NoRun /\ OwnEvents(w)
RunIsCurrent(w) == writer[w].at \in {"open", "settled"} => truth.current # NoRun
LeavesCurrent(w) ==
  writer[w].at \in {"open", "starting", "publishing"} => Head(writer[w].next).current # NoRun
LogOfStart(w) ==
  /\ writer[w].at = "starting" => log = {}
  /\ writer[w].at = "publishing" => \A e \in log : e.index <= highWater
Draft == truth.current = NoRun => \A e \in log : e.run \in hidden

StartInv ==
  /\ \A v, w \in Writers : Starter(v) /\ Starter(w) => v = w
  /\ \A w \in Writers : /\ StartsHidden(w) /\ RunIsCurrent(w) /\ LeavesCurrent(w)
                        /\ LogOfStart(w)
  /\ Draft

\* A command that is under way in a session with a current run is no start.
LEMMA NoStarters ==
  ASSUME StartInv, truth.current # NoRun
  PROVE  \A w \in Writers : ~Starter(w)
  BY DEF StartInv, StartsHidden

LEMMA OnlyStarter ==
  ASSUME EventStreamTypeOK, StartInv, NEW w \in Writers, Starter(w)
  PROVE  \A v \in Writers : v # w => writer[v].at = "idle"
<1>1. truth.current = NoRun /\ \A v \in Writers : v # w => ~Starter(v)
  BY DEF StartInv, StartsHidden
<1>2. \A v \in Writers : writer[v].at \in Places
  BY TransactionIs
<1>3. QED
  BY <1>1, <1>2 DEF StartInv, RunIsCurrent, Starter, Places

\* Once the session has a current run, a step that leaves it one keeps StartInv if the
\* command is no start afterwards.
LEMMA StartKeptCurrent ==
  ASSUME StartInv, NEW w \in Writers, NEW row, Becomes(w, row),
         truth.current # NoRun, truth'.current # NoRun,
         row.at \notin {"starting", "publishing"},
         row.at = "open" => Head(row.next).current # NoRun
  PROVE  StartInv'
<1>1. \A v \in Writers : ~Starter(v)
  BY NoStarters
<1>2. \A v \in Writers : ~Starter(v)'
  BY <1>1 DEF Starter, Becomes
<1>3. \A v \in Writers : LeavesCurrent(v)'
  BY <1>1, <1>2 DEF StartInv, LeavesCurrent, Becomes, Starter
<1>4. QED
  BY <1>2, <1>3 DEF StartInv, StartsHidden, RunIsCurrent, LogOfStart, Draft, Starter

\* The step of a start, while all others are idle.
LEMMA StartKeptStart ==
  ASSUME NEW w \in Writers,
         \A v \in Writers : v # w => writer'[v].at = "idle",
         StartsHidden(w)', RunIsCurrent(w)', LeavesCurrent(w)', LogOfStart(w)', Draft'
  PROVE  StartInv'
  BY DEF StartInv, Starter, StartsHidden, RunIsCurrent, LeavesCurrent, LogOfStart

\* A command ends by itself while the session has no current run: its start is undone.
LEMMA StartKeptUndone ==
  ASSUME EventStreamTypeOK, StartInv, NEW w \in Writers, Becomes(w, Idle),
         writer[w].at # "idle", truth.current # NoRun => truth'.current # NoRun,
         truth'.current = NoRun => \A e \in log' : e.run \in hidden'
  PROVE  StartInv'
<1>1. writer'[w].at = "idle"
  BY DEF Becomes, Idle
<1>2. CASE truth.current # NoRun
  <2>1. Idle.at = "idle"
    BY DEF Idle
  <2>2. QED
    BY <1>2, <2>1, StartKeptCurrent
<1>3. CASE truth.current = NoRun
  <2>1. Starter(w)
    <3>1. writer[w].at \in Places
      BY TransactionIs
    <3>2. QED
      BY <1>3, <3>1 DEF StartInv, RunIsCurrent, Starter, Places
  <2>2. \A v \in Writers : writer'[v].at = "idle"
    BY <1>1, <2>1, OnlyStarter DEF Becomes
  <2>3. QED
    BY <2>2, StartKeptStart
    DEF StartsHidden, RunIsCurrent, LeavesCurrent, LogOfStart, Draft, Starter
<1>4. QED
  BY <1>2, <1>3

\* A start that appends: the row it makes of its transaction is still of its run.
LEMMA StartKeptAppending ==
  ASSUME EventStreamTypeOK, LockInv, StartInv, NEW w \in Writers, NEW row, Becomes(w, row),
         writer[w].todo # <<>>, row.at = writer[w].at, row.next = writer[w].next,
         row.run = writer[w].run,
         OwnEvents(w) => /\ \A g \in row.rows : g.run = row.run
                         /\ \A i \in DOMAIN row.todo : row.todo[i].run = row.run,
         UNCHANGED <<truth, hidden, log>>
  PROVE  StartInv'
<1>1. writer[w].at \in {"open", "starting"}
  BY TransactionIs DEF LockInv, OwnLocks, Places
<1>2. StartsHidden(w) /\ RunIsCurrent(w) /\ LeavesCurrent(w) /\ LogOfStart(w) /\ Draft
  BY DEF StartInv
<1>3. CASE writer[w].at = "open"
  BY <1>2, <1>3, StartKeptCurrent DEF RunIsCurrent, LeavesCurrent
<1>4. CASE writer[w].at = "starting"
  <2>1. \A v \in Writers : v # w => writer'[v].at = "idle"
    BY <1>4, OnlyStarter DEF Becomes, Starter
  <2>2. writer'[w] = row
    BY DEF Becomes
  <2>3. StartsHidden(w)'
    BY <1>2, <1>4, <2>2 DEF StartsHidden, Starter, OwnEvents
  <2>4. RunIsCurrent(w)' /\ LeavesCurrent(w)' /\ LogOfStart(w)' /\ Draft'
    BY <1>2, <1>4, <2>2 DEF RunIsCurrent, LeavesCurrent, LogOfStart, Draft
  <2>5. QED
    BY <2>1, <2>3, <2>4, StartKeptStart
<1>5. QED
  BY <1>1, <1>3, <1>4

LEMMA WriterStepStart ==
  ASSUME EventStreamTypeOK, LockInv, NumberInv, StartInv, NEW w \in Writers, WriterStep(w)
  PROVE  StartInv'
<1>1. /\ StartsHidden(w) /\ RunIsCurrent(w) /\ LeavesCurrent(w) /\ LogOfStart(w) /\ Draft
      /\ OwnLocks(writer[w], w, numberLock, writeLock)
  BY DEF StartInv, LockInv
<1>2. CASE Begin(w)
  <2>1. PICK c \in Commands(w) :
           /\ Becomes(w, [at |-> IF c \in StartFirstRun THEN "starting" ELSE "open",
                          todo |-> c.events, rows |-> {}, next |-> <<c.next>>,
                          from |-> <<truth>>, run |-> c.run])
           /\ Prepared(c) /\ (c \notin StartFirstRun => truth.current # NoRun)
           /\ hidden' = IF c \in StartFirstRun THEN hidden \union {c.run} ELSE hidden
    BY <1>2, BeginDoes
  <2> DEFINE row == [at |-> IF c \in StartFirstRun THEN "starting" ELSE "open",
                     todo |-> c.events, rows |-> {}, next |-> <<c.next>>,
                     from |-> <<truth>>, run |-> c.run]
  <2>2. UNCHANGED <<truth, log>>
    BY <1>2 DEF Begin
  <2>3. /\ Becomes(w, row) /\ row.rows = {} /\ row.todo = c.events /\ row.run = c.run
        /\ Head(row.next).current # NoRun
        /\ row.at = IF c \in StartFirstRun THEN "starting" ELSE "open"
    BY <2>1 DEF Prepared
  <2> HIDE DEF row
  <2>4. CASE c \notin StartFirstRun
    BY <2>1, <2>2, <2>3, <2>4, StartKeptCurrent
  <2>5. CASE c \in StartFirstRun
    <3>1. /\ truth.current = NoRun /\ hidden = {}
          /\ \A i \in DOMAIN c.events : c.events[i].run = c.run
      BY <2>5, StartIs
    <3>2. \A v \in Writers : writer[v].at = "idle"
      <4>1. \A v \in Writers : writer[v].at \in Places
        BY TransactionIs
      <4>2. QED
        BY <3>1, <4>1 DEF StartInv, StartsHidden, RunIsCurrent, Starter, Places
    <3>3. log = {}
      BY <1>1, <3>1 DEF Draft
    <3>4. writer'[w] = row /\ \A v \in Writers : v # w => writer'[v].at = "idle"
      BY <2>3, <3>2 DEF Becomes
    <3>5. StartsHidden(w)'
      BY <2>1, <2>2, <2>3, <2>5, <3>1, <3>4 DEF StartsHidden, OwnEvents
    <3>6. RunIsCurrent(w)' /\ LeavesCurrent(w)' /\ LogOfStart(w)' /\ Draft'
      BY <2>2, <2>3, <2>5, <3>3, <3>4 DEF RunIsCurrent, LeavesCurrent, LogOfStart, Draft
    <3>7. QED
      BY <3>4, <3>5, <3>6, StartKeptStart
  <2>6. QED
    BY <2>4, <2>5
<1>3. CASE TakeNumber(w)
  <2> DEFINE todo == writer[w].todo
             n == NextIndex(w)
             row == [at |-> writer[w].at, todo |-> Numbering(todo, n),
                     rows |-> writer[w].rows, next |-> writer[w].next,
                     from |-> writer[w].from, run |-> writer[w].run]
  <2>1. todo # <<>> /\ Becomes(w, row) /\ UNCHANGED <<truth, hidden, log>>
    BY <1>3, TakeNumberDoes DEF TakeNumber
  <2>2. /\ todo \in Seq(Events) /\ Numbering(todo, n) \in Seq(Events)
        /\ Len(Numbering(todo, n)) = Len(todo)
        /\ Head(Numbering(todo, n)).run = Head(todo).run
        /\ \A i \in 2 .. Len(todo) : Numbering(todo, n)[i] = todo[i]
    BY <2>1, TransactionIs, NextIndexIs, NumberingIs
  <2>3. ASSUME NEW i \in DOMAIN Numbering(todo, n), OwnEvents(w)
        PROVE  Numbering(todo, n)[i].run = writer[w].run
    <3>1. i \in 1 .. Len(todo) /\ todo[i].run = writer[w].run
      BY <2>2, <2>3 DEF OwnEvents
    <3>2. Numbering(todo, n)[1].run = todo[1].run
      <4>1. Head(Numbering(todo, n)) = Numbering(todo, n)[1] /\ Head(todo) = todo[1]
        BY <2>1, <2>2
      <4>2. QED
        BY <2>2, <4>1
    <3>3. CASE i = 1
      BY <3>1, <3>2, <3>3
    <3>4. CASE i # 1
      BY <2>2, <3>1, <3>4
    <3>5. QED
      BY <3>3, <3>4
  <2>4. /\ row.at = writer[w].at /\ row.next = writer[w].next /\ row.run = writer[w].run
        /\ row.rows = writer[w].rows /\ row.todo = Numbering(todo, n)
    OBVIOUS
  <2> HIDE DEF row
  <2>5. OwnEvents(w) => /\ \A g \in row.rows : g.run = row.run
                        /\ \A i \in DOMAIN row.todo : row.todo[i].run = row.run
    BY <2>3, <2>4 DEF OwnEvents
  <2>6. QED
    BY <2>1, <2>4, <2>5, StartKeptAppending
<1>4. CASE FlushRow(w)
  <2> DEFINE todo == writer[w].todo
             row == [at |-> writer[w].at, todo |-> Tail(todo),
                     rows |-> writer[w].rows \union {Head(todo)},
                     next |-> writer[w].next, from |-> writer[w].from,
                     run |-> writer[w].run]
  <2>1. todo # <<>> /\ Becomes(w, row) /\ UNCHANGED <<truth, hidden, log>>
    BY <1>4, FlushRowDoes DEF FlushRow
  <2>2. todo \in Seq(Events)
    BY TransactionIs
  <2>3. /\ Tail(todo) \in Seq(Events) /\ Len(Tail(todo)) = Len(todo) - 1
        /\ \A i \in 1 .. Len(Tail(todo)) : Tail(todo)[i] = todo[i + 1]
    BY <2>1, <2>2, HeadTailProperties
  <2>4. OwnEvents(w) => \A i \in DOMAIN Tail(todo) : Tail(todo)[i].run = writer[w].run
    <3>1. DOMAIN Tail(todo) = 1 .. Len(Tail(todo)) /\ DOMAIN todo = 1 .. Len(todo)
          /\ Len(todo) \in Nat
      BY <2>2, <2>3
    <3>2. \A i \in DOMAIN Tail(todo) : i + 1 \in DOMAIN todo
      BY <2>3, <3>1
    <3>3. QED
      BY <2>3, <3>1, <3>2 DEF OwnEvents
  <2>5. OwnEvents(w) => Head(todo).run = writer[w].run
    <3>1. Head(todo) = todo[1] /\ 1 \in DOMAIN todo
      BY <2>1, <2>2
    <3>2. QED
      BY <3>1 DEF OwnEvents
  <2>6. /\ row.at = writer[w].at /\ row.next = writer[w].next /\ row.run = writer[w].run
        /\ row.rows = writer[w].rows \union {Head(todo)} /\ row.todo = Tail(todo)
    OBVIOUS
  <2> HIDE DEF row
  <2>7. OwnEvents(w) => /\ \A g \in row.rows : g.run = row.run
                        /\ \A i \in DOMAIN row.todo : row.todo[i].run = row.run
    BY <2>4, <2>5, <2>6 DEF OwnEvents
  <2>8. QED
    BY <2>1, <2>6, <2>7, StartKeptAppending
<1>5. CASE CommitRows(w)
  <2> DEFINE row == [at |-> "settled", todo |-> <<>>, rows |-> writer[w].rows,
                     next |-> <<>>, from |-> <<>>, run |-> writer[w].run]
  <2>1. writer[w].next # <<>>
    BY <1>5 DEF EventStreamTypeOK, HasNext, CommitRows
  <2>2. /\ writer[w].at = "open" /\ Becomes(w, row)
        /\ truth'.current = Head(writer[w].next).current
    BY <1>5, <2>1, CommitRowsDoes
  <2>3. truth.current # NoRun /\ truth'.current # NoRun
    BY <1>1, <2>2 DEF RunIsCurrent, LeavesCurrent
  <2>4. row.at = "settled"
    OBVIOUS
  <2> HIDE DEF row
  <2>5. QED
    BY <2>2, <2>3, <2>4, StartKeptCurrent
<1>6. CASE CommitEvents(w)
  <2>1. writer[w].at = "settled" /\ Becomes(w, Idle) /\ truth' = truth
    BY <1>6, CommitEventsDoes DEF CommitEvents
  <2>2. truth.current # NoRun
    BY <1>1, <2>1 DEF RunIsCurrent
  <2>3. Idle.at = "idle"
    BY DEF Idle
  <2>4. QED
    BY <2>1, <2>2, <2>3, StartKeptCurrent
<1>7. CASE CommitStartEvents(w)
  <2> DEFINE row == [at |-> "publishing", todo |-> <<>>, rows |-> {},
                     next |-> writer[w].next, from |-> writer[w].from,
                     run |-> writer[w].run]
  <2>1. /\ writer[w].at = "starting" /\ Becomes(w, row) /\ log' = log \union writer[w].rows
        /\ UNCHANGED <<truth, hidden, highWater>>
    BY <1>7, CommitStartEventsDoes DEF CommitStartEvents
  <2>2. /\ row.at = "publishing" /\ row.todo = <<>> /\ row.rows = {}
        /\ row.next = writer[w].next /\ row.run = writer[w].run
    OBVIOUS
  <2> HIDE DEF row
  <2>3. writer'[w] = row /\ \A v \in Writers : v # w => writer'[v].at = "idle"
    BY <2>1, OnlyStarter DEF Becomes, Starter
  <2>4. /\ log' = writer[w].rows /\ truth.current = NoRun /\ writer[w].run \in hidden
        /\ \A g \in writer[w].rows : g.run = writer[w].run
    BY <1>1, <2>1 DEF LogOfStart, StartsHidden, Starter, OwnEvents
  <2>5. StartsHidden(w)'
    <3>1. OwnEvents(w)'
      BY <2>2, <2>3 DEF OwnEvents
    <3>2. QED
      BY <2>1, <2>2, <2>3, <2>4, <3>1 DEF StartsHidden
  <2>6. LeavesCurrent(w)' /\ RunIsCurrent(w)'
    BY <1>1, <2>1, <2>2, <2>3 DEF LeavesCurrent, RunIsCurrent
  <2>7. LogOfStart(w)'
    <3>1. RowsAbove(w)
      BY DEF NumberInv
    <3>2. QED
      BY <2>1, <2>2, <2>3, <2>4, <3>1 DEF LogOfStart, RowsAbove
  <2>8. Draft'
    BY <2>1, <2>4 DEF Draft
  <2>9. QED
    BY <2>3, <2>5, <2>6, <2>7, <2>8, StartKeptStart
<1>8. CASE Publish(w)
  <2>1. writer[w].next # <<>>
    BY <1>8 DEF EventStreamTypeOK, HasNext, Publish
  <2>2. /\ writer[w].at = "publishing" /\ Becomes(w, Idle)
        /\ truth' = Head(writer[w].next)
    BY <1>8, <2>1, PublishDoes
  <2>3. truth'.current # NoRun
    BY <1>1, <2>2 DEF LeavesCurrent
  <2>4. QED
    BY <2>2, <2>3, StartKeptUndone
<1>9. CASE BusyTimeout(w) \/ RollBack(w) \/ AbortStart(w)
  <2>1. /\ Undo(w) /\ truth' = truth
        /\ log' = log \/ (writer[w].at = "publishing" /\ log' = {e \in log : e.run # writer[w].run})
    BY <1>9 DEF BusyTimeout, RollBack, AbortStart
  <2>2. \/ writer[w].at \in {"open", "starting", "settled"}
        \/ writer[w].at = "publishing" /\ AbortStart(w)
    <3>1. writer[w].at \in Places
      BY TransactionIs
    <3>2. QED
      BY <1>1, <1>9, <3>1 DEF BusyTimeout, RollBack, AbortStart, OwnLocks, Places
  <2>3. /\ Becomes(w, Idle)
        /\ hidden' = IF writer[w].at \in {"starting", "publishing"}
                     THEN hidden \ {writer[w].run} ELSE hidden
    BY <2>1, UndoDoes
  <2>4. truth'.current = NoRun => \A e \in log' : e.run \in hidden'
    <3>1. CASE writer[w].at \in {"open", "settled"}
      BY <1>1, <2>1, <3>1 DEF RunIsCurrent
    <3>2. CASE writer[w].at = "starting"
      BY <1>1, <2>1, <3>2 DEF LogOfStart
    <3>3. CASE writer[w].at = "publishing" /\ AbortStart(w)
      <4>1. log' = {e \in log : e.run # writer[w].run}
        BY <3>3 DEF AbortStart
      <4>2. QED
        BY <1>1, <2>1, <2>3, <3>3, <4>1 DEF Draft
    <3>4. QED
      BY <2>2, <3>1, <3>2, <3>3
  <2>5. writer[w].at # "idle" /\ (truth.current # NoRun => truth'.current # NoRun)
    BY <2>1, <2>2
  <2>6. QED
    BY <2>3, <2>4, <2>5, StartKeptUndone
<1>10. QED
  BY <1>2, <1>3, <1>4, <1>5, <1>6, <1>7, <1>8, <1>9 DEF WriterStep, Proceed

LEMMA StartStep ==
  ASSUME EventStreamTypeOK, LockInv, NumberInv, StartInv, [Next]_vars
  PROVE  StartInv'
<1>1. CASE \E w \in Writers : WriterStep(w)
  BY <1>1, WriterStepStart
<1>2. CASE UNCHANGED serverVars
  BY <1>2 DEF serverVars, StartInv, StartsHidden, RunIsCurrent, LeavesCurrent, LogOfStart,
              Draft, Starter, OwnEvents
<1>3. CASE Crash
  <2>1. UNCHANGED <<truth, hidden, log>> /\ \A w \in Writers : writer'[w].at = "idle"
    BY <1>3 DEF Crash, Idle
  <2>2. QED
    BY <2>1 DEF StartInv, StartsHidden, RunIsCurrent, LeavesCurrent, LogOfStart, Draft, Starter
<1>4. QED
  <2>1. Following => UNCHANGED serverVars
    BY FollowingLeaves
  <2>2. UNCHANGED vars => UNCHANGED serverVars
    BY DEF vars, serverVars
  <2>3. QED
    BY <1>1, <1>2, <1>3, <2>1, <2>2 DEF Next, Following

-----------------------------------------------------------------------------
(* The stream                                                               *)

\* A number that was given, and below everything that is still to be committed.
Passed(i) == i <= highWater \/ \E e \in log : i <= e.index
Ahead(i) ==
  \A w \in Writers :
    /\ \A g \in writer[w].rows : i < g.index
    /\ Numbered(w) => i < Number(w)

\* What the page received stays committed and visible, and below it nothing is left out.
SeenKept ==
  /\ \A i \in page.seen : \E e \in log : e.index = i /\ e.run \notin hidden
  /\ \A e \in log, i \in page.seen :
       e.index <= i => e.index \in page.seen \union page.skipped

\* The cursor and what was read after it are below everything to come, what is behind
\* the cursor was shown or passed over, and the batch is whole up to each of its rows.
CursorKept ==
  /\ \A e \in log : e.index <= stream.cursor => e.index \in page.seen \union page.skipped
  /\ \A i \in Indices(stream.batch) \union {stream.cursor} :
       Passed(i) /\ Ahead(i) /\ stream.cursor <= i
  /\ \A f \in log, e \in stream.batch :
       stream.cursor < f.index /\ f.index <= e.index => f \in stream.batch

StreamInv ==
  "leaked" \notin astray => SeenKept /\ (stream.open => CursorKept)

\* What any step of a command may do to the log, to the numbers and to the rows.
LogMoves ==
  /\ \A e \in log' \ log : \E v \in Writers : e \in writer[v].rows
  /\ \A e \in log : e.run \notin hidden => e \in log' /\ e.run \notin hidden'
  /\ highWater <= highWater' /\ \A e \in log : e \in log' \/ e.index <= highWater
  /\ "leaked" \in astray' <=> "leaked" \in astray

RowMoves(v) ==
  /\ \A g \in writer'[v].rows :
       g \in writer[v].rows \/ (Numbered(v) /\ g.index = Number(v))
  /\ Numbered(v)' =>
       \/ Numbered(v) /\ Number(v)' = Number(v)
       \/ Number(v)' > highWater /\ \A e \in log : e.index < Number(v)'

LEMMA RowsMove ==
  ASSUME NEW w \in Writers, NEW row, Becomes(w, row),
         \A g \in row.rows : g \in writer[w].rows \/ (Numbered(w) /\ g.index = Number(w)),
         row.todo = <<>> \/ Head(row.todo).index = 0
  PROVE  \A v \in Writers : RowMoves(v)
<1>1. ASSUME NEW v \in Writers, v # w
      PROVE  RowMoves(v)
  <2>1. writer'[v] = writer[v]
    BY <1>1 DEF Becomes
  <2>2. QED
    BY <2>1 DEF RowMoves, Numbered, Number
<1>2. RowMoves(w)
  BY DEF RowMoves, Becomes, Numbered
<1>3. QED
  BY <1>1, <1>2

\* A command commits the rows it flushed and takes numbers above all that are there;
\* what is visible in the log stays.
LEMMA WriterStepMoves ==
  ASSUME EventStreamTypeOK, LockInv, NumberInv, StartInv, NEW w \in Writers, WriterStep(w)
  PROVE  LogMoves /\ \A v \in Writers : RowMoves(v)
<1>1. /\ StartsHidden(w) /\ RunIsCurrent(w) /\ LogOfStart(w) /\ Draft
      /\ OwnLocks(writer[w], w, numberLock, writeLock) /\ highWater \in Nat
  BY DEF StartInv, LockInv, EventStreamTypeOK
<1>2. CASE Begin(w)
  <2>1. PICK c \in Commands(w) :
           /\ Becomes(w, [at |-> IF c \in StartFirstRun THEN "starting" ELSE "open",
                          todo |-> c.events, rows |-> {}, next |-> <<c.next>>,
                          from |-> <<truth>>, run |-> c.run])
           /\ Prepared(c)
           /\ hidden' = IF c \in StartFirstRun THEN hidden \union {c.run} ELSE hidden
    BY <1>2, BeginDoes
  <2> DEFINE row == [at |-> IF c \in StartFirstRun THEN "starting" ELSE "open",
                     todo |-> c.events, rows |-> {}, next |-> <<c.next>>,
                     from |-> <<truth>>, run |-> c.run]
  <2>2. c.events # <<>> => Head(c.events).index = 0
    BY <2>1 DEF Prepared, Unnumbered0
  <2>3. Becomes(w, row) /\ row.rows = {} /\ (row.todo = <<>> \/ Head(row.todo).index = 0)
    BY <2>1, <2>2
  <2>4. UNCHANGED <<log, highWater, astray>>
    BY <1>2 DEF Begin
  <2>5. \A e \in log : e.run \notin hidden => e.run \notin hidden'
    <3>1. CASE c \notin StartFirstRun
      BY <2>1, <3>1
    <3>2. CASE c \in StartFirstRun
      <4>1. truth.current = NoRun /\ hidden = {}
        BY <3>2, StartIs
      <4>2. log = {}
        BY <1>1, <4>1 DEF Draft
      <4>3. QED
        BY <4>2
    <3>3. QED
      BY <3>1, <3>2
  <2>6. \A v \in Writers : RowMoves(v)
    <3> HIDE DEF row
    <3> QED BY <2>3, RowsMove
  <2>7. LogMoves
    BY <1>1, <2>4, <2>5 DEF LogMoves
  <2>8. QED
    BY <2>6, <2>7
<1>3. CASE TakeNumber(w)
  <2> DEFINE todo == writer[w].todo
             n == NextIndex(w)
             row == [at |-> writer[w].at, todo |-> Numbering(todo, n),
                     rows |-> writer[w].rows, next |-> writer[w].next,
                     from |-> writer[w].from, run |-> writer[w].run]
  <2>1. /\ todo # <<>> /\ Becomes(w, row) /\ highWater' = n
        /\ UNCHANGED <<log, hidden, astray>>
    BY <1>3, TakeNumberDoes DEF TakeNumber
  <2>2. n \in Nat /\ n > highWater /\ \A e \in log : e.index < n
    BY NextIndexIs
  <2>3. Head(Numbering(todo, n)).index = n
    BY <2>1, <2>2, TransactionIs, NumberingIs
  <2>4. row.rows = writer[w].rows /\ row.todo = Numbering(todo, n)
    OBVIOUS
  <2> HIDE DEF row
  <2>5. RowMoves(w)
    <3>1. writer'[w] = row
      BY <2>1 DEF Becomes
    <3> HIDE DEF n
    <3>2. Number(w)' = n
      BY <2>3, <2>4, <3>1 DEF Number
    <3>3. QED
      BY <2>2, <2>4, <3>1, <3>2 DEF RowMoves
  <2>6. ASSUME NEW v \in Writers, v # w
        PROVE  RowMoves(v)
    <3>1. writer'[v] = writer[v]
      BY <2>1, <2>6 DEF Becomes
    <3>2. QED
      BY <3>1 DEF RowMoves, Numbered, Number
  <2>7. LogMoves
    <3> HIDE DEF n
    <3> QED BY <1>1, <2>1, <2>2 DEF LogMoves
  <2>8. QED
    BY <2>5, <2>6, <2>7
<1>4. CASE FlushRow(w)
  <2> DEFINE todo == writer[w].todo
             row == [at |-> writer[w].at, todo |-> Tail(todo),
                     rows |-> writer[w].rows \union {Head(todo)},
                     next |-> writer[w].next, from |-> writer[w].from,
                     run |-> writer[w].run]
  <2>1. /\ todo # <<>> /\ Head(todo).index # 0 /\ Becomes(w, row)
        /\ UNCHANGED <<log, highWater, hidden, astray>>
    BY <1>4, FlushRowDoes DEF FlushRow
  <2>2. todo \in Seq(Events) /\ \A i \in 2 .. Len(todo) : todo[i].index = 0
    BY <1>1, TransactionIs DEF OwnLocks
  <2>3. Tail(todo) = <<>> \/ Head(Tail(todo)).index = 0
    <3>1. /\ Tail(todo) \in Seq(Events) /\ Len(Tail(todo)) = Len(todo) - 1
          /\ \A i \in 1 .. Len(Tail(todo)) : Tail(todo)[i] = todo[i + 1]
      BY <2>1, <2>2, HeadTailProperties
    <3>2. \A i \in 1 .. Len(Tail(todo)) : Tail(todo)[i].index = 0
      BY <2>2, <3>1
    <3> DEFINE rest == Tail(todo)
    <3>3. rest \in Seq(Events) /\ \A i \in 1 .. Len(rest) : rest[i].index = 0
      BY <3>1, <3>2
    <3> HIDE DEF rest
    <3>4. rest = <<>> \/ Head(rest).index = 0
      BY <3>3
    <3>5. QED
      BY <3>4 DEF rest
  <2>4. Numbered(w) /\ Head(todo).index = Number(w)
    BY <2>1 DEF Numbered, Number
  <2>5. row.rows = writer[w].rows \union {Head(todo)} /\ row.todo = Tail(todo)
    OBVIOUS
  <2> HIDE DEF row
  <2>6. \A v \in Writers : RowMoves(v)
    <3>1. \A g \in row.rows : g \in writer[w].rows \/ (Numbered(w) /\ g.index = Number(w))
      BY <2>4, <2>5
    <3>2. row.todo = <<>> \/ Head(row.todo).index = 0
      BY <2>3, <2>5
    <3>3. QED
      BY <2>1, <3>1, <3>2, RowsMove
  <2>7. LogMoves
    BY <1>1, <2>1 DEF LogMoves
  <2>8. QED
    BY <2>6, <2>7
<1>5. CASE CommitRows(w)
  <2> DEFINE row == [at |-> "settled", todo |-> <<>>, rows |-> writer[w].rows,
                     next |-> <<>>, from |-> <<>>, run |-> writer[w].run]
  <2>1. writer[w].next # <<>>
    BY <1>5 DEF EventStreamTypeOK, HasNext, CommitRows
  <2>2. /\ Becomes(w, row) /\ UNCHANGED <<log, highWater, hidden>>
        /\ astray' \in {astray, astray \union {"crossed"}}
    BY <1>5, <2>1, CommitRowsDoes DEF CommitRows
  <2>3. row.rows = writer[w].rows /\ row.todo = <<>>
    OBVIOUS
  <2> HIDE DEF row
  <2>4. \A v \in Writers : RowMoves(v)
    BY <2>2, <2>3, RowsMove
  <2>5. LogMoves
    BY <1>1, <2>2 DEF LogMoves
  <2>6. QED
    BY <2>4, <2>5
<1>6. Idle.rows = {} /\ Idle.todo = <<>>
  BY DEF Idle
<1>7. CASE CommitEvents(w)
  <2>1. /\ Becomes(w, Idle) /\ log' = log \union writer[w].rows
        /\ UNCHANGED <<highWater, hidden, astray>>
    BY <1>7, CommitEventsDoes DEF CommitEvents
  <2>2. \A v \in Writers : RowMoves(v)
    BY <1>6, <2>1, RowsMove
  <2>3. LogMoves
    BY <1>1, <2>1 DEF LogMoves
  <2>4. QED
    BY <2>2, <2>3
<1>8. CASE CommitStartEvents(w)
  <2> DEFINE row == [at |-> "publishing", todo |-> <<>>, rows |-> {},
                     next |-> writer[w].next, from |-> writer[w].from,
                     run |-> writer[w].run]
  <2>1. /\ Becomes(w, row) /\ log' = log \union writer[w].rows
        /\ UNCHANGED <<highWater, hidden, astray>>
    BY <1>8, CommitStartEventsDoes DEF CommitStartEvents
  <2>2. row.rows = {} /\ row.todo = <<>>
    OBVIOUS
  <2> HIDE DEF row
  <2>3. \A v \in Writers : RowMoves(v)
    BY <2>1, <2>2, RowsMove
  <2>4. LogMoves
    BY <1>1, <2>1 DEF LogMoves
  <2>5. QED
    BY <2>3, <2>4
<1>9. CASE Publish(w)
  <2>1. writer[w].next # <<>>
    BY <1>9 DEF EventStreamTypeOK, HasNext, Publish
  <2>2. /\ Becomes(w, Idle) /\ hidden' = hidden \ {writer[w].run}
        /\ UNCHANGED <<log, highWater, astray>>
    BY <1>9, <2>1, PublishDoes DEF Publish
  <2>3. \A v \in Writers : RowMoves(v)
    BY <1>6, <2>2, RowsMove
  <2>4. LogMoves
    BY <1>1, <2>2 DEF LogMoves
  <2>5. QED
    BY <2>3, <2>4
<1>10. CASE BusyTimeout(w) \/ RollBack(w) \/ AbortStart(w)
  <2>1. /\ Undo(w) /\ UNCHANGED highWater /\ astray' \in {astray, astray \union {"lost"}}
        /\ \/ log' = log
           \/ writer[w].at = "publishing" /\ log' = {e \in log : e.run # writer[w].run}
    BY <1>10 DEF BusyTimeout, RollBack, AbortStart
  <2>2. Becomes(w, Idle) /\ hidden' \subseteq hidden
    BY <2>1, UndoDoes
  <2>3. \A v \in Writers : RowMoves(v)
    BY <1>6, <2>2, RowsMove
  <2>4. writer[w].at = "publishing" => writer[w].run \in hidden /\ \A e \in log : e.index <= highWater
    BY <1>1 DEF StartsHidden, Starter, LogOfStart
  <2>5. LogMoves
    BY <1>1, <2>1, <2>2, <2>4 DEF LogMoves
  <2>6. QED
    BY <2>3, <2>5
<1>11. QED
  BY <1>2, <1>3, <1>4, <1>5, <1>7, <1>8, <1>9, <1>10 DEF WriterStep, Proceed

LEMMA WriterStepStream ==
  ASSUME EventStreamTypeOK, LockInv, NumberInv, StartInv, StreamInv,
         NEW w \in Writers, WriterStep(w)
  PROVE  StreamInv'
<1>1. LogMoves /\ \A v \in Writers : RowMoves(v)
  BY WriterStepMoves
<1>2. stream' = stream /\ page' = page
  BY WriterStepLeaves DEF clientVars
<1>3. SUFFICES ASSUME "leaked" \notin astray
               PROVE  SeenKept' /\ (stream.open => CursorKept')
  BY <1>1, <1>2 DEF StreamInv, LogMoves
<1>4. SeenKept /\ (stream.open => CursorKept)
  BY <1>3 DEF StreamInv
<1>5. /\ highWater \in Nat /\ highWater' \in Nat
      /\ \A e \in log \union log' : e.index \in Nat
      /\ \A v \in Writers : \A g \in writer[v].rows \union writer'[v].rows : g.index \in Nat
      /\ \A v \in Writers : /\ Numbered(v) => Number(v) \in Nat
                            /\ Numbered(v)' => Number(v)' \in Nat
      /\ page.seen \in SUBSET Nat /\ stream.cursor \in Nat
      /\ Indices(stream.batch) \subseteq Nat /\ \A e \in stream.batch : e.index \in Nat
  <2>1. EventStreamTypeOK'
    BY WriterStepTyped
  <2>2. /\ highWater' \in Nat
        /\ \A e \in log' : e.index \in Nat
        /\ \A v \in Writers : \A g \in writer'[v].rows : g.index \in Nat
        /\ \A v \in Writers : writer'[v].todo # <<>> => Number(v)' \in Nat
    <3>1. \A v \in Writers : writer'[v] \in Transaction
      BY <2>1 DEF EventStreamTypeOK
    <3>2. \A v \in Writers : writer'[v].todo \in Seq(Events) /\ writer'[v].rows \in SUBSET Events
      BY <3>1 DEF Transaction
    <3>3. \A v \in Writers : writer'[v].todo # <<>> => Head(writer'[v].todo) \in Events
      BY <3>2, HeadTailProperties
    <3>4. QED
      BY <2>1, <3>2, <3>3, IndexIs DEF Number, EventStreamTypeOK
  <2>3. \A e \in stream.batch : e.index \in Nat
    BY StreamIs, IndexIs
  <2>4. QED
    BY <2>2, <2>3, NumbersAre, StreamIs DEF Numbered, Indices
\* what is new in the log is above all that was there
<1>6. \A e \in log' \ log : \E v \in Writers : e \in writer[v].rows /\ \A f \in log : f.index < e.index
  BY <1>1 DEF LogMoves, NumberInv, RowsAbove
<1>7. SeenKept'
  <2>1. \A i \in page.seen : \E e \in log' : e.index = i /\ e.run \notin hidden'
    BY <1>1, <1>4 DEF SeenKept, LogMoves
  <2>2. ASSUME NEW e \in log', NEW i \in page.seen, e.index <= i
        PROVE  e.index \in page.seen \union page.skipped
    <3>1. PICK f \in log : f.index = i
      BY <1>4 DEF SeenKept
    <3>2. e \in log
      BY <1>5, <1>6, <2>2, <3>1
    <3>3. QED
      BY <1>4, <2>2, <3>2 DEF SeenKept
  <2>3. QED
    BY <1>2, <2>1, <2>2 DEF SeenKept
<1>8. ASSUME stream.open, NEW i \in Indices(stream.batch) \union {stream.cursor}
      PROVE  Passed(i)' /\ Ahead(i)' /\ \A e \in log' : e.index <= i => e \in log
  <2>1. CursorKept /\ Passed(i) /\ Ahead(i) /\ i \in Nat
    BY <1>4, <1>5, <1>8 DEF CursorKept
  <2>2. Passed(i)'
    <3>1. CASE i <= highWater
      BY <1>1, <1>5, <2>1, <3>1 DEF Passed, LogMoves
    <3>2. CASE \E e \in log : i <= e.index
      <4>1. PICK e \in log : i <= e.index
        BY <3>2
      <4>2. e \in log' \/ i <= highWater'
        BY <1>1, <1>5, <2>1, <4>1 DEF LogMoves
      <4>3. QED
        BY <4>1, <4>2 DEF Passed
    <3>3. QED
      BY <2>1, <3>1, <3>2 DEF Passed
  <2>3. ASSUME NEW v \in Writers
        PROVE  /\ \A g \in writer'[v].rows : i < g.index
               /\ Numbered(v)' => i < Number(v)'
    <3>1. RowMoves(v)
      BY <1>1
    <3>2. \A g \in writer'[v].rows : i < g.index
      BY <2>1, <3>1 DEF RowMoves, Ahead
    <3>3. ASSUME Numbered(v)'
          PROVE  i < Number(v)'
      <4>1. CASE Numbered(v) /\ Number(v)' = Number(v)
        BY <2>1, <4>1 DEF Ahead
      <4>2. CASE Number(v)' > highWater /\ \A e \in log : e.index < Number(v)'
        <5>1. Number(v)' \in Nat
          BY <1>5, <3>3
        <5>2. QED
          BY <1>5, <2>1, <4>2, <5>1 DEF Passed
      <4>3. QED
        BY <3>1, <3>3, <4>1, <4>2 DEF RowMoves
    <3>4. QED
      BY <3>2, <3>3
  <2>4. Ahead(i)'
    BY <2>3 DEF Ahead
  <2>5. ASSUME NEW e \in log', e.index <= i
        PROVE  e \in log
    BY <1>5, <1>6, <2>1, <2>5 DEF Ahead
  <2>6. QED
    BY <2>2, <2>4, <2>5
<1>9. ASSUME stream.open
      PROVE  CursorKept'
  <2>1. CursorKept
    BY <1>4, <1>9
  <2>2. \A e \in log' : e.index <= stream.cursor => e.index \in page.seen \union page.skipped
    BY <1>8, <1>9, <2>1 DEF CursorKept
  <2>3. \A i \in Indices(stream.batch) \union {stream.cursor} :
          Passed(i)' /\ Ahead(i)' /\ stream.cursor <= i
    BY <1>8, <1>9, <2>1 DEF CursorKept
  <2>4. ASSUME NEW f \in log', NEW e \in stream.batch,
               stream.cursor < f.index, f.index <= e.index
        PROVE  f \in stream.batch
    <3>1. e.index \in Indices(stream.batch)
      BY DEF Indices
    <3>2. f \in log
      BY <1>8, <1>9, <2>4, <3>1
    <3>3. QED
      BY <2>1, <2>4, <3>2 DEF CursorKept
  <2>5. QED
    BY <1>2, <2>2, <2>3, <2>4 DEF CursorKept, Indices, Passed, Ahead
<1>10. QED
  BY <1>7, <1>9

\* A step that leaves the log, the runs' visibility and the page alone keeps what the
\* page received; the cursor may be wherever it goes.
LEMMA NothingReceived ==
  ASSUME UNCHANGED serverVars, page'.seen = page.seen, page'.skipped = page.skipped, SeenKept
  PROVE  SeenKept'
  BY DEF SeenKept, serverVars

\* The first rows after the cursor: a row that is read comes with every row of the log
\* between it and the cursor.
LEMMA ListIsWhole ==
  ASSUME EventStreamTypeOK, NEW cursor \in Nat,
         NEW e \in ListAfter(cursor), NEW f \in log, cursor < f.index, f.index <= e.index
  PROVE  f \in ListAfter(cursor)
<1> DEFINE Before(i) == {g \in After(cursor) : g.index <= i}
<1>1. e \in After(cursor) /\ Cardinality(Before(e.index)) <= BatchLimit
  BY DEF ListAfter
<1>2. f \in After(cursor)
  BY IndexIs DEF After, EventStreamTypeOK
<1>3. \A g \in log : g.index \in Nat
  BY IndexIs DEF EventStreamTypeOK
<1>4. e.index \in Nat /\ f.index \in Nat /\ After(cursor) \subseteq log
  BY <1>1, <1>2, <1>3 DEF After
<1>5. Before(f.index) \subseteq Before(e.index)
  BY <1>3, <1>4
<1>6. IsFiniteSet(Before(e.index))
  <2>1. Before(e.index) \subseteq log /\ IsFiniteSet(log)
    BY <1>4 DEF EventStreamTypeOK
  <2> HIDE DEF Before
  <2>2. QED
    BY <2>1, FS_Subset
<1>7. /\ Cardinality(Before(f.index)) <= Cardinality(Before(e.index))
      /\ Cardinality(Before(f.index)) \in Nat /\ Cardinality(Before(e.index)) \in Nat
  <2> HIDE DEF Before
  <2>1. IsFiniteSet(Before(f.index)) /\ Cardinality(Before(f.index)) <= Cardinality(Before(e.index))
    BY <1>5, <1>6, FS_Subset
  <2>2. QED
    BY <1>6, <2>1, FS_CardinalityType
<1>8. Cardinality(Before(f.index)) <= BatchLimit
  <2> HIDE DEF Before
  <2> QED BY <1>1, <1>7, EventStreamAssumption
<1>9. QED
  BY <1>2, <1>8 DEF ListAfter

\* What is committed is below what is still to be committed.
LEMMA CommittedIsPast ==
  ASSUME EventStreamTypeOK, NumberInv, NEW e \in log
  PROVE  Passed(e.index) /\ Ahead(e.index)
<1>1. Ahead(e.index)
  BY DEF Ahead, NumberInv, RowsAbove, NumberAbove
<1>2. Passed(e.index)
  BY NumbersAre DEF Passed
<1>3. QED
  BY <1>1, <1>2

\* Numbers start from one.
LEMMA ZeroIsPast ==
  ASSUME EventStreamTypeOK, NumberInv
  PROVE  Passed(0) /\ Ahead(0) /\ \A e \in log : ~(e.index <= 0)
<1>1. Passed(0)
  BY NumbersAre DEF Passed
<1>2. \A w \in Writers : Numbered(w) => 0 < Number(w)
  BY NumbersAre DEF Numbered, Number
<1>3. Ahead(0)
  BY <1>2 DEF Ahead, NumberInv, RowsAbove
<1>4. \A e \in log : ~(e.index <= 0)
  BY NumbersAre DEF NumberInv
<1>5. QED
  BY <1>1, <1>3, <1>4

\* A cursor with no batch yet: all that matters is that it is behind what is to come.
LEMMA CursorSet ==
  ASSUME UNCHANGED serverVars, NEW cursor \in Nat, stream'.cursor = cursor,
         stream'.batch = {}, Passed(cursor), Ahead(cursor),
         \A e \in log : e.index <= cursor => e.index \in page'.seen \union page'.skipped
  PROVE  CursorKept'
<1>1. Passed(cursor)' /\ Ahead(cursor)'
  BY DEF Passed, Ahead, Numbered, Number, serverVars
<1>2. log' = log
  BY DEF serverVars
<1>3. Indices(stream'.batch) = {}
  BY DEF Indices
<1>4. cursor <= cursor
  OBVIOUS
<1>5. \A i \in Indices(stream'.batch) \union {stream'.cursor} : i = cursor
  BY <1>3
<1>6. QED
  BY <1>1, <1>2, <1>4, <1>5 DEF CursorKept

LEMMA SendNextStream ==
  ASSUME EventStreamTypeOK, NumberInv, StreamInv, SendNext
  PROVE  StreamInv'
<1>1. UNCHANGED serverVars /\ stream.open /\ page.view # <<>>
  BY FollowingLeaves DEF Following, Serve, SendNext, EventStreamTypeOK, OpenTo
<1>2. PICK e \in stream.batch :
        /\ \A f \in stream.batch : e.index <= f.index
        /\ stream'.cursor = e.index /\ stream'.batch = stream.batch \ {e}
        /\ page'.seen = IF e.run \in stream.hidden THEN page.seen
                        ELSE page.seen \union {e.index}
        /\ page'.skipped = IF e.run \in stream.hidden THEN page.skipped \union {e.index}
                           ELSE page.skipped
        /\ astray' = IF e.run \notin stream.hidden /\ (e.run \in hidden \/ e \notin log)
                     THEN astray \union {"leaked"} ELSE astray
  BY <1>1, SendNextDoes
<1>3. SUFFICES ASSUME "leaked" \notin astray'
               PROVE  SeenKept' /\ CursorKept'
  BY DEF StreamInv
<1>4. /\ "leaked" \notin astray
      /\ e.run \notin stream.hidden => e.run \notin hidden /\ e \in log
  BY <1>2, <1>3
<1>5. SeenKept /\ CursorKept
  BY <1>1, <1>4 DEF StreamInv
<1>6. /\ \A f \in stream.batch : f.index \in Nat
      /\ \A f \in log : f.index \in Nat
      /\ stream.cursor \in Nat /\ page.seen \in SUBSET Nat
  BY StreamIs, IndexIs, NumbersAre
<1>7. log' = log /\ hidden' = hidden
  BY <1>1 DEF serverVars
\* what is behind the cursor now was behind it before, or is what was sent
<1>8. ASSUME NEW f \in log, f.index <= e.index
      PROVE  f.index \in page'.seen \union page'.skipped
  <2>1. CASE f.index <= stream.cursor
    BY <1>2, <1>5, <2>1 DEF CursorKept
  <2>2. CASE stream.cursor < f.index
    <3>1. f \in stream.batch
      BY <1>5, <1>8, <2>2 DEF CursorKept
    <3>2. f.index = e.index
      BY <1>2, <1>6, <1>8, <3>1
    <3>3. QED
      BY <1>2, <3>2
  <2>3. QED
    BY <1>6, <2>1, <2>2
<1>9. SeenKept'
  <2>1. \A i \in page'.seen : \E f \in log : f.index = i /\ f.run \notin hidden
    BY <1>2, <1>4, <1>5 DEF SeenKept
  <2>2. ASSUME NEW f \in log, NEW i \in page'.seen, f.index <= i
        PROVE  f.index \in page'.seen \union page'.skipped
    <3>1. CASE i \in page.seen
      BY <1>2, <1>5, <2>2, <3>1 DEF SeenKept
    <3>2. CASE i = e.index
      BY <1>8, <2>2, <3>2
    <3>3. QED
      BY <1>2, <3>1, <3>2
  <2>3. QED
    BY <1>7, <2>1, <2>2 DEF SeenKept
<1>10. CursorKept'
  <2>1. \A i \in Indices(stream.batch) : Passed(i) /\ Ahead(i)
    BY <1>5 DEF CursorKept
  <2>2. \A i \in Indices(stream.batch) : Passed(i)' /\ Ahead(i)'
    BY <1>1, <2>1 DEF Passed, Ahead, Numbered, Number, serverVars
  <2>3. /\ Indices(stream'.batch) \union {stream'.cursor} \subseteq Indices(stream.batch)
        /\ \A i \in Indices(stream.batch) : e.index <= i
    BY <1>2 DEF Indices
  <2>4. \A i \in Indices(stream'.batch) \union {stream'.cursor} :
          Passed(i)' /\ Ahead(i)' /\ stream'.cursor <= i
    BY <1>2, <2>2, <2>3
  <2>5. ASSUME NEW f \in log, NEW g \in stream'.batch,
               stream'.cursor < f.index, f.index <= g.index
        PROVE  f \in stream'.batch
    <3>1. g \in stream.batch /\ stream.cursor <= e.index
      BY <1>2, <1>5 DEF CursorKept, Indices
    <3>2. stream.cursor < f.index
      BY <1>2, <1>6, <2>5, <3>1
    <3>3. f \in stream.batch /\ f # e
      BY <1>2, <1>5, <1>6, <2>5, <3>1, <3>2 DEF CursorKept
    <3>4. QED
      BY <1>2, <3>3
  <2>6. QED
    BY <1>2, <1>7, <1>8, <2>4, <2>5 DEF CursorKept
<1>11. QED
  BY <1>9, <1>10

LEMMA FollowingStream ==
  ASSUME EventStreamTypeOK, NumberInv, StreamInv, Following
  PROVE  StreamInv'
<1>1. UNCHANGED serverVars
  BY FollowingLeaves
<1>2. CASE SendNext
  BY <1>2, SendNextStream
\* what has leaked once has leaked
<1>3. ASSUME "leaked" \in astray => "leaked" \in astray',
             "leaked" \notin astray /\ SeenKept => SeenKept' /\ (stream'.open => CursorKept')
      PROVE  StreamInv'
  <2>1. SUFFICES ASSUME "leaked" \notin astray'
                 PROVE  SeenKept' /\ (stream'.open => CursorKept')
    BY DEF StreamInv
  <2>2. "leaked" \notin astray
    BY <1>3, <2>1
  <2>3. SeenKept
    BY <2>2 DEF StreamInv
  <2>4. QED
    BY <1>3, <2>2, <2>3
<1>4. ASSUME "leaked" \notin astray, stream.open
      PROVE  CursorKept
  BY <1>4 DEF StreamInv
<1>5. CASE ReadHidden
  <2>1. /\ stream.open /\ page' = page /\ astray' = astray
        /\ stream'.cursor = stream.cursor /\ stream'.batch = stream.batch
    BY <1>5, StreamIs DEF ReadHidden, EventStreamTypeOK
  <2>2. CursorKept => CursorKept'
    BY <1>1, <2>1 DEF CursorKept, Indices, Passed, Ahead, Numbered, Number, serverVars
  <2>3. QED
    BY <1>1, <1>3, <1>4, <2>1, <2>2, NothingReceived
<1>6. CASE ReadBatch
  <2>1. /\ page' = page /\ astray' = astray
        /\ stream'.open = stream.open /\ stream'.cursor = stream.cursor
        /\ stream'.batch = ListAfter(stream.cursor)
    BY <1>6 DEF ReadBatch, EventStreamTypeOK
  <2>2. ASSUME CursorKept
        PROVE  CursorKept'
    <3>1. \A e \in ListAfter(stream.cursor) : e \in log /\ e.index > stream.cursor
      BY DEF ListAfter, After
    <3>2. stream.cursor \in Nat /\ \A e \in log : e.index \in Nat
      BY StreamIs, NumbersAre
    <3>3. \A i \in Indices(stream'.batch) \union {stream'.cursor} :
            Passed(i) /\ Ahead(i) /\ stream.cursor <= i
      <4>1. Passed(stream.cursor) /\ Ahead(stream.cursor) /\ stream.cursor <= stream.cursor
        BY <2>2, <3>2 DEF CursorKept
      <4>2. \A e \in ListAfter(stream.cursor) :
              Passed(e.index) /\ Ahead(e.index) /\ stream.cursor <= e.index
        BY <3>1, <3>2, CommittedIsPast
      <4>3. QED
        BY <2>1, <4>1, <4>2 DEF Indices
    <3>4. \A f \in log, e \in stream'.batch :
            stream.cursor < f.index /\ f.index <= e.index => f \in stream'.batch
      BY <2>1, <3>2, ListIsWhole
    <3>5. \A e \in log : e.index <= stream.cursor => e.index \in page.seen \union page.skipped
      BY <2>2 DEF CursorKept
    <3>6. \A i : (Passed(i) => Passed(i)') /\ (Ahead(i) => Ahead(i)')
      BY <1>1 DEF Passed, Ahead, Numbered, Number, serverVars
    <3>7. log' = log
      BY <1>1 DEF serverVars
    <3>8. QED
      BY <2>1, <3>3, <3>4, <3>5, <3>6, <3>7 DEF CursorKept
  <2>3. QED
    BY <1>1, <1>3, <1>4, <2>1, <2>2, NothingReceived
<1>7. CASE Refetched \/ Refetch
  <2>1. /\ stream' = stream /\ page'.seen = page.seen /\ page'.skipped = page.skipped
        /\ "leaked" \in astray => "leaked" \in astray'
    BY <1>7 DEF Refetched, Refetch, EventStreamTypeOK
  <2>2. CursorKept => CursorKept'
    BY <1>1, <2>1 DEF CursorKept, Indices, Passed, Ahead, Numbered, Number, serverVars
  <2>3. QED
    BY <1>1, <1>3, <1>4, <2>1, <2>2, NothingReceived
<1>8. CASE Reconnect
  <2>1. /\ page' = page /\ astray' = astray /\ stream'.cursor = Highest(page.seen)
        /\ stream'.batch = {}
    BY <1>8 DEF Reconnect, Closed, AfterCursor
  <2>2. /\ Highest(page.seen) \in Nat
        /\ page.seen # {} => Highest(page.seen) \in page.seen
        /\ page.seen = {} => Highest(page.seen) = 0
    BY HighestIs, StreamIs DEF EventStreamTypeOK, Highest
  <2> DEFINE cursor == Highest(page.seen)
  <2> HIDE DEF cursor
  <2>3. ASSUME SeenKept
        PROVE  /\ Passed(cursor) /\ Ahead(cursor)
               /\ \A e \in log : e.index <= cursor => e.index \in page.seen \union page.skipped
    <3>1. CASE page.seen # {}
      <4>1. cursor \in page.seen
        BY <2>2, <3>1 DEF cursor
      <4>2. PICK e \in log : e.index = cursor
        BY <2>3, <4>1 DEF SeenKept
      <4>3. QED
        BY <2>3, <4>1, <4>2, CommittedIsPast DEF SeenKept
    <3>2. CASE page.seen = {}
      <4>1. cursor = 0
        BY <2>2, <3>2 DEF cursor
      <4>2. QED
        BY <4>1, ZeroIsPast
    <3>3. QED
      BY <3>1, <3>2
  <2>4. SeenKept => CursorKept'
    BY <1>1, <2>1, <2>2, <2>3, CursorSet DEF cursor
  <2>5. QED
    BY <1>1, <1>3, <2>1, <2>4, NothingReceived
<1>9. CASE OpenPage
  <2>1. /\ page'.seen = {} /\ page'.skipped = {} /\ astray' = astray
        /\ stream'.cursor = 0 /\ stream'.batch = {}
    BY <1>9 DEF OpenPage, NoPage, Closed
  <2>2. SeenKept'
    BY <2>1 DEF SeenKept
  <2>3. CursorKept'
    BY <1>1, <2>1, ZeroIsPast, CursorSet
  <2>4. QED
    BY <1>3, <2>1, <2>2, <2>3
<1>10. CASE DropConnection
  <2>1. page' = page /\ astray' = astray /\ ~stream'.open
    BY <1>10 DEF DropConnection, Closed
  <2>2. QED
    BY <1>1, <1>3, <2>1, NothingReceived
<1>11. QED
  BY <1>2, <1>5, <1>6, <1>7, <1>8, <1>9, <1>10 DEF Following, Serve

LEMMA StreamStep ==
  ASSUME EventStreamTypeOK, LockInv, NumberInv, StartInv, StreamInv, [Next]_vars
  PROVE  StreamInv'
<1>1. CASE \E w \in Writers : WriterStep(w)
  BY <1>1, WriterStepStream
<1>2. CASE Following
  BY <1>2, FollowingStream
<1>3. CASE Crash
  <2>1. /\ UNCHANGED <<hidden, log, page>> /\ ~stream'.open
        /\ "leaked" \in astray => "leaked" \in astray'
    BY <1>3 DEF Crash, Closed
  <2>2. SeenKept => SeenKept'
    BY <2>1 DEF SeenKept
  <2>3. QED
    BY <2>1, <2>2 DEF StreamInv
<1>4. CASE UNCHANGED vars
  BY <1>4 DEF vars, StreamInv, SeenKept, CursorKept, Passed, Ahead, Numbered, Number, Indices
<1>5. QED
  BY <1>1, <1>2, <1>3, <1>4 DEF Next, Following

\* The order of the commits, the starts and the stream together.
BaseInv == OrderInv /\ StartInv /\ StreamInv

LEMMA BaseAlways == Spec => []BaseInv
<1>1. Init => StartInv /\ StreamInv
  <2>1. Init => StartInv
    BY DEF Init, StartInv, StartsHidden, RunIsCurrent, LeavesCurrent, LogOfStart, Draft,
           Starter, Idle
  <2>2. Init => StreamInv
    BY DEF Init, StreamInv, SeenKept, Closed, NoPage
  <2>3. QED
    BY <2>1, <2>2
<1>2. OrderInv /\ StartInv /\ StreamInv /\ [Next]_vars => StartInv' /\ StreamInv'
  BY StartStep, StreamStep DEF OrderInv
<1>3. BaseInv <=> OrderInv /\ StartInv /\ StreamInv
  BY DEF BaseInv
<1>4. QED
  BY <1>1, <1>2, <1>3, OrderAlways, PTL DEF Spec

\* The open stream passes over nothing but the events of runs that were hidden, for any
\* number of commands that commit while it reads: its cursor is below everything still
\* to be committed, also when a number was given and its command has failed, and when
\* the process has died and gives its numbers from the log again.
THEOREM StreamSkipsNone == Spec => []NothingPassedOver
<1>1. BaseInv => NothingPassedOver
  BY DEF BaseInv, StreamInv, CursorKept, NothingPassedOver
<1>2. QED
  BY <1>1, BaseAlways, PTL

-----------------------------------------------------------------------------
(* What the events tell                                                     *)

\* Events that turn the page to their run, that carry a run's status, and that carry
\* the face of its request.
IsTurn(e) == e.type \in {"created", "status"}
IsStatus(e) == IsTurn(e) \/ e.type = "terminal"
IsRequest(e) == e.type \in {"ask", "answer"}

\* The same, or both of a run that goes on.
Alike(s, t) == s = t \/ (s \notin Settled /\ t \notin Settled)

\* How a request looks when a run is as t says.
FaceIn(t, r) ==
  IF t.request[r] # "pending" THEN t.request[r]
  ELSE IF t.status[r] = "waiting" THEN "open" ELSE "disabled"

\* A request is pending while its run waits, or was paused or terminated in its wait.
Sane(t) ==
  /\ t.current # NoRun /\ t.status[t.current] # "none"
  /\ \A r \in Runs :
       /\ t.status[r] = "paused" => t.before[r] \in {"running", "waiting"}
       /\ t.request[r] = "pending" => t.status[r] \in {"waiting", "paused", "terminated"}
       /\ t.request[r] = "pending" /\ t.status[r] = "paused" => t.before[r] = "waiting"

StatusesOf(r, h) == {e \in h : IsStatus(e) /\ e.run = r}
RequestsOf(r, h) == {e \in h : IsRequest(e) /\ e.run = r}
Turns(h) == {e \in h : IsTurn(e)}
AllStatuses(h) == {e \in h : IsStatus(e)}
IsLast(e, s) == e \in s /\ \A f \in s : f.index <= e.index

\* The history h of events tells the truth t: the last event of each kind does.
Tells(h, t) ==
  /\ Sane(t)
  /\ \A e \in AllStatuses(h) :
       /\ e.status # "none" /\ t.status[e.run] # "none"
       /\ \E c \in h : c.type = "created" /\ c.run = e.run /\ c.index <= e.index
  /\ \E c \in h : c.type = "created" /\ c.run = t.current
  /\ \A r \in Runs : \A e \in h : IsLast(e, StatusesOf(r, h)) => Alike(e.status, t.status[r])
  /\ \A r \in Runs : \A e \in h : IsLast(e, RequestsOf(r, h)) => e.status = FaceIn(t, r)
  /\ \A r \in Runs : RequestsOf(r, h) = {} => FaceIn(t, r) = "none"
  /\ \A e \in h : IsLast(e, AllStatuses(h)) \/ IsLast(e, Turns(h)) => e.run = t.current

\* A view is right about everything of which it has been shown all the events.
Shown(s, seen) == \A e \in s : e.index \in seen

Right(v, t, h, seen) ==
  /\ \A r \in Runs : Shown(StatusesOf(r, h), seen) => Alike(v.runs[r], t.status[r])
  /\ \A r \in Runs : Shown(RequestsOf(r, h), seen) => v.feed[r] = FaceIn(t, r)
  /\ Shown(Turns(h), seen) => v.current = t.current
  /\ Shown(AllStatuses(h), seen) => Alike(v.status, t.status[t.current])
  /\ \A e \in h : e.type = "created" /\ e.index \in seen => v.runs[e.run] # "none"

\* What a command writes about its run.
Written(t, r, s, b, q) ==
  [status |-> [t.status EXCEPT ![r] = s], before |-> [t.before EXCEPT ![r] = b],
   request |-> [t.request EXCEPT ![r] = q], current |-> r]

\* The rows a command adds, from what it read to what it writes about run r.
Adds(rows, t, n, r) ==
  /\ n = Written(t, r, n.status[r], n.before[r], n.request[r])
  /\ rows # {} /\ Sane(n)
  /\ \A e \in rows :
       /\ IsTurn(e) => e.run = r
       /\ IsStatus(e) => e.status # "none" /\ e.status = n.status[e.run]
       /\ IsStatus(e) /\ e.run # r => e.run = t.current
       /\ IsRequest(e) => e.run = r /\ e.status = FaceIn(n, r)
  /\ ~Alike(n.status[r], t.status[r]) => \E e \in rows : IsStatus(e) /\ e.run = r
  /\ FaceIn(n, r) # FaceIn(t, r) => \E e \in rows : IsRequest(e)
  /\ r # t.current => /\ \E e \in rows : e.type = "created"
                      /\ \A e \in rows : IsStatus(e) /\ e.run = r => e.type = "created"

\* What it says of another run comes before it creates its own.
InTurn(rows, r) ==
  \A e \in rows : IsStatus(e) /\ e.run # r =>
    \E c \in rows : c.type = "created" /\ e.index < c.index

LEMMA KindsAre ==
  ASSUME NEW e \in Events
  PROVE  /\ IsStatus(e) => e.run \in Runs /\ e.status \in Statuses /\ ~IsRequest(e)
         /\ IsRequest(e) => e.run \in Runs /\ e.status \in Faces
         /\ e.index \in Nat /\ e.run \in Runs
         /\ IsTurn(e) => IsStatus(e)
         /\ e.type = "created" => IsTurn(e)
  BY DEF IsStatus, IsTurn, IsRequest, Events, RunEvents, RequestEvents

\* A command that settles rows above all others, over the rows it read, leaves a
\* history that tells what it wrote.
LEMMA AddedTells ==
  ASSUME NEW h \in SUBSET Events, NEW rows \in SUBSET Events,
         NEW t \in Truth, NEW n \in Truth, NEW r \in Runs,
         Tells(h, t), Adds(rows, t, n, r), InTurn(rows, r),
         \A e \in h, g \in rows : e.index < g.index
  PROVE  Tells(h \union rows, n)
<1> DEFINE all == h \union rows
<1>1. /\ \A e \in all : e.index \in Nat /\ e.run \in Runs
      /\ n.current = r /\ n.status[r] # "none" /\ Sane(n)
      /\ \A q \in Runs : q # r => n.status[q] = t.status[q] /\ FaceIn(n, q) = FaceIn(t, q)
  <2>1. n.current = r
    BY DEF Adds, Written
  <2>2. \A q \in Runs : q # r => /\ n.status[q] = t.status[q] /\ n.request[q] = t.request[q]
    BY DEF Adds, Written, Truth
  <2>3. QED
    BY <2>1, <2>2, KindsAre DEF Adds, Sane, FaceIn
\* the last of some events is among the rows if there is one there
<1>2. ASSUME NEW e \in h, NEW g \in rows
      PROVE  ~(g.index <= e.index)
  BY <1>1
<1>3. ASSUME NEW e \in AllStatuses(all)
      PROVE  /\ e.status # "none" /\ n.status[e.run] # "none"
             /\ \E c \in all : c.type = "created" /\ c.run = e.run /\ c.index <= e.index
  <2>1. CASE e \in h
    <3>1. /\ e.status # "none" /\ t.status[e.run] # "none"
          /\ \E c \in h : c.type = "created" /\ c.run = e.run /\ c.index <= e.index
      BY <1>3, <2>1 DEF Tells, AllStatuses
    <3>2. QED
      BY <1>1, <1>3, <3>1 DEF AllStatuses
  <2>2. CASE e \in rows
    <3>1. e.status # "none" /\ e.status = n.status[e.run] /\ IsStatus(e)
          /\ (e.run # r => e.run = t.current)
      BY <1>3, <2>2 DEF Adds, AllStatuses
    <3>2. CASE e.run = t.current
      <4>1. PICK c \in h : c.type = "created" /\ c.run = e.run
        BY <3>2 DEF Tells
      <4>2. QED
        BY <1>1, <2>2, <3>1, <4>1
    <3>3. CASE e.run = r /\ r # t.current
      <4>2. e.type = "created"
        BY <2>2, <3>1, <3>3 DEF Adds
      <4>3. QED
        BY <1>1, <2>2, <3>1, <4>2
    <3>4. QED
      BY <3>1, <3>2, <3>3
  <2>3. QED
    BY <1>3, <2>1, <2>2 DEF AllStatuses
<1>4. \E c \in all : c.type = "created" /\ c.run = n.current
  <2>1. CASE r = t.current
    BY <1>1, <2>1 DEF Tells
  <2>2. CASE r # t.current
    BY <1>1, <2>2 DEF Adds, IsTurn
  <2>3. QED
    BY <2>1, <2>2
<1>5. ASSUME NEW q \in Runs, NEW e \in all, IsLast(e, StatusesOf(q, all))
      PROVE  Alike(e.status, n.status[q])
  <2>1. CASE e \in rows
    BY <1>5, <2>1 DEF IsLast, StatusesOf, Adds, Alike
  <2>2. CASE e \in h
    <3>1. \A f \in rows : ~(IsStatus(f) /\ f.run = q)
      BY <1>2, <1>5, <2>2 DEF IsLast, StatusesOf
    <3>2. Alike(e.status, t.status[q])
      BY <1>5, <2>2 DEF IsLast, StatusesOf, Tells
    <3>3. Alike(n.status[q], t.status[q])
      BY <1>1, <3>1 DEF Adds, Alike
    <3>4. QED
      BY <3>2, <3>3 DEF Alike
  <2>3. QED
    BY <1>5, <2>1, <2>2
<1>6. ASSUME NEW q \in Runs, NEW e \in all, IsLast(e, RequestsOf(q, all))
      PROVE  e.status = FaceIn(n, q)
  <2>1. CASE e \in rows
    BY <1>6, <2>1 DEF IsLast, RequestsOf, Adds
  <2>2. CASE e \in h
    <3>1. \A f \in rows : ~(IsRequest(f) /\ f.run = q)
      BY <1>2, <1>6, <2>2 DEF IsLast, RequestsOf
    <3>2. e.status = FaceIn(t, q)
      BY <1>6, <2>2 DEF IsLast, RequestsOf, Tells
    <3>3. FaceIn(n, q) = FaceIn(t, q)
      BY <1>1, <3>1 DEF Adds
    <3>4. QED
      BY <3>2, <3>3
  <2>3. QED
    BY <1>6, <2>1, <2>2
<1>7. ASSUME NEW q \in Runs, RequestsOf(q, all) = {}
      PROVE  FaceIn(n, q) = "none"
  <2>1. RequestsOf(q, h) = {} /\ \A f \in rows : ~(IsRequest(f) /\ f.run = q)
    BY <1>7 DEF RequestsOf
  <2>2. FaceIn(n, q) = FaceIn(t, q)
    BY <1>1, <2>1 DEF Adds
  <2>3. QED
    BY <2>1, <2>2 DEF Tells
<1>8. ASSUME NEW e \in all, IsLast(e, AllStatuses(all)) \/ IsLast(e, Turns(all))
      PROVE  e.run = n.current
  <2>1. CASE e \in rows
    <3>1. CASE e.run # r
      <4>1. IsStatus(e) /\ ~IsTurn(e)
        BY <1>8, <2>1, <3>1 DEF IsLast, AllStatuses, Turns, Adds
      <4>2. PICK c \in rows : c.type = "created" /\ e.index < c.index
        BY <2>1, <3>1, <4>1 DEF InTurn
      <4>3. c \in AllStatuses(all)
        BY <4>2 DEF AllStatuses, IsStatus, IsTurn
      <4>4. c.index <= e.index
        BY <1>8, <4>1, <4>3 DEF IsLast, Turns
      <4>5. e \in all /\ c \in all
        BY <4>2
      <4>6. QED
        BY <1>1, <4>2, <4>4, <4>5
    <3>2. QED
      BY <1>1, <3>1
  <2>2. CASE e \in h
    <3>1. \/ IsLast(e, AllStatuses(h)) /\ \A f \in rows : f.type # "created"
          \/ IsLast(e, Turns(h)) /\ \A f \in rows : f.type # "created"
      BY <1>2, <1>8, <2>2 DEF IsLast, AllStatuses, Turns, IsStatus, IsTurn
    <3>2. r = t.current
      BY <3>1 DEF Adds
    <3>3. QED
      BY <1>1, <2>2, <3>1, <3>2 DEF Tells
  <2>3. QED
    BY <2>1, <2>2
<1>9. QED
  BY <1>1, <1>3, <1>4, <1>5, <1>6, <1>7, <1>8 DEF Tells

LEMMA AlikeIs == \A s, t, u : /\ Alike(s, s) /\ (Alike(s, t) => Alike(t, s))
                              /\ (Alike(s, t) /\ Alike(t, u) => Alike(s, u))
  BY DEF Alike

\* Rows the page was not shown change nothing it has to be right about.
LEMMA AddedRight ==
  ASSUME NEW v, NEW h \in SUBSET Events, NEW rows \in SUBSET Events, NEW seen,
         NEW t \in Truth, NEW n \in Truth, NEW r \in Runs,
         Adds(rows, t, n, r), Right(v, t, h, seen), \A e \in rows : e.index \notin seen
  PROVE  Right(v, n, h \union rows, seen)
<1> DEFINE all == h \union rows
<1>1. /\ n.current = r /\ \A q \in Runs : q # r => n.status[q] = t.status[q] /\ FaceIn(n, q) = FaceIn(t, q)
  BY DEF Adds, Written, Truth, FaceIn
<1>2. ASSUME NEW q \in Runs, Shown(StatusesOf(q, all), seen)
      PROVE  Alike(v.runs[q], n.status[q])
  <2>1. Shown(StatusesOf(q, h), seen) /\ \A f \in rows : ~(IsStatus(f) /\ f.run = q)
    BY <1>2 DEF Shown, StatusesOf
  <2>2. Alike(v.runs[q], t.status[q]) /\ Alike(n.status[q], t.status[q])
    BY <1>1, <2>1 DEF Right, Adds, Alike
  <2>3. QED
    BY <2>2, AlikeIs
<1>3. ASSUME NEW q \in Runs, Shown(RequestsOf(q, all), seen)
      PROVE  v.feed[q] = FaceIn(n, q)
  <2>1. Shown(RequestsOf(q, h), seen) /\ \A f \in rows : ~(IsRequest(f) /\ f.run = q)
    BY <1>3 DEF Shown, RequestsOf
  <2>2. v.feed[q] = FaceIn(t, q) /\ FaceIn(n, q) = FaceIn(t, q)
    BY <1>1, <2>1 DEF Right, Adds
  <2>3. QED
    BY <2>2
<1>4. ASSUME Shown(Turns(all), seen) \/ Shown(AllStatuses(all), seen)
      PROVE  \A f \in rows : f.type # "created"
  BY <1>4 DEF Shown, Turns, AllStatuses, IsStatus, IsTurn
<1>5. ASSUME Shown(Turns(all), seen)
      PROVE  v.current = n.current
  <2>1. r = t.current /\ Shown(Turns(h), seen)
    BY <1>4, <1>5 DEF Adds, Shown, Turns
  <2>2. QED
    BY <1>1, <2>1 DEF Right
<1>6. ASSUME Shown(AllStatuses(all), seen)
      PROVE  Alike(v.status, n.status[n.current])
  <2>1. r = t.current /\ Shown(AllStatuses(h), seen) /\ \A f \in rows : ~IsStatus(f)
    BY <1>4, <1>6 DEF Adds, Shown, AllStatuses
  <2>2. Alike(v.status, t.status[r]) /\ Alike(n.status[r], t.status[r])
    BY <2>1 DEF Right, Adds
  <2>3. QED
    BY <1>1, <2>2, AlikeIs
<1>7. \A e \in all : e.type = "created" /\ e.index \in seen => v.runs[e.run] # "none"
  BY DEF Right
<1>8. QED
  BY <1>2, <1>3, <1>5, <1>6, <1>7 DEF Right

\* What an event does to the view, once the page knows its run.
LEMMA AppliedIs ==
  ASSUME NEW v \in View, NEW e \in Events,
         e.type \in {"status", "terminal"} => v.runs[e.run] # "none"
  PROVE  /\ IsStatus(e) => /\ Apply(v, e).runs = [v.runs EXCEPT ![e.run] = e.status]
                           /\ Apply(v, e).feed = v.feed
         /\ IsTurn(e) => Apply(v, e).status = e.status /\ Apply(v, e).current = e.run
         /\ e.type = "terminal" =>
              /\ Apply(v, e).current = v.current
              /\ Apply(v, e).status = IF v.current = e.run THEN e.status ELSE v.status
         /\ IsRequest(e) => /\ Apply(v, e).feed = [v.feed EXCEPT ![e.run] = e.status]
                            /\ Apply(v, e).runs = v.runs /\ Apply(v, e).status = v.status
                            /\ Apply(v, e).current = v.current
         /\ ~IsStatus(e) /\ ~IsRequest(e) => Apply(v, e) = v
<1>1. WithRun(v, e.run, e.status) =
        IF v.runs[e.run] # "none" THEN [v EXCEPT !.runs[e.run] = e.status] ELSE v
  BY DEF WithRun, Known
<1>2. CASE e.type = "created"
  <2>1. Apply(v, e) = [v EXCEPT !.runs[e.run] = e.status, !.status = e.status, !.current = e.run]
    BY <1>2 DEF Apply, ApplyCreated
  <2>2. QED
    BY <1>2, <2>1 DEF View, IsStatus, IsTurn, IsRequest
<1>3. CASE e.type = "status"
  <2>1. Apply(v, e) = ApplyStatus(v, e)
    BY <1>3 DEF Apply
  <2>2. Apply(v, e) = [[v EXCEPT !.runs[e.run] = e.status] EXCEPT !.status = e.status, !.current = e.run]
    BY <1>1, <1>3, <2>1 DEF ApplyStatus
  <2>3. QED
    BY <1>3, <2>2 DEF View, IsStatus, IsTurn, IsRequest
<1>4. CASE e.type = "terminal"
  <2>1. Apply(v, e) = ApplyTerminal(v, e)
    BY <1>4 DEF Apply
  <2>2. Apply(v, e) = [[v EXCEPT !.runs[e.run] = e.status] EXCEPT
                          !.status = IF v.current = e.run THEN e.status ELSE @]
    BY <1>1, <1>4, <2>1 DEF ApplyTerminal
  <2>3. QED
    BY <1>4, <2>2 DEF View, IsStatus, IsTurn, IsRequest
<1>5. CASE e.type \in {"ask", "answer"}
  <2>1. Apply(v, e) = [v EXCEPT !.feed = InFeed(v.feed, e)]
    BY <1>5 DEF Apply
  <2>2. QED
    BY <1>5, <2>1 DEF InFeed, View, IsStatus, IsTurn, IsRequest
<1>6. CASE e.type = "stage"
  BY <1>6 DEF Apply, IsStatus, IsTurn, IsRequest
<1>7. QED
  BY <1>2, <1>3, <1>4, <1>5, <1>6 DEF Events, RunEvents, RequestEvents

\* The page is shown the next event of the history: it stays right.
LEMMA AppliedRight ==
  ASSUME NEW v \in View, NEW t \in Truth, NEW h \in SUBSET Events, NEW seen \in SUBSET Nat,
         NEW e \in h, Tells(h, t), Right(v, t, h, seen),
         \A f \in h : f.index = e.index => f = e,
         \A i \in seen : i < e.index,
         \A f \in h : f.index < e.index => f.index \in seen
  PROVE  Right(Apply(v, e), t, h, seen \union {e.index})
<1> DEFINE now == seen \union {e.index}
           u == Apply(v, e)
<1>1. /\ \A f \in h : f.index \in Nat /\ f.run \in Runs /\ f \in Events
      /\ e.index \in Nat /\ e \in Events /\ e.run \in Runs
      /\ t.current # NoRun
  BY KindsAre DEF Tells, Sane
<1>2. ASSUME NEW S \in SUBSET h, Shown(S, now)
      PROVE  /\ e \in S => IsLast(e, S) /\ \A f \in S : f # e => f.index \in seen
             /\ e \notin S => Shown(S, seen)
  <2>1. \A f \in S : f.index \in seen \/ f = e
    BY <1>2 DEF Shown
  <2>2. \A f \in S : f.index <= e.index
    BY <1>1, <2>1
  <2>3. QED
    BY <2>1, <2>2 DEF IsLast, Shown
<1>3. e.type \in {"status", "terminal"} => v.runs[e.run] # "none"
  <2>1. SUFFICES ASSUME e.type \in {"status", "terminal"}
                 PROVE  v.runs[e.run] # "none"
    OBVIOUS
  <2>2. PICK c \in h : c.type = "created" /\ c.run = e.run /\ c.index <= e.index
    BY <2>1 DEF Tells, AllStatuses, IsStatus, IsTurn
  <2>3. c # e
    BY <2>1, <2>2
  <2>4. c.index \in Nat /\ c.index # e.index
    BY <1>1, <2>3
  <2>5. c.index \in seen
    BY <1>1, <2>2, <2>4
  <2>6. QED
    BY <2>2, <2>5 DEF Right
<1>4. /\ IsStatus(e) => u.runs = [v.runs EXCEPT ![e.run] = e.status] /\ u.feed = v.feed
      /\ IsTurn(e) => u.status = e.status /\ u.current = e.run
      /\ e.type = "terminal" =>
           u.current = v.current /\ u.status = IF v.current = e.run THEN e.status ELSE v.status
      /\ IsRequest(e) => /\ u.feed = [v.feed EXCEPT ![e.run] = e.status]
                         /\ u.runs = v.runs /\ u.status = v.status /\ u.current = v.current
      /\ ~IsStatus(e) /\ ~IsRequest(e) => u = v
  BY <1>1, <1>3, AppliedIs
<1> HIDE DEF u
<1> v.runs \in [Runs -> Statuses] /\ v.feed \in [Runs -> Faces]
  BY DEF View
<1>5. /\ IsTurn(e) => IsStatus(e)
      /\ IsStatus(e) => ~IsRequest(e) /\ (IsTurn(e) \/ e.type = "terminal")
      /\ e.type = "terminal" => IsStatus(e)
      /\ e.type = "created" => IsTurn(e)
      /\ IsStatus(e) => e.status # "none"
  BY <1>1, KindsAre DEF IsStatus, Tells, AllStatuses
<1>6. ASSUME NEW q \in Runs, Shown(StatusesOf(q, h), now)
      PROVE  Alike(u.runs[q], t.status[q])
  <2> StatusesOf(q, h) \in SUBSET h
    BY DEF StatusesOf
  <2>1. CASE IsStatus(e) /\ e.run = q
    <3>1. IsLast(e, StatusesOf(q, h))
      BY <1>2, <1>6, <2>1 DEF StatusesOf
    <3>2. Alike(e.status, t.status[q])
      BY <3>1 DEF Tells
    <3>3. QED
      BY <1>4, <2>1, <3>2
  <2>2. CASE ~(IsStatus(e) /\ e.run = q)
    <3>1. Shown(StatusesOf(q, h), seen)
      BY <1>2, <1>6, <2>2 DEF StatusesOf
    <3>2. Alike(v.runs[q], t.status[q])
      BY <3>1 DEF Right
    <3>3. u.runs[q] = v.runs[q]
      BY <1>1, <1>4, <2>2
    <3>4. QED
      BY <3>2, <3>3
  <2>3. QED
    BY <2>1, <2>2
<1>7. ASSUME NEW q \in Runs, Shown(RequestsOf(q, h), now)
      PROVE  u.feed[q] = FaceIn(t, q)
  <2> RequestsOf(q, h) \in SUBSET h
    BY DEF RequestsOf
  <2>1. CASE IsRequest(e) /\ e.run = q
    <3>1. IsLast(e, RequestsOf(q, h))
      BY <1>2, <1>7, <2>1 DEF RequestsOf
    <3>2. e.status = FaceIn(t, q)
      BY <3>1 DEF Tells
    <3>3. QED
      BY <1>4, <2>1, <3>2
  <2>2. CASE ~(IsRequest(e) /\ e.run = q)
    <3>1. Shown(RequestsOf(q, h), seen)
      BY <1>2, <1>7, <2>2 DEF RequestsOf
    <3>2. v.feed[q] = FaceIn(t, q)
      BY <3>1 DEF Right
    <3>3. u.feed[q] = v.feed[q]
      BY <1>1, <1>4, <2>2
    <3>4. QED
      BY <3>2, <3>3
  <2>3. QED
    BY <2>1, <2>2
<1>8. ASSUME Shown(Turns(h), now)
      PROVE  u.current = t.current
  <2> Turns(h) \in SUBSET h
    BY DEF Turns
  <2>1. CASE IsTurn(e)
    <3>1. IsLast(e, Turns(h))
      BY <1>2, <1>8, <2>1 DEF Turns
    <3>2. QED
      BY <1>4, <2>1, <3>1 DEF Tells
  <2>2. CASE ~IsTurn(e)
    <3>1. Shown(Turns(h), seen)
      BY <1>2, <1>8, <2>2 DEF Turns
    <3>2. v.current = t.current
      BY <3>1 DEF Right
    <3>3. QED
      BY <1>4, <1>5, <2>2, <3>2
  <2>3. QED
    BY <2>1, <2>2
<1>9. ASSUME Shown(AllStatuses(h), now)
      PROVE  Alike(u.status, t.status[t.current])
  <2> AllStatuses(h) \in SUBSET h
    BY DEF AllStatuses
  <2>1. CASE IsStatus(e)
    <3>1. IsLast(e, AllStatuses(h)) /\ \A f \in AllStatuses(h) : f # e => f.index \in seen
      BY <1>2, <1>9, <2>1 DEF AllStatuses
    <3>2. e.run = t.current
      BY <3>1 DEF Tells
    <3>3. IsLast(e, StatusesOf(e.run, h))
      BY <2>1, <3>1 DEF IsLast, AllStatuses, StatusesOf
    <3>4. Alike(e.status, t.status[t.current])
      BY <1>1, <3>2, <3>3 DEF Tells
    <3>5. u.status = e.status
      <4>1. CASE IsTurn(e)
        BY <1>4, <4>1
      <4>2. CASE e.type = "terminal"
        <5>1. Shown(Turns(h), seen)
          BY <3>1, <4>2 DEF Shown, Turns, AllStatuses, IsStatus, IsTurn
        <5>2. v.current = e.run
          BY <3>2, <5>1 DEF Right
        <5>3. QED
          BY <1>4, <4>2, <5>2
      <4>3. QED
        BY <1>5, <2>1, <4>1, <4>2
    <3>6. QED
      BY <3>4, <3>5
  <2>2. CASE ~IsStatus(e)
    <3>1. Shown(AllStatuses(h), seen)
      BY <1>2, <1>9, <2>2 DEF AllStatuses
    <3>2. Alike(v.status, t.status[t.current])
      BY <3>1 DEF Right
    <3>3. QED
      BY <1>4, <2>2, <3>2
  <2>3. QED
    BY <2>1, <2>2
<1>10. ASSUME NEW c \in h, c.type = "created", c.index \in now
       PROVE  u.runs[c.run] # "none"
  <2>1. c = e \/ v.runs[c.run] # "none"
    BY <1>10 DEF Right
  <2>2. CASE IsStatus(e)
    BY <1>1, <1>4, <1>5, <2>1, <2>2
  <2>3. CASE ~IsStatus(e)
    <3>1. u.runs = v.runs /\ c # e
      BY <1>4, <1>5, <1>10, <2>3
    <3>2. QED
      BY <2>1, <3>1
  <2>4. QED
    BY <2>2, <2>3
<1>11. Right(u, t, h, now)
  BY <1>6, <1>7, <1>8, <1>9, <1>10 DEF Right
<1>12. QED
  BY <1>11 DEF u

\* The server's snapshot is right whatever the page was shown: it holds the truth, and
\* the feed is folded from the committed events.
LEMMA SnapshotRight ==
  ASSUME EventStreamTypeOK, hidden = {}, truth.current # NoRun,
         NEW rows \in SUBSET Events, Tells(log \union rows, truth),
         \A e \in log, g \in rows : e.index < g.index,
         NEW seen, seen \subseteq Indices(log)
  PROVE  Right(Snapshot, truth, log \union rows, seen)
<1> DEFINE h == log \union rows
<1>1. /\ Snapshot.runs = truth.status /\ Snapshot.current = truth.current
      /\ Snapshot.status = truth.status[truth.current]
      /\ \A r \in Runs : Snapshot.feed[r] = Timeline(r)
  BY DEF Snapshot, SessionStatus, NarrativeFeed
<1>2. ASSUME NEW r \in Runs, Shown(RequestsOf(r, h), seen)
      PROVE  Timeline(r) = FaceIn(truth, r)
  <2>1. \A f \in rows : ~(IsRequest(f) /\ f.run = r)
    <3>1. SUFFICES ASSUME NEW f \in rows, IsRequest(f), f.run = r
                   PROVE  FALSE
      OBVIOUS
    <3>2. f.index \in Indices(log)
      BY <1>2, <3>1 DEF Shown, RequestsOf
    <3>3. PICK e \in log : e.index = f.index
      BY <3>2 DEF Indices
    <3>4. f.index \in Nat
      BY KindsAre
    <3>5. QED
      BY <3>3, <3>4
  <2>2. AboutRequest(r) = RequestsOf(r, h)
    BY <2>1 DEF AboutRequest, RequestsOf, Visible, IsRequest
  <2>3. CASE RequestsOf(r, h) = {}
    BY <2>2, <2>3 DEF Timeline, Tells
  <2>4. CASE RequestsOf(r, h) # {}
    <3>1. AboutRequest(r) \in SUBSET log
      BY DEF AboutRequest, Visible
    <3>2. IsFiniteSet(AboutRequest(r)) /\ AboutRequest(r) \in SUBSET Events
      BY <3>1, FS_Subset DEF EventStreamTypeOK
    <3>3. \E m \in AboutRequest(r) : \A e \in AboutRequest(r) : e.index <= m.index
      BY <2>2, <2>4, <3>2, LastExists
    <3>4. /\ LastOf(AboutRequest(r)) \in AboutRequest(r)
          /\ \A f \in AboutRequest(r) : f.index <= LastOf(AboutRequest(r)).index
      BY <3>3, Zenon DEF LastOf
    <3>5. IsLast(LastOf(AboutRequest(r)), RequestsOf(r, h)) /\ LastOf(AboutRequest(r)) \in h
      BY <2>2, <3>1, <3>4 DEF IsLast
    <3>6. LastOf(AboutRequest(r)).status = FaceIn(truth, r)
      BY <3>5 DEF Tells
    <3>7. QED
      BY <2>2, <2>4, <3>6 DEF Timeline
  <2>5. QED
    BY <2>3, <2>4
<1>3. \A e \in h : e.type = "created" => truth.status[e.run] # "none"
  BY DEF Tells, AllStatuses, IsStatus, IsTurn
<1>4. QED
  BY <1>1, <1>2, <1>3, AlikeIs DEF Right

-----------------------------------------------------------------------------
(* What the commands append                                                 *)

Listed(s) == {s[i] : i \in DOMAIN s}

\* What a command says of another run comes before it creates its own.
Turning(s, r) ==
  \A i \in DOMAIN s : IsStatus(s[i]) /\ s[i].run # r =>
    \E j \in DOMAIN s : i < j /\ s[j].type = "created"

LEMMA ListedOne ==
  ASSUME NEW e
  PROVE  Listed(<<>>) = {} /\ Listed(<<e>>) = {e}
  BY DEF Listed

LEMMA ListedTwo ==
  ASSUME NEW e, NEW f
  PROVE  Listed(<<e, f>>) = {e, f}
<1>1. DOMAIN <<e, f>> = {1, 2} /\ <<e, f>>[1] = e /\ <<e, f>>[2] = f
  OBVIOUS
<1> DEFINE s == <<e, f>>
<1> HIDE DEF s
<1>2. DOMAIN s = {1, 2} /\ s[1] = e /\ s[2] = f => Listed(s) = {e, f}
  BY DEF Listed
<1>3. QED
  BY <1>1, <1>2 DEF s

LEMMA ListedTogether ==
  ASSUME NEW s \in Seq(Events), NEW t \in Seq(Events)
  PROVE  Listed(s \o t) = Listed(s) \union Listed(t)
<1> DEFINE u == s \o t
<1>1. /\ u \in Seq(Events) /\ Len(u) = Len(s) + Len(t) /\ Len(s) \in Nat /\ Len(t) \in Nat
      /\ \A i \in 1 .. Len(s) + Len(t) : u[i] = IF i <= Len(s) THEN s[i] ELSE t[i - Len(s)]
  BY ConcatProperties
<1>2. DOMAIN u = 1 .. Len(s) + Len(t) /\ DOMAIN s = 1 .. Len(s) /\ DOMAIN t = 1 .. Len(t)
  BY <1>1
<1> HIDE DEF u
<1>3. \A i \in DOMAIN u : u[i] \in Listed(s) \union Listed(t)
  <2>1. SUFFICES ASSUME NEW i \in DOMAIN u
                 PROVE  u[i] \in Listed(s) \union Listed(t)
    OBVIOUS
  <2>2. CASE i <= Len(s)
    BY <1>1, <1>2, <2>2 DEF Listed
  <2>3. CASE ~(i <= Len(s))
    <3>1. i - Len(s) \in DOMAIN t /\ u[i] = t[i - Len(s)]
      BY <1>1, <1>2, <2>3
    <3>2. QED
      BY <3>1 DEF Listed
  <2>4. QED
    BY <2>2, <2>3
<1>4. \A i \in DOMAIN s : i \in DOMAIN u /\ u[i] = s[i]
  BY <1>1, <1>2
<1>5. \A i \in DOMAIN t : i + Len(s) \in DOMAIN u /\ u[i + Len(s)] = t[i]
  BY <1>1, <1>2
<1>6. Listed(u) = Listed(s) \union Listed(t)
  BY <1>3, <1>4, <1>5 DEF Listed
<1>7. QED
  BY <1>6 DEF u

LEMMA WrittenIs ==
  ASSUME NEW t \in Truth, NEW r \in Runs, NEW s, NEW b, NEW q,
         NEW n, n = Written(t, r, s, b, q)
  PROVE  /\ n = Written(t, r, n.status[r], n.before[r], n.request[r])
         /\ n.status[r] = s /\ n.before[r] = b /\ n.request[r] = q /\ n.current = r
         /\ \A p \in Runs : p # r => /\ n.status[p] = t.status[p] /\ n.before[p] = t.before[p]
                                     /\ n.request[p] = t.request[p]
  BY DEF Written, Truth

\* A command about the current run.
LEMMA CurrentAdds ==
  ASSUME NEW t \in Truth, Sane(t), NEW r \in Runs, r = t.current,
         NEW s, NEW b, NEW q, NEW n, n = Written(t, r, s, b, q),
         s # "none", s = "paused" => b \in {"running", "waiting"},
         q = "pending" => s \in {"waiting", "paused", "terminated"},
         q = "pending" /\ s = "paused" => b = "waiting",
         NEW rows, rows # {},
         \A e \in rows : /\ e.run = r /\ (IsStatus(e) => e.status = s)
                         /\ IsRequest(e) => e.status = FaceIn(n, r),
         ~Alike(s, t.status[r]) => \E e \in rows : IsStatus(e),
         FaceIn(n, r) # FaceIn(t, r) => \E e \in rows : IsRequest(e)
  PROVE  Adds(rows, t, n, r)
<1>1. /\ n = Written(t, r, n.status[r], n.before[r], n.request[r])
      /\ n.status[r] = s /\ n.before[r] = b /\ n.request[r] = q /\ n.current = r
      /\ \A p \in Runs : p # r => /\ n.status[p] = t.status[p] /\ n.before[p] = t.before[p]
                                  /\ n.request[p] = t.request[p]
  BY WrittenIs
<1>2. Sane(n)
  BY <1>1 DEF Sane
<1>3. QED
  BY <1>1, <1>2 DEF Adds, Written

LEMMA MovedWrites ==
  ASSUME EventStreamTypeOK, NEW r \in Runs, NEW s
  PROVE  /\ [Moved(r, s) EXCEPT !.current = r]
              = Written(truth, r, s, truth.before[r], truth.request[r])
         /\ truth.current = r =>
              /\ Moved(r, s) = Written(truth, r, s, truth.before[r], truth.request[r])
              /\ \A b : [Moved(r, s) EXCEPT !.before[r] = b]
                          = Written(truth, r, s, b, truth.request[r])
<1>1. truth \in Truth
  BY DEF EventStreamTypeOK
<1>2. [truth.before EXCEPT ![r] = truth.before[r]] = truth.before
      /\ [truth.request EXCEPT ![r] = truth.request[r]] = truth.request
  BY <1>1 DEF Truth
<1>3. Moved(r, s) = [status |-> [truth.status EXCEPT ![r] = s], before |-> truth.before,
                     request |-> truth.request, current |-> truth.current]
  BY <1>1 DEF Truth, Moved
<1>4. [Moved(r, s) EXCEPT !.current = r] = Written(truth, r, s, truth.before[r], truth.request[r])
  BY <1>2, <1>3 DEF Written
<1>5. \A b : [Moved(r, s) EXCEPT !.before[r] = b] =
             [status |-> [truth.status EXCEPT ![r] = s], before |-> [truth.before EXCEPT ![r] = b],
              request |-> truth.request, current |-> truth.current]
  BY <1>3
<1>6. QED
  BY <1>2, <1>3, <1>4, <1>5 DEF Written

LEMMA RequestWrites ==
  ASSUME EventStreamTypeOK, NEW r \in Runs, truth.current = r, NEW s, NEW q
  PROVE  [Moved(r, s) EXCEPT !.request[r] = q] = Written(truth, r, s, truth.before[r], q)
<1>1. truth \in Truth
  BY DEF EventStreamTypeOK
<1>2. [truth.before EXCEPT ![r] = truth.before[r]] = truth.before
  BY <1>1 DEF Truth
<1>3. Moved(r, s) = [status |-> [truth.status EXCEPT ![r] = s], before |-> truth.before,
                     request |-> truth.request, current |-> truth.current]
  BY <1>1 DEF Truth, Moved
<1>4. QED
  BY <1>2, <1>3 DEF Written

LEMMA EventTells ==
  ASSUME NEW type, NEW r, NEW s
  PROVE  /\ Event(type, r, s).type = type /\ Event(type, r, s).run = r
         /\ Event(type, r, s).status = s
         /\ IsStatus(Event(type, r, s)) <=> type \in {"created", "status", "terminal"}
         /\ IsTurn(Event(type, r, s)) <=> type \in {"created", "status"}
         /\ IsRequest(Event(type, r, s)) <=> type \in {"ask", "answer"}
  BY DEF Event, IsStatus, IsTurn, IsRequest

LEMMA RefreshedList ==
  ASSUME EventStreamTypeOK, NEW r \in Runs, NEW face \in Faces
  PROVE  /\ Refreshed(r, face) \in Seq(Events)
         /\ Listed(Refreshed(r, face)) =
              IF truth.request[r] = "pending" THEN {Event("ask", r, face)} ELSE {}
<1>1. Refreshed(r, face) \in Seq(Events)
  BY RefreshedIs DEF Unnumbered0
<1>2. QED
  BY <1>1, ListedOne DEF Refreshed

LEMMA AskedList ==
  ASSUME EventStreamTypeOK, NEW r \in Runs, NEW face \in Faces, NEW e \in Events
  PROVE  LET rows == IF truth.request[r] = "pending" THEN {e, Event("ask", r, face)} ELSE {e}
         IN Listed(<<e>> \o Refreshed(r, face)) = rows /\ Listed(Refreshed(r, face) \o <<e>>) = rows
<1> DEFINE one == <<e>>
           asked == Refreshed(r, face)
<1>1. one \in Seq(Events)
  OBVIOUS
<1>2. Listed(one) = {e}
  BY ListedOne
<1>3. asked \in Seq(Events)
      /\ Listed(asked) = IF truth.request[r] = "pending" THEN {Event("ask", r, face)} ELSE {}
  BY RefreshedList
<1> HIDE DEF one, asked
<1>4. Listed(one \o asked) = Listed(one) \union Listed(asked)
      /\ Listed(asked \o one) = Listed(asked) \union Listed(one)
  BY <1>1, <1>3, ListedTogether
<1>5. /\ Listed(one \o asked) = IF truth.request[r] = "pending" THEN {e, Event("ask", r, face)} ELSE {e}
      /\ Listed(asked \o one) = IF truth.request[r] = "pending" THEN {e, Event("ask", r, face)} ELSE {e}
  BY <1>2, <1>3, <1>4
<1>6. QED
  BY <1>5 DEF one, asked

\* What a command about the current run appends and writes.
Does(c, r, s, b, q, rows) ==
  c.run = r /\ c.next = Written(truth, r, s, b, q) /\ Listed(c.events) = rows

LEMMA DoesIs ==
  ASSUME NEW events, NEW next, NEW r, NEW s, NEW b, NEW q, NEW rows,
         next = Written(truth, r, s, b, q), Listed(events) = rows
  PROVE  Does(Command(events, next, r), r, s, b, q, rows)
  BY DEF Does, Command

LEMMA DoesAdd ==
  ASSUME EventStreamTypeOK, Sane(truth), NEW r \in Runs, r = truth.current,
         NEW s, NEW b, NEW q, NEW rows, NEW c, Does(c, r, s, b, q, rows),
         s # "none", s = "paused" => b \in {"running", "waiting"},
         q = "pending" => s \in {"waiting", "paused", "terminated"},
         q = "pending" /\ s = "paused" => b = "waiting",
         rows # {},
         LET face == IF q # "pending" THEN q ELSE IF s = "waiting" THEN "open" ELSE "disabled"
         IN /\ \A e \in rows : /\ e.run = r /\ (IsStatus(e) => e.status = s)
                               /\ IsRequest(e) => e.status = face
            /\ FaceIn(truth, r) # face => \E e \in rows : IsRequest(e),
         ~Alike(s, truth.status[r]) => \E e \in rows : IsStatus(e)
  PROVE  /\ Adds(Listed(c.events), truth, c.next, c.run) /\ c.run = r
         /\ \A e \in Listed(c.events) : e.run = r
<1>1. truth \in Truth
  BY DEF EventStreamTypeOK
<1>2. c.run = r /\ c.next = Written(truth, r, s, b, q) /\ Listed(c.events) = rows
  BY DEF Does
<1>3. c.next.status[r] = s /\ c.next.request[r] = q
  BY <1>1, <1>2, WrittenIs
<1>4. FaceIn(c.next, r) = IF q # "pending" THEN q ELSE IF s = "waiting" THEN "open" ELSE "disabled"
  BY <1>3 DEF FaceIn
<1> DEFINE n == c.next
<1>5. n = Written(truth, r, s, b, q)
  BY <1>2
<1>6. Adds(rows, truth, n, r)
  <2> HIDE DEF n
  <2>1. FaceIn(n, r) = IF q # "pending" THEN q ELSE IF s = "waiting" THEN "open" ELSE "disabled"
    BY <1>4 DEF n
  <2>2. \A e \in rows : /\ e.run = r /\ (IsStatus(e) => e.status = s)
                        /\ IsRequest(e) => e.status = FaceIn(n, r)
    BY <2>1
  <2>3. FaceIn(n, r) # FaceIn(truth, r) => \E e \in rows : IsRequest(e)
    BY <2>1
  <2>4. QED
    BY <1>1, <1>5, <2>2, <2>3, CurrentAdds
<1>7. QED
  BY <1>2, <1>6

LEMMA CurrentCommandsAdd ==
  ASSUME EventStreamTypeOK, Sane(truth),
         NEW c \in PauseRun \union ResumeRun \union TerminateRun \union AskUser \union AnswerUser
                   \union FinishRun \union FailRun
  PROVE  /\ Adds(Listed(c.events), truth, c.next, c.run)
         /\ \A e \in Listed(c.events) : e.run = c.run
<1> DEFINE is(r) == truth.status[r]
           was(r) == truth.before[r]
           req(r) == truth.request[r]
<1>1. /\ {"running", "paused", "terminated", "waiting", "completed", "failed"} \subseteq Statuses
      /\ {"open", "disabled", "answered"} \subseteq Faces
  BY DEF Statuses, Over, Faces
<1>2. CASE c \in PauseRun
  <2>1. PICK r \in CurrentIn({"running", "waiting"}) :
          c = Command(<<Event("status", r, "paused")>> \o Refreshed(r, "disabled"),
                      [Moved(r, "paused") EXCEPT !.before[r] = truth.status[r]], r)
    BY <1>2 DEF PauseRun
  <2>2. r \in Runs /\ truth.current = r /\ truth.status[r] \in {"running", "waiting"}
    BY CurrentIs
  <2> DEFINE e == Event("status", r, "paused")
             rows == IF req(r) = "pending" THEN {e, Event("ask", r, "disabled")} ELSE {e}
  <2>3. [Moved(r, "paused") EXCEPT !.before[r] = is(r)] = Written(truth, r, "paused", is(r), req(r))
    BY <2>2, MovedWrites
  <2>4. Listed(<<e>> \o Refreshed(r, "disabled")) = rows
    <3>1. e \in Events
      BY <1>1, <2>2, EventIs
    <3> HIDE DEF e
    <3>2. QED
      BY <1>1, <2>2, <3>1, AskedList
  <2>5. Does(c, r, "paused", is(r), req(r), rows)
    BY <2>1, <2>3, <2>4, DoesIs
  <2>6. QED
    BY <2>2, <2>5, EventTells, DoesAdd DEF Sane, FaceIn
<1>3. CASE c \in ResumeRun
  <2>1. PICK r \in CurrentIn({"paused"}) :
          c = Command(<<Event("status", r, truth.before[r])>> \o Refreshed(r, "open"),
                      Moved(r, truth.before[r]), r)
    BY <1>3 DEF ResumeRun
  <2>2. r \in Runs /\ truth.current = r /\ truth.status[r] = "paused" /\ truth.before[r] \in Statuses
    BY CurrentIs
  <2> DEFINE e == Event("status", r, was(r))
             rows == IF req(r) = "pending" THEN {e, Event("ask", r, "open")} ELSE {e}
  <2>3. Moved(r, was(r)) = Written(truth, r, was(r), was(r), req(r))
    BY <2>2, MovedWrites
  <2>4. Listed(<<e>> \o Refreshed(r, "open")) = rows
    <3>1. e \in Events
      BY <2>2, EventIs
    <3> HIDE DEF e
    <3>2. QED
      BY <1>1, <2>2, <3>1, AskedList
  <2>5. Does(c, r, was(r), was(r), req(r), rows)
    BY <2>1, <2>3, <2>4, DoesIs
  <2>6. QED
    BY <2>2, <2>5, EventTells, DoesAdd DEF Sane, FaceIn
<1>4. CASE c \in TerminateRun
  <2>1. PICK r \in CurrentIn({"running", "waiting", "paused"}) :
          c = Command(Refreshed(r, "disabled") \o <<Event("terminal", r, "terminated")>>,
                      Moved(r, "terminated"), r)
    BY <1>4 DEF TerminateRun
  <2>2. r \in Runs /\ truth.current = r /\ truth.status[r] \in {"running", "waiting", "paused"}
    BY CurrentIs
  <2> DEFINE e == Event("terminal", r, "terminated")
             rows == IF req(r) = "pending" THEN {e, Event("ask", r, "disabled")} ELSE {e}
  <2>3. Moved(r, "terminated") = Written(truth, r, "terminated", was(r), req(r))
    BY <2>2, MovedWrites
  <2>4. Listed(Refreshed(r, "disabled") \o <<e>>) = rows
    <3>1. e \in Events
      BY <1>1, <2>2, EventIs
    <3> HIDE DEF e
    <3>2. QED
      BY <1>1, <2>2, <3>1, AskedList
  <2>5. Does(c, r, "terminated", was(r), req(r), rows)
    BY <2>1, <2>3, <2>4, DoesIs
  <2>6. QED
    BY <2>2, <2>5, EventTells, DoesAdd DEF Sane, FaceIn
<1>5. CASE c \in AskUser
  <2>1. PICK r \in CurrentIn({"running"}) :
          c = Command(<<Event("ask", r, "open")>>,
                      [Moved(r, "waiting") EXCEPT !.request[r] = "pending"], r)
    BY <1>5 DEF AskUser
  <2>2. r \in Runs /\ truth.current = r /\ truth.status[r] = "running"
    BY CurrentIs
  <2>3. [Moved(r, "waiting") EXCEPT !.request[r] = "pending"]
          = Written(truth, r, "waiting", was(r), "pending")
    BY <2>2, RequestWrites
  <2>4. Does(c, r, "waiting", was(r), "pending", {Event("ask", r, "open")})
    BY <2>1, <2>3, ListedOne, DoesIs
  <2>5. QED
    BY <2>2, <2>4, EventTells, DoesAdd DEF Sane, FaceIn, Alike, Settled, Over
<1>6. CASE c \in AnswerUser
  <2>1. PICK r \in CurrentIn({"waiting"}) :
          c = Command(<<Event("answer", r, "answered")>>,
                      [Moved(r, "running") EXCEPT !.request[r] = "answered"], r)
    BY <1>6 DEF AnswerUser
  <2>2. r \in Runs /\ truth.current = r /\ truth.status[r] = "waiting"
    BY CurrentIs
  <2>3. [Moved(r, "running") EXCEPT !.request[r] = "answered"]
          = Written(truth, r, "running", was(r), "answered")
    BY <2>2, RequestWrites
  <2>4. Does(c, r, "running", was(r), "answered", {Event("answer", r, "answered")})
    BY <2>1, <2>3, ListedOne, DoesIs
  <2>5. QED
    BY <2>2, <2>4, EventTells, DoesAdd DEF Sane, FaceIn, Alike, Settled, Over
<1>7. CASE c \in FinishRun
  <2>1. PICK r \in CurrentIn({"running"}) :
          c = Command(<<Event("status", r, "completed")>>, Moved(r, "completed"), r)
    BY <1>7 DEF FinishRun
  <2>2. r \in Runs /\ truth.current = r /\ truth.status[r] = "running"
    BY CurrentIs
  <2>3. Moved(r, "completed") = Written(truth, r, "completed", was(r), req(r))
    BY <2>2, MovedWrites
  <2>4. Does(c, r, "completed", was(r), req(r), {Event("status", r, "completed")})
    BY <2>1, <2>3, ListedOne, DoesIs
  <2>5. QED
    BY <2>2, <2>4, EventTells, DoesAdd DEF Sane, FaceIn
<1>8. CASE c \in FailRun
  <2>1. PICK r \in CurrentIn({"running"}) :
          c = Command(<<Event("stage", r, "running"), Event("terminal", r, "failed")>>,
                      Moved(r, "failed"), r)
    BY <1>8 DEF FailRun
  <2>2. r \in Runs /\ truth.current = r /\ truth.status[r] = "running"
    BY CurrentIs
  <2>3. Moved(r, "failed") = Written(truth, r, "failed", was(r), req(r))
    BY <2>2, MovedWrites
  <2>4. Does(c, r, "failed", was(r), req(r), {Event("stage", r, "running"), Event("terminal", r, "failed")})
    BY <2>1, <2>3, ListedTwo, DoesIs
  <2>5. QED
    BY <2>2, <2>4, EventTells, DoesAdd DEF Sane, FaceIn
<1>9. QED
  BY <1>2, <1>3, <1>4, <1>5, <1>6, <1>7, <1>8

\* Two users may both rerun the same run; a rerun's run is new to the session.
LEMMA RerunAdds ==
  ASSUME EventStreamTypeOK, Sane(truth), NEW c \in Rerun
  PROVE  Adds(Listed(c.events), truth, c.next, c.run) /\ Turning(c.events, c.run)
<1>1. PICK old \in CurrentIn({"failed", "terminated"}), new \in Fresh : c = RerunOf(old, new)
  BY DEF Rerun
<1>2. old \in Runs /\ truth.current = old /\ truth.status[old] \in {"failed", "terminated"}
  BY CurrentIs
<1>3. new \in Runs /\ truth.status[new] = "none" /\ new # old
  BY <1>2 DEF Fresh
<1> DEFINE e == Event("terminal", old, truth.status[old])
           f == Event("created", new, "running")
           b == truth.before[new]
           q == truth.request[new]
           n == c.next
<1>4. /\ e.run = old /\ IsStatus(e) /\ ~IsTurn(e) /\ ~IsRequest(e) /\ e.status = truth.status[old]
      /\ f.run = new /\ f.type = "created" /\ IsStatus(f) /\ ~IsRequest(f) /\ f.status = "running"
  BY EventTells
<1>5. c.run = new /\ c.events = <<e, f>> /\ n = [Moved(new, "running") EXCEPT !.current = new]
  BY <1>1 DEF RerunOf, Command
<1>6. n = Written(truth, new, "running", b, q)
  BY <1>3, <1>5, MovedWrites
<1> HIDE DEF e, f, n
<1>7. Listed(c.events) = {e, f}
  BY <1>5, ListedTwo
<1>8. /\ n = Written(truth, new, n.status[new], n.before[new], n.request[new])
      /\ n.status[new] = "running" /\ n.before[new] = b /\ n.request[new] = q /\ n.current = new
      /\ \A p \in Runs : p # new => /\ n.status[p] = truth.status[p] /\ n.before[p] = truth.before[p]
                                    /\ n.request[p] = truth.request[p]
  BY <1>3, <1>6, WrittenIs DEF EventStreamTypeOK
<1>9. truth.request[new] # "pending" /\ new # NoRun
  BY <1>3, EventStreamAssumption DEF Sane
<1>10. Sane(n)
  BY <1>8, <1>9 DEF Sane
<1>11. Adds({e, f}, truth, n, new)
  BY <1>2, <1>3, <1>4, <1>8, <1>9, <1>10 DEF Adds, FaceIn
<1>12. Turning(c.events, new)
  <2>1. DOMAIN <<e, f>> = {1, 2} /\ <<e, f>>[1] = e /\ <<e, f>>[2] = f
    OBVIOUS
  <2> DEFINE s == c.events
  <2>2. DOMAIN s = {1, 2} /\ s[1] = e /\ s[2] = f
    BY <1>5, <2>1
  <2> HIDE DEF s
  <2>3. Turning(s, new)
    BY <1>4, <2>2 DEF Turning
  <2>4. QED
    BY <2>3 DEF s
<1>13. QED
  BY <1>5, <1>7, <1>11, <1>12 DEF n

LEMMA CommandsAdd ==
  ASSUME EventStreamTypeOK, Sane(truth), NEW c \in (ByUsers \union ByWorker) \ StartFirstRun
  PROVE  Adds(Listed(c.events), truth, c.next, c.run) /\ Turning(c.events, c.run)
<1>1. CASE c \in Rerun
  BY <1>1, RerunAdds
<1>2. CASE c \notin Rerun
  <2>1. /\ Adds(Listed(c.events), truth, c.next, c.run)
        /\ \A e \in Listed(c.events) : e.run = c.run
    BY <1>2, CurrentCommandsAdd DEF ByUsers, ByWorker
  <2>2. QED
    BY <2>1 DEF Turning, Listed
<1>3. QED
  BY <1>1, <1>2

\* A start commits one event, and writes that its run is running and current.
LEMMA StartWrites ==
  ASSUME EventStreamTypeOK, NEW c \in StartFirstRun
  PROVE  /\ c.next = [truth EXCEPT !.status[c.run] = "running", !.current = c.run]
         /\ Listed(c.events) # {}
         /\ \A e \in Listed(c.events) :
              e.type = "created" /\ e.run = c.run /\ e.status = "running"
<1>1. PICK r : c = Command(<<Event("created", r, "running")>>,
                           [Moved(r, "running") EXCEPT !.current = r], r)
  BY DEF StartFirstRun
<1> DEFINE e == Event("created", r, "running")
<1>2. e.type = "created" /\ e.run = r /\ e.status = "running"
  BY EventTells
<1>3. c.run = r /\ c.events = <<e>> /\ c.next = [Moved(r, "running") EXCEPT !.current = r]
  BY <1>1 DEF Command
<1> HIDE DEF e
<1>4. Listed(c.events) = {e}
  BY <1>3, ListedOne
<1>5. QED
  BY <1>2, <1>3, <1>4 DEF Moved

-----------------------------------------------------------------------------
(* What a command has still to commit                                       *)

Carried(c) == c.rows \union Listed(c.todo)

\* What a command says of another run comes before it creates its own, also while it
\* numbers its rows one by one.
Orderly(c) ==
  /\ Turning(c.todo, c.run)
  /\ \A e \in c.rows : IsStatus(e) /\ e.run # c.run =>
       \/ \E f \in Listed(c.todo) : f.type = "created"
       \/ \E f \in c.rows : f.type = "created" /\ e.index < f.index

Carries(c) ==
  /\ c.from # <<>> /\ Adds(Carried(c), Head(c.from), Head(c.next), c.run)
  /\ Orderly(c)

\* The events that create a run.
Opens(rows, r) ==
  rows # {} /\ \A e \in rows : e.type = "created" /\ e.run = r /\ e.status = "running"

\* The same but for its number.
Kindred(e, f) == e.type = f.type /\ e.run = f.run /\ e.status = f.status

LEMMA KindredAdd ==
  ASSUME NEW rows, NEW t, NEW n, NEW r, Adds(rows, t, n, r), NEW others,
         \A e \in others : \E f \in rows : Kindred(e, f),
         \A f \in rows : \E e \in others : Kindred(e, f)
  PROVE  Adds(others, t, n, r)
<1>1. \A e \in others : \E f \in rows :
        Kindred(e, f) /\ (IsTurn(e) <=> IsTurn(f)) /\ (IsStatus(e) <=> IsStatus(f))
        /\ (IsRequest(e) <=> IsRequest(f))
  BY DEF Kindred, IsTurn, IsStatus, IsRequest
<1>2. \A f \in rows : \E e \in others :
        Kindred(e, f) /\ (IsTurn(e) <=> IsTurn(f)) /\ (IsStatus(e) <=> IsStatus(f))
        /\ (IsRequest(e) <=> IsRequest(f))
  BY DEF Kindred, IsTurn, IsStatus, IsRequest
<1>3. others # {}
  BY <1>2 DEF Adds
<1>4. ASSUME NEW e \in others
      PROVE  /\ IsTurn(e) => e.run = r
             /\ IsStatus(e) => e.status # "none" /\ e.status = n.status[e.run]
             /\ IsStatus(e) /\ e.run # r => e.run = t.current
             /\ IsRequest(e) => e.run = r /\ e.status = FaceIn(n, r)
             /\ r # t.current /\ IsStatus(e) /\ e.run = r => e.type = "created"
  <2>1. PICK f \in rows :
          Kindred(e, f) /\ (IsTurn(e) <=> IsTurn(f)) /\ (IsStatus(e) <=> IsStatus(f))
          /\ (IsRequest(e) <=> IsRequest(f))
    BY <1>1
  <2>2. QED
    BY <2>1 DEF Adds, Kindred
<1>5. /\ ~Alike(n.status[r], t.status[r]) => \E e \in others : IsStatus(e) /\ e.run = r
      /\ FaceIn(n, r) # FaceIn(t, r) => \E e \in others : IsRequest(e)
      /\ r # t.current => \E e \in others : e.type = "created"
  <2>1. ~Alike(n.status[r], t.status[r]) => \E f \in rows : IsStatus(f) /\ f.run = r
    BY DEF Adds
  <2>2. FaceIn(n, r) # FaceIn(t, r) => \E f \in rows : IsRequest(f)
    BY DEF Adds
  <2>3. r # t.current => \E f \in rows : f.type = "created"
    BY DEF Adds
  <2>4. QED
    BY <1>2, <2>1, <2>2, <2>3 DEF Kindred
<1>6. QED
  BY <1>3, <1>4, <1>5 DEF Adds

LEMMA NumberedList ==
  ASSUME NEW todo \in Seq(Events), todo # <<>>, NEW n \in Nat
  PROVE  /\ DOMAIN Numbering(todo, n) = DOMAIN todo
         /\ \A i \in DOMAIN todo : Kindred(Numbering(todo, n)[i], todo[i])
<1>1. DOMAIN Numbering(todo, n) = DOMAIN todo
  BY DEF Numbering
<1>2. todo[1] \in Events
  OBVIOUS
<1>3. Kindred([todo[1] EXCEPT !.index = n], todo[1])
  BY <1>2 DEF Kindred, Events, RunEvents, RequestEvents
<1>4. QED
  BY <1>1, <1>3 DEF Numbering, Kindred

LEMMA FlushedList ==
  ASSUME NEW todo \in Seq(Events), todo # <<>>, NEW r
  PROVE  /\ Listed(todo) = {Head(todo)} \union Listed(Tail(todo))
         /\ Turning(todo, r) =>
              /\ Turning(Tail(todo), r)
              /\ IsStatus(Head(todo)) /\ Head(todo).run # r =>
                   \E f \in Listed(Tail(todo)) : f.type = "created"
<1> DEFINE rest == Tail(todo)
<1>1. /\ rest \in Seq(Events) /\ Len(rest) = Len(todo) - 1 /\ Len(todo) \in Nat \ {0}
      /\ \A i \in 1 .. Len(rest) : rest[i] = todo[i + 1]
  BY HeadTailProperties, EmptySeq
<1>2. DOMAIN todo = 1 .. Len(todo) /\ DOMAIN rest = 1 .. Len(todo) - 1 /\ Head(todo) = todo[1]
  BY <1>1
<1> HIDE DEF rest
<1>3. /\ \A i \in DOMAIN rest : i + 1 \in DOMAIN todo /\ rest[i] = todo[i + 1]
      /\ \A i \in DOMAIN todo : i # 1 => i - 1 \in DOMAIN rest /\ rest[i - 1] = todo[i]
      /\ 1 \in DOMAIN todo
  <2>1. ASSUME NEW i \in DOMAIN todo, i # 1
        PROVE  i - 1 \in DOMAIN rest /\ rest[i - 1] = todo[i]
    <3>1. i - 1 \in 1 .. Len(rest) /\ (i - 1) + 1 = i
      BY <1>1, <1>2, <2>1
    <3>2. rest[i - 1] = todo[(i - 1) + 1]
      BY <1>1, <3>1
    <3>3. QED
      BY <1>1, <1>2, <3>1, <3>2
  <2>2. QED
    BY <1>1, <1>2, <2>1
<1>4. Listed(todo) = {Head(todo)} \union Listed(rest)
  <2>1. ASSUME NEW i \in DOMAIN todo
        PROVE  todo[i] \in {Head(todo)} \union Listed(rest)
    BY <1>2, <1>3 DEF Listed
  <2>2. Listed(rest) \subseteq Listed(todo)
    BY <1>3 DEF Listed
  <2>3. QED
    BY <1>2, <1>3, <2>1, <2>2 DEF Listed
<1>5. ASSUME Turning(todo, r)
      PROVE  /\ Turning(rest, r)
             /\ IsStatus(Head(todo)) /\ Head(todo).run # r =>
                  \E f \in Listed(rest) : f.type = "created"
  <2>1. ASSUME NEW i \in DOMAIN rest, IsStatus(rest[i]), rest[i].run # r
        PROVE  \E j \in DOMAIN rest : i < j /\ rest[j].type = "created"
    <3>1. PICK j \in DOMAIN todo : i + 1 < j /\ todo[j].type = "created"
      BY <1>3, <1>5, <2>1 DEF Turning
    <3>2. j - 1 \in DOMAIN rest /\ rest[j - 1] = todo[j] /\ i < j - 1
      BY <1>1, <1>2, <1>3, <3>1
    <3>3. QED
      BY <3>1, <3>2
  <2>2. ASSUME IsStatus(Head(todo)), Head(todo).run # r
        PROVE  \E f \in Listed(rest) : f.type = "created"
    <3>1. PICK j \in DOMAIN todo : 1 < j /\ todo[j].type = "created"
      BY <1>2, <1>3, <1>5, <2>2 DEF Turning
    <3>2. j - 1 \in DOMAIN rest /\ rest[j - 1] = todo[j]
      BY <1>3, <3>1
    <3>3. QED
      BY <3>1, <3>2 DEF Listed
  <2>3. QED
    BY <2>1, <2>2 DEF Turning
<1>6. QED
  BY <1>4, <1>5 DEF rest

\* A command keeps what it carries when it numbers a row ...
LEMMA NumberedCarries ==
  ASSUME NEW c, NEW n \in Nat, c.todo \in Seq(Events), c.todo # <<>>,
         NEW row, row.todo = Numbering(c.todo, n), row.rows = c.rows, row.run = c.run
  PROVE  /\ \A r : Opens(Carried(c), r) => Opens(Carried(row), r)
         /\ Carries(c) /\ row.next = c.next /\ row.from = c.from => Carries(row)
<1>1. /\ DOMAIN row.todo = DOMAIN c.todo
      /\ \A i \in DOMAIN c.todo : Kindred(row.todo[i], c.todo[i])
  BY NumberedList
<1>2. /\ \A e \in Carried(row) : \E f \in Carried(c) : Kindred(e, f)
      /\ \A f \in Carried(c) : \E e \in Carried(row) : Kindred(e, f)
  <2>1. /\ \A e \in Listed(row.todo) : \E f \in Listed(c.todo) : Kindred(e, f)
        /\ \A f \in Listed(c.todo) : \E e \in Listed(row.todo) : Kindred(e, f)
    BY <1>1 DEF Listed
  <2>2. \A e : Kindred(e, e)
    BY DEF Kindred
  <2>3. QED
    BY <2>1, <2>2 DEF Carried
<1>3. \A r : Opens(Carried(c), r) => Opens(Carried(row), r)
  BY <1>2 DEF Opens, Kindred
<1>4. ASSUME Orderly(c)
      PROVE  Orderly(row)
  <2>1. Turning(row.todo, row.run)
    BY <1>1, <1>4 DEF Orderly, Turning, Kindred, IsStatus, IsTurn
  <2>2. (\E f \in Listed(c.todo) : f.type = "created") => \E f \in Listed(row.todo) : f.type = "created"
    BY <1>1 DEF Listed, Kindred
  <2>3. QED
    BY <1>4, <2>1, <2>2 DEF Orderly
<1>5. QED
  BY <1>2, <1>3, <1>4, KindredAdd DEF Carries

\* ... and when it flushes it, above what it has flushed.
LEMMA FlushedCarries ==
  ASSUME NEW c, c.todo \in Seq(Events), c.todo # <<>>,
         \A g \in c.rows : g.index < Head(c.todo).index,
         NEW row, row.todo = Tail(c.todo), row.rows = c.rows \union {Head(c.todo)},
         row.run = c.run
  PROVE  /\ Carried(row) = Carried(c)
         /\ Carries(c) /\ row.next = c.next /\ row.from = c.from => Carries(row)
<1>1. /\ Listed(c.todo) = {Head(c.todo)} \union Listed(row.todo)
      /\ Turning(c.todo, c.run) =>
           /\ Turning(row.todo, c.run)
           /\ IsStatus(Head(c.todo)) /\ Head(c.todo).run # c.run =>
                   \E f \in Listed(row.todo) : f.type = "created"
  BY FlushedList
<1>2. Carried(row) = Carried(c)
  BY <1>1 DEF Carried
<1>3. ASSUME Orderly(c)
      PROVE  Orderly(row)
  <2>1. ASSUME NEW e \in row.rows, IsStatus(e), e.run # row.run
        PROVE  \/ \E f \in Listed(row.todo) : f.type = "created"
               \/ \E f \in row.rows : f.type = "created" /\ e.index < f.index
    <3>1. CASE e = Head(c.todo)
      BY <1>1, <1>3, <2>1, <3>1 DEF Orderly
    <3>2. CASE e \in c.rows
      BY <1>1, <1>3, <2>1, <3>2 DEF Orderly
    <3>3. QED
      BY <2>1, <3>1, <3>2
  <2>2. QED
    BY <1>1, <1>3, <2>1 DEF Orderly
<1>4. QED
  BY <1>2, <1>3 DEF Carries

\* A command that has nothing left to number.
LEMMA DoneCarries ==
  ASSUME NEW c, c.todo = <<>>, Carries(c)
  PROVE  /\ Carried(c) = c.rows /\ InTurn(c.rows, c.run)
         /\ Adds(c.rows, Head(c.from), Head(c.next), c.run)
<1>1. Listed(c.todo) = {}
  BY ListedOne
<1>2. QED
  BY <1>1 DEF Carries, Carried, Orderly, InTurn

-----------------------------------------------------------------------------
(* The invariant                                                            *)

\* What is committed or sure to be: the log, and the rows of a command whose control
\* and runtime rows are committed.
SettledRows == UNION {writer[w].rows : w \in {v \in Writers : writer[v].at = "settled"}}
History == log \union SettledRows

\* The page was shown the log from its beginning, leaving nothing out.
Prefix == \A e \in log, i \in page.seen : e.index <= i => e.index \in page.seen

PageTold ==
  Prefix =>
    /\ page.view # <<>> => Right(page.view, truth, History, page.seen)
    /\ page.reply # <<>> /\ Head(page.reply).seen = page.seen =>
         Right(Head(page.reply).view, truth, History, page.seen)

Blank(v) ==
  /\ v.current = NoRun /\ v.status = "none"
  /\ \A r \in Runs : v.runs[r] = "none" /\ v.feed[r] = "none"

\* In a draft there is nothing to tell.
DraftTold ==
  /\ \A r \in Runs : truth.status[r] = "none" /\ truth.request[r] = "none"
  /\ page.view # <<>> => Blank(page.view)
  /\ page.reply # <<>> => Blank(Head(page.reply).view)

Told ==
  /\ truth.current = NoRun => DraftTold
  /\ truth.current # NoRun => Tells(History, truth) /\ PageTold

\* A start is the only hidden one, and opens its run.
Starts(w) ==
  /\ hidden = {writer[w].run}
  /\ writer[w].next = <<[truth EXCEPT !.status[writer[w].run] = "running",
                                      !.current = writer[w].run]>>
  /\ writer[w].at = "starting" => Opens(Carried(writer[w]), writer[w].run)
  /\ writer[w].at = "publishing" => Opens(log, writer[w].run)

OpeningInv ==
  /\ \A w \in Writers : Starter(w) => Starts(w)
  /\ truth.current # NoRun => hidden = {}

\* The page is shown numbers that rise, and a reply is not ahead of it.
RisingInv ==
  /\ "leaked" \notin astray /\ stream.open =>
       /\ \A i \in page.seen : i <= stream.cursor
       /\ \A e \in stream.batch : stream.cursor < e.index
       /\ \A e, f \in stream.batch : e.index = f.index => e = f
  /\ page.reply # <<>> => Head(page.reply).seen \subseteq page.seen /\ page.view # <<>>

CarryInv == astray = {} => \A w \in Writers : writer[w].at = "open" => Carries(writer[w])
ToldInv == astray = {} => Told

AgreeInv == OpeningInv /\ RisingInv /\ CarryInv /\ ToldInv

LEMMA HistoryIs ==
  ASSUME BaseInv
  PROVE  /\ History \in SUBSET Events /\ SettledRows \in SUBSET Events
         /\ \A e \in log, g \in SettledRows : e.index < g.index
         /\ \A e, f \in History : e.index = f.index => e = f
<1>1. EventStreamTypeOK /\ LockInv /\ NumberInv
  BY DEF BaseInv, OrderInv
<1>2. \A g \in SettledRows : \E w \in Writers : g \in writer[w].rows
  BY DEF SettledRows
<1>3. SettledRows \in SUBSET Events /\ log \in SUBSET Events
  BY <1>1, <1>2, TransactionIs DEF EventStreamTypeOK
<1>4. \A e \in log, g \in SettledRows : e.index < g.index
  BY <1>1, <1>2 DEF NumberInv, RowsAbove
<1>5. \A e, f \in SettledRows : e.index = f.index => e = f
  <2>1. SUFFICES ASSUME NEW e \in SettledRows, NEW f \in SettledRows, e.index = f.index
                 PROVE  e = f
    OBVIOUS
  <2>2. PICK w \in Writers : e \in writer[w].rows
    BY <1>2
  <2>3. f \in writer[w].rows
    BY <1>1, <1>2, <2>2, OneAtATime
  <2>4. RowsAbove(w)
    BY <1>1 DEF NumberInv
  <2>5. QED
    BY <2>1, <2>2, <2>3, <2>4 DEF RowsAbove
<1>6. \A e, f \in log : e.index = f.index => e = f
  BY <1>1 DEF NumberInv
<1>7. \A e \in Events : e.index \in Nat
  BY KindsAre
<1>8. \A e \in log, g \in SettledRows : e.index # g.index
  BY <1>3, <1>4, <1>7
<1>9. QED
  BY <1>3, <1>4, <1>5, <1>6, <1>8 DEF History

\* No other start is under way after a step of a command.
LEMMA NoOtherStart ==
  ASSUME BaseInv, NEW w \in Writers, WriterStep(w), NEW v \in Writers, v # w
  PROVE  ~Starter(v) /\ ~Starter(v)'
<1>1. EventStreamTypeOK /\ LockInv /\ StartInv
  BY DEF BaseInv, OrderInv
<1>2. writer'[v] = writer[v] => (Starter(v)' <=> Starter(v))
  BY DEF Starter
<1>3. CASE Begin(w)
  <2>1. PICK c \in Commands(w) :
           /\ Becomes(w, [at |-> IF c \in StartFirstRun THEN "starting" ELSE "open",
                          todo |-> c.events, rows |-> {}, next |-> <<c.next>>,
                          from |-> <<truth>>, run |-> c.run])
           /\ (c \notin StartFirstRun => truth.current # NoRun)
    BY <1>1, <1>3, BeginDoes
  <2>2. writer'[v] = writer[v]
    BY <2>1 DEF Becomes
  <2>3. CASE c \in StartFirstRun
    <3>1. hidden = {}
      BY <1>1, <2>3, StartIs
    <3>2. QED
      BY <1>1, <1>2, <2>2, <3>1 DEF StartInv, StartsHidden
  <2>4. CASE c \notin StartFirstRun
    BY <1>1, <1>2, <2>1, <2>2, <2>4, NoStarters
  <2>5. QED
    BY <2>3, <2>4
<1>4. CASE ~Begin(w)
  <2>1. writer[w].at # "idle" /\ writer'[v] = writer[v]
    <3>1. writer[w].todo # <<>> => writer[w].at # "idle"
      BY <1>1 DEF LockInv, OwnLocks
    <3>2. writer[w].at # "idle"
      BY <1>4, <3>1 DEF WriterStep, Proceed, TakeNumber, FlushRow, CommitRows, CommitEvents,
                    CommitStartEvents, Publish, BusyTimeout, RollBack, AbortStart
    <3>3. writer'[v] = writer[v]
      BY <1>1, <1>4 DEF WriterStep, Proceed, TakeNumber, FlushRow, CommitRows, CommitEvents,
           CommitStartEvents, Publish, BusyTimeout, RollBack, AbortStart, Undo, EventStreamTypeOK
    <3>4. QED
      BY <3>2, <3>3
  <2>2. QED
    BY <1>1, <1>2, <2>1, OnlyStarter
<1>5. QED
  BY <1>3, <1>4

\* What an append leaves alone, and what it makes of a transaction.
LEMMA AppendDoes ==
  ASSUME EventStreamTypeOK, LockInv, NumberInv, NEW w \in Writers, TakeNumber(w) \/ FlushRow(w)
  PROVE  \E row :
           /\ Becomes(w, row) /\ row.at = writer[w].at /\ row.run = writer[w].run
           /\ row.next = writer[w].next /\ row.from = writer[w].from
           /\ \A r : Opens(Carried(writer[w]), r) => Opens(Carried(row), r)
           /\ Carries(writer[w]) => Carries(row)
           /\ writer[w].at \in {"open", "starting"}
           /\ UNCHANGED <<truth, hidden, log, astray>>
<1>1. writer[w].todo \in Seq(Events) /\ writer[w].at \in Places
  BY TransactionIs
<1>2. writer[w].todo # <<>> => writer[w].at \in {"open", "starting"}
  BY <1>1 DEF LockInv, OwnLocks, Places
<1>3. CASE TakeNumber(w)
  <2> DEFINE row == [at |-> writer[w].at, todo |-> Numbering(writer[w].todo, NextIndex(w)),
                     rows |-> writer[w].rows, next |-> writer[w].next,
                     from |-> writer[w].from, run |-> writer[w].run]
  <2>1. /\ writer[w].todo # <<>> /\ Becomes(w, row) /\ NextIndex(w) \in Nat
        /\ UNCHANGED <<truth, hidden, log, astray>>
    BY <1>3, TakeNumberDoes, NextIndexIs DEF TakeNumber
  <2>2. /\ row.at = writer[w].at /\ row.run = writer[w].run /\ row.next = writer[w].next
        /\ row.from = writer[w].from /\ row.rows = writer[w].rows
        /\ row.todo = Numbering(writer[w].todo, NextIndex(w))
    OBVIOUS
  <2> HIDE DEF row
  <2>3. /\ \A r : Opens(Carried(writer[w]), r) => Opens(Carried(row), r)
        /\ Carries(writer[w]) => Carries(row)
    BY <1>1, <2>1, <2>2, NumberedCarries
  <2>4. QED
    BY <1>2, <2>1, <2>2, <2>3
<1>4. CASE FlushRow(w)
  <2> DEFINE row == [at |-> writer[w].at, todo |-> Tail(writer[w].todo),
                     rows |-> writer[w].rows \union {Head(writer[w].todo)},
                     next |-> writer[w].next, from |-> writer[w].from,
                     run |-> writer[w].run]
  <2>1. /\ writer[w].todo # <<>> /\ Head(writer[w].todo).index # 0 /\ Becomes(w, row)
        /\ UNCHANGED <<truth, hidden, log, astray>>
    BY <1>4, FlushRowDoes DEF FlushRow
  <2>2. /\ row.at = writer[w].at /\ row.run = writer[w].run /\ row.next = writer[w].next
        /\ row.from = writer[w].from /\ row.rows = writer[w].rows \union {Head(writer[w].todo)}
        /\ row.todo = Tail(writer[w].todo)
    OBVIOUS
  <2> HIDE DEF row
  <2>3. \A g \in writer[w].rows : g.index < Head(writer[w].todo).index
    BY <2>1 DEF NumberInv, NumberAbove, Numbered, Number
  <2>4. Carried(row) = Carried(writer[w]) /\ (Carries(writer[w]) => Carries(row))
    BY <1>1, <2>1, <2>2, <2>3, FlushedCarries
  <2>5. QED
    BY <1>2, <2>1, <2>2, <2>4
<1>5. QED
  BY <1>3, <1>4

\* Where a command is after its commits and its end.
LEMMA PlaceAfter ==
  ASSUME EventStreamTypeOK, NEW w \in Writers
  PROVE  /\ CommitRows(w) => writer'[w].at = "settled"
         /\ CommitStartEvents(w) => writer'[w].at = "publishing"
         /\ CommitEvents(w) \/ Publish(w) \/ Undo(w) => writer'[w].at = "idle"
<1>1. writer \in [Writers -> Transaction]
  BY DEF EventStreamTypeOK
<1>2. CommitRows(w) => writer'[w].at = "settled"
  BY <1>1 DEF CommitRows, Transaction
<1>3. CommitStartEvents(w) => writer'[w].at = "publishing"
  BY <1>1 DEF CommitStartEvents, Transaction
<1>4. CommitEvents(w) \/ Publish(w) \/ Undo(w) => writer'[w].at = "idle"
  BY <1>1 DEF CommitEvents, Publish, Undo, Idle
<1>5. QED
  BY <1>2, <1>3, <1>4

\* A start is the only one that is hidden, and publishes the session's first run.
LEMMA WriterStepOpening ==
  ASSUME BaseInv, OpeningInv, NEW w \in Writers, WriterStep(w)
  PROVE  OpeningInv'
<1>1. /\ EventStreamTypeOK /\ LockInv /\ NumberInv /\ StartInv
      /\ StartsHidden(w) /\ RunIsCurrent(w) /\ LogOfStart(w)
      /\ OwnLocks(writer[w], w, numberLock, writeLock)
  BY DEF BaseInv, OrderInv, StartInv, LockInv
<1>2. SUFFICES /\ Starter(w)' => Starts(w)'
               /\ truth'.current # NoRun => hidden' = {}
  BY NoOtherStart DEF OpeningInv
<1>3. Starter(w) => Starts(w)
  BY DEF OpeningInv
<1>4. truth.current # NoRun => hidden = {} /\ ~Starter(w)
  BY <1>1, NoStarters DEF OpeningInv
<1>5. CASE Begin(w)
  <2>1. PICK c \in Commands(w) :
           /\ Becomes(w, [at |-> IF c \in StartFirstRun THEN "starting" ELSE "open",
                          todo |-> c.events, rows |-> {}, next |-> <<c.next>>,
                          from |-> <<truth>>, run |-> c.run])
           /\ (c \notin StartFirstRun => truth.current # NoRun)
           /\ hidden' = IF c \in StartFirstRun THEN hidden \union {c.run} ELSE hidden
    BY <1>1, <1>5, BeginDoes
  <2> DEFINE row == [at |-> IF c \in StartFirstRun THEN "starting" ELSE "open",
                     todo |-> c.events, rows |-> {}, next |-> <<c.next>>,
                     from |-> <<truth>>, run |-> c.run]
  <2>2. /\ writer'[w] = row /\ row.rows = {} /\ row.todo = c.events /\ row.run = c.run
        /\ row.next = <<c.next>> /\ row.at = IF c \in StartFirstRun THEN "starting" ELSE "open"
    BY <2>1 DEF Becomes
  <2> HIDE DEF row
  <2>3. UNCHANGED <<truth, log>>
    BY <1>5 DEF Begin
  <2>4. CASE c \in StartFirstRun
    <3>1. /\ truth.current = NoRun /\ hidden = {}
          /\ c.next = [truth EXCEPT !.status[c.run] = "running", !.current = c.run]
          /\ Opens(Listed(c.events), c.run)
      BY <1>1, <2>4, StartIs, StartWrites DEF Opens
    <3>2. Carried(row) = Listed(c.events)
      BY <2>2 DEF Carried
    <3>3. Starts(w)'
      BY <2>1, <2>2, <2>3, <2>4, <3>1, <3>2 DEF Starts
    <3>4. QED
      BY <2>3, <3>1, <3>3
  <2>5. CASE c \notin StartFirstRun
    BY <1>4, <2>1, <2>2, <2>3, <2>5 DEF Starter
  <2>6. QED
    BY <2>4, <2>5
<1>6. CASE TakeNumber(w) \/ FlushRow(w)
  <2>1. PICK row :
           /\ Becomes(w, row) /\ row.at = writer[w].at /\ row.run = writer[w].run
           /\ row.next = writer[w].next
           /\ \A r : Opens(Carried(writer[w]), r) => Opens(Carried(row), r)
           /\ writer[w].at \in {"open", "starting"}
           /\ UNCHANGED <<truth, hidden, log>>
    BY <1>1, <1>6, AppendDoes
  <2>2. writer'[w] = row
    BY <2>1 DEF Becomes
  <2>3. Starter(w)' => Starts(w)'
    BY <1>3, <2>1, <2>2 DEF Starter, Starts
  <2>4. QED
    BY <1>4, <2>1, <2>3
<1>7. CASE CommitRows(w)
  <2>1. writer[w].at = "open" /\ writer'[w].at = "settled" /\ hidden' = hidden
    BY <1>1, <1>7, PlaceAfter DEF CommitRows
  <2>2. QED
    BY <1>1, <1>4, <2>1 DEF RunIsCurrent, Starter
<1>8. CASE CommitEvents(w)
  <2>1. writer[w].at = "settled" /\ writer'[w].at = "idle" /\ hidden' = hidden
    BY <1>1, <1>8, PlaceAfter DEF CommitEvents
  <2>2. QED
    BY <1>1, <1>4, <2>1 DEF RunIsCurrent, Starter
<1>9. CASE CommitStartEvents(w)
  <2> DEFINE row == [at |-> "publishing", todo |-> <<>>, rows |-> {},
                     next |-> writer[w].next, from |-> writer[w].from,
                     run |-> writer[w].run]
  <2>1. /\ writer[w].at = "starting" /\ writer[w].todo = <<>> /\ writer'[w] = row
        /\ log' = log \union writer[w].rows /\ UNCHANGED <<truth, hidden>>
    BY <1>1, <1>9, CommitStartEventsDoes DEF Becomes, CommitStartEvents
  <2>2. row.at = "publishing" /\ row.next = writer[w].next /\ row.run = writer[w].run
    OBVIOUS
  <2> HIDE DEF row
  <2>3. Starts(w) /\ truth.current = NoRun /\ log = {}
    BY <1>1, <1>3, <2>1 DEF Starter, StartsHidden, LogOfStart
  <2>4. Carried(writer[w]) = log'
    BY <2>1, <2>3, ListedOne DEF Carried
  <2>5. QED
    BY <2>1, <2>2, <2>3, <2>4 DEF Starts
<1>10. CASE Publish(w)
  <2>1. writer[w].next # <<>>
    BY <1>1, <1>10 DEF EventStreamTypeOK, HasNext, Publish
  <2>2. /\ writer[w].at = "publishing" /\ writer'[w].at = "idle"
        /\ hidden' = hidden \ {writer[w].run}
    BY <1>1, <1>10, <2>1, PublishDoes DEF Becomes, Idle
  <2>3. QED
    BY <1>3, <2>2 DEF Starter, Starts
<1>11. CASE BusyTimeout(w) \/ RollBack(w) \/ AbortStart(w)
  <2>1. Undo(w) /\ truth' = truth
    BY <1>11 DEF BusyTimeout, RollBack, AbortStart
  <2>2. /\ writer'[w].at = "idle"
        /\ hidden' = IF writer[w].at \in {"starting", "publishing"}
                     THEN hidden \ {writer[w].run} ELSE hidden
    BY <1>1, <2>1, UndoDoes DEF Becomes, Idle
  <2>3. QED
    BY <1>4, <2>1, <2>2 DEF Starter
<1>12. QED
  BY <1>5, <1>6, <1>7, <1>8, <1>9, <1>10, <1>11 DEF WriterStep, Proceed

LEMMA CarriesBegun ==
  ASSUME EventStreamTypeOK, Sane(truth), NEW c \in (ByUsers \union ByWorker) \ StartFirstRun,
         NEW row, row.rows = {}, row.todo = c.events, row.run = c.run,
         row.next = <<c.next>>, row.from = <<truth>>
  PROVE  Carries(row)
<1>1. Adds(Listed(c.events), truth, c.next, c.run) /\ Turning(c.events, c.run)
  BY CommandsAdd
<1>2. Carried(row) = Listed(c.events) /\ Head(row.from) = truth /\ Head(row.next) = c.next
      /\ row.from # <<>>
  BY DEF Carried
<1>3. QED
  BY <1>1, <1>2 DEF Carries, Orderly

\* A command under way carries what it needs to tell what it writes.
LEMMA WriterStepCarry ==
  ASSUME BaseInv, CarryInv, ToldInv, NEW w \in Writers, WriterStep(w)
  PROVE  CarryInv'
<1>1. EventStreamTypeOK /\ LockInv /\ NumberInv /\ StartInv
  BY DEF BaseInv, OrderInv
<1>2. astray \subseteq astray'
  BY DEF WriterStep, Begin, Proceed, TakeNumber, FlushRow, CommitRows, CommitEvents,
         CommitStartEvents, Publish, BusyTimeout, RollBack, AbortStart, Undo
<1>3. SUFFICES ASSUME astray' = {}
               PROVE  \A v \in Writers : writer'[v].at = "open" => Carries(writer'[v])
  BY DEF CarryInv
<1>4. astray = {} /\ Told /\ \A v \in Writers : writer[v].at = "open" => Carries(writer[v])
  BY <1>2, <1>3 DEF CarryInv, ToldInv
<1>5. SUFFICES ASSUME NEW row, Becomes(w, row)
               PROVE  row.at = "open" => Carries(row)
  <2>1. Becomes(w, writer'[w])
    BY <1>1 DEF WriterStep, Begin, Proceed, TakeNumber, FlushRow, CommitRows, CommitEvents,
         CommitStartEvents, Publish, BusyTimeout, RollBack, AbortStart, Undo, Becomes,
         EventStreamTypeOK
  <2>2. QED
    BY <1>4, <1>5, <2>1 DEF Becomes
<1>6. CASE Begin(w)
  <2>1. PICK c \in Commands(w) :
           /\ Becomes(w, [at |-> IF c \in StartFirstRun THEN "starting" ELSE "open",
                          todo |-> c.events, rows |-> {}, next |-> <<c.next>>,
                          from |-> <<truth>>, run |-> c.run])
           /\ (c \notin StartFirstRun => truth.current # NoRun)
    BY <1>1, <1>6, BeginDoes
  <2>2. /\ row.rows = {} /\ row.todo = c.events /\ row.run = c.run
        /\ row.next = <<c.next>> /\ row.from = <<truth>>
        /\ row.at = IF c \in StartFirstRun THEN "starting" ELSE "open"
    BY <1>5, <2>1 DEF Becomes
  <2>3. CASE c \notin StartFirstRun
    <3>1. Sane(truth)
      BY <1>4, <2>1, <2>3 DEF Told, Tells
    <3>2. c \in (ByUsers \union ByWorker) \ StartFirstRun
      BY <2>3 DEF Commands
    <3>3. QED
      BY <1>1, <2>2, <3>1, <3>2, CarriesBegun
  <2>4. QED
    BY <2>2, <2>3
<1>7. CASE TakeNumber(w) \/ FlushRow(w)
  <2>1. PICK now : /\ Becomes(w, now) /\ now.at = writer[w].at
                   /\ Carries(writer[w]) => Carries(now)
    BY <1>1, <1>7, AppendDoes
  <2>2. row = now
    BY <1>5, <2>1 DEF Becomes
  <2>3. QED
    BY <1>4, <2>1, <2>2
<1>8. CASE CommitRows(w)
  BY <1>1, <1>5, <1>8, PlaceAfter DEF Becomes
<1>9. CASE CommitStartEvents(w)
  BY <1>1, <1>5, <1>9, PlaceAfter DEF Becomes
<1>10. CASE CommitEvents(w) \/ Publish(w) \/ BusyTimeout(w) \/ RollBack(w) \/ AbortStart(w)
  <2>1. writer'[w].at = "idle"
    BY <1>1, <1>10, PlaceAfter DEF BusyTimeout, RollBack, AbortStart
  <2>2. QED
    BY <1>5, <2>1 DEF Becomes
<1>11. QED
  BY <1>6, <1>7, <1>8, <1>9, <1>10 DEF WriterStep, Proceed

\* The rows of a command join the settled ones with its control and runtime rows, and
\* leave them for the log.
LEMMA SettledMoves ==
  ASSUME NEW w \in Writers, NEW row, Becomes(w, row)
  PROVE  /\ writer[w].at # "settled" /\ row.at # "settled" => SettledRows' = SettledRows
         /\ writer[w].at # "settled" /\ row.at = "settled" => SettledRows' = SettledRows \union row.rows
         /\ writer[w].at = "settled" /\ row.at # "settled" =>
              SettledRows = SettledRows' \union writer[w].rows
<1> DEFINE Of(v) == IF writer[v].at = "settled" THEN writer[v].rows ELSE {}
           Others == UNION {Of(v) : v \in Writers \ {w}}
<1>1. SettledRows = Others \union Of(w)
  <2>1. \A e : e \in SettledRows <=> \E v \in Writers : e \in Of(v)
    BY DEF SettledRows
  <2>2. \A e : e \in Others \union Of(w) <=> \E v \in Writers : e \in Of(v)
    OBVIOUS
  <2>3. QED
    BY <2>1, <2>2
<1>2. SettledRows' = Others \union (IF row.at = "settled" THEN row.rows ELSE {})
  <2>1. \A e : e \in SettledRows' <=>
          \E v \in Writers : writer'[v].at = "settled" /\ e \in writer'[v].rows
    BY DEF SettledRows
  <2>2. \A e : e \in Others <=> \E v \in Writers \ {w} : writer'[v].at = "settled" /\ e \in writer'[v].rows
    BY DEF Becomes
  <2>3. writer'[w] = row
    BY DEF Becomes
  <2>4. QED
    BY <2>1, <2>2, <2>3
<1>3. QED
  BY <1>1, <1>2

LEMMA ToldKept ==
  ASSUME Told, truth' = truth, page' = page,
         truth.current # NoRun => History' = History /\ log \subseteq log'
  PROVE  Told'
<1>1. CASE truth.current = NoRun
  BY <1>1 DEF Told, DraftTold, Blank
<1>2. CASE truth.current # NoRun
  <2>1. Tells(History, truth) /\ PageTold /\ History' = History /\ log \subseteq log'
    BY <1>2 DEF Told
  <2>2. Prefix' => Prefix
    BY <2>1 DEF Prefix
  <2>3. Tells(History, truth)'
    BY <2>1
  <2>4. PageTold'
    BY <2>1, <2>2 DEF PageTold
  <2>5. QED
    BY <1>2, <2>3, <2>4 DEF Told
<1>3. QED
  BY <1>1, <1>2

\* The control and runtime rows of a command are committed, over the rows it read: the
\* history gets what it carries.
LEMMA CommitRowsTold ==
  ASSUME BaseInv, Told, astray = {}, NEW w \in Writers, CommitRows(w),
         Carries(writer[w]), Head(writer[w].from) = truth
  PROVE  Told'
<1> DEFINE rows == writer[w].rows
           n == Head(writer[w].next)
           r == writer[w].run
<1>1. /\ EventStreamTypeOK /\ LockInv /\ NumberInv /\ StartInv /\ StreamInv
      /\ writer[w].next # <<>>
  BY DEF BaseInv, OrderInv, EventStreamTypeOK, HasNext, CommitRows
<1>2. /\ writer[w].at = "open" /\ writer[w].todo = <<>>
      /\ Becomes(w, [at |-> "settled", todo |-> <<>>, rows |-> rows,
                     next |-> <<>>, from |-> <<>>, run |-> r])
      /\ truth' \in Truth /\ truth'.current = n.current
  BY <1>1, CommitRowsDoes
<1>3. /\ truth' = Written(truth, r, n.status[r], n.before[r], n.request[r]) \/ n.current # r
      /\ log' = log /\ page' = page
  BY DEF CommitRows, Written
<1>4. Adds(rows, truth, n, r) /\ InTurn(rows, r)
  BY <1>2, DoneCarries
<1>5. /\ n = Written(truth, r, n.status[r], n.before[r], n.request[r]) /\ rows # {}
      /\ n.current = r
  BY <1>4 DEF Adds, Written
<1>6. truth' = n
  <2> HIDE DEF n, r
  <2> QED BY <1>3, <1>5
<1>7. truth.current # NoRun /\ truth'.current # NoRun /\ truth \in Truth /\ n \in Truth
  BY <1>1, <1>2, <1>4, <1>6 DEF StartInv, RunIsCurrent, EventStreamTypeOK, Adds, Sane
<1>8. r \in Runs
  BY <1>1, <1>5, <1>6, <1>7, TransactionIs
<1>9. History' = History \union rows
  <2>1. SettledRows' = SettledRows \union rows
    BY <1>2, SettledMoves
  <2>2. QED
    BY <1>3, <2>1 DEF History
<1>10. \A e \in History, g \in rows : e.index < g.index
  <2>1. SettledRows = {}
    BY <1>1, <1>2, <1>5, OneAtATime DEF SettledRows
  <2>2. RowsAbove(w)
    BY <1>1 DEF NumberInv
  <2>3. QED
    BY <2>1, <2>2 DEF History, RowsAbove
<1>11. Tells(History, truth) /\ PageTold /\ History \in SUBSET Events /\ rows \in SUBSET Events
  BY <1>1, <1>7, HistoryIs, TransactionIs DEF Told
<1>12. Tells(History, truth)'
  <2> HIDE DEF rows, n, r
  <2>1. Tells(History \union rows, n)
    BY <1>4, <1>7, <1>8, <1>10, <1>11, AddedTells
  <2>2. QED
    BY <1>6, <1>9, <2>1
<1>13. \A e \in rows : e.index \notin page.seen
  <2>1. SUFFICES ASSUME NEW e \in rows, e.index \in page.seen
                 PROVE  FALSE
    OBVIOUS
  <2>2. PICK f \in log : f.index = e.index
    BY <1>1, <2>1 DEF StreamInv, SeenKept
  <2>3. f \in History /\ e.index \in Nat
    BY <1>11, <2>1, KindsAre DEF History
  <2>4. QED
    BY <1>10, <2>1, <2>2, <2>3
<1>14. PageTold'
  <2> HIDE DEF rows, n, r
  <2>1. SUFFICES ASSUME Prefix'
                 PROVE /\ page'.view # <<>> => Right(page'.view, truth', History', page'.seen)
                       /\ page'.reply # <<>> /\ Head(page'.reply).seen = page'.seen =>
                            Right(Head(page'.reply).view, truth', History', page'.seen)
    BY DEF PageTold
  <2>2. Prefix
    BY <1>3, <2>1 DEF Prefix
  <2>3. \A v : Right(v, truth, History, page.seen) => Right(v, n, History \union rows, page.seen)
    BY <1>4, <1>7, <1>8, <1>11, <1>13, <2>1, AddedRight
  <2>4. QED
    BY <1>3, <1>6, <1>9, <1>11, <2>2, <2>3 DEF PageTold
<1>15. QED
  BY <1>7, <1>12, <1>14 DEF Told

\* The session's first run is published: the log holds the events that open it, and the
\* page, which was shown nothing, a blank view.
LEMMA PublishTold ==
  ASSUME BaseInv, OpeningInv, Told, astray = {}, NEW w \in Writers, Publish(w)
  PROVE  Told'
<1> DEFINE r == writer[w].run
           n == [truth EXCEPT !.status[r] = "running", !.current = r]
<1>1. /\ EventStreamTypeOK /\ LockInv /\ NumberInv /\ StartInv /\ StreamInv
      /\ writer[w].next # <<>>
  BY DEF BaseInv, OrderInv, EventStreamTypeOK, HasNext, Publish
<1>2. /\ writer[w].at = "publishing" /\ truth' = Head(writer[w].next) /\ truth' \in Truth
      /\ Becomes(w, Idle) /\ log' = log /\ page' = page
  BY <1>1, PublishDoes DEF Publish
<1>3. Starts(w) /\ truth.current = NoRun
  BY <1>1, <1>2 DEF OpeningInv, StartInv, StartsHidden, Starter
<1>4. truth' = n /\ Opens(log, r) /\ hidden = {r}
  BY <1>2, <1>3 DEF Starts
<1>5. r \in Runs
  BY <1>1, <1>4 DEF EventStreamTypeOK
<1>6. History' = log
  <2>1. \A v \in Writers : writer'[v].at = "idle"
    BY <1>1, <1>2, OnlyStarter DEF Becomes, Idle, Starter
  <2>2. SettledRows' = {}
    BY <2>1 DEF SettledRows
  <2>3. QED
    BY <1>2, <2>2 DEF History
<1>7. page.seen = {}
  <2>1. SUFFICES ASSUME NEW i \in page.seen
                 PROVE  FALSE
    OBVIOUS
  <2>2. PICK e \in log : e.index = i /\ e.run \notin hidden
    BY <1>1, <2>1 DEF StreamInv, SeenKept
  <2>3. QED
    BY <1>1, <1>3, <2>2 DEF StartInv, Draft
<1>8. DraftTold /\ r # NoRun /\ truth \in Truth
  BY <1>1, <1>3, <1>5, EventStreamAssumption DEF Told, EventStreamTypeOK
<1>9. /\ n.current = r /\ n.status[r] = "running" /\ n.before = truth.before
      /\ n.request = truth.request
      /\ \A q \in Runs : /\ q # r => n.status[q] = "none"
                         /\ n.request[q] = "none" /\ FaceIn(n, q) = "none"
  BY <1>5, <1>8 DEF Truth, DraftTold, FaceIn
<1>10. \A e \in log : IsStatus(e) /\ IsTurn(e) /\ ~IsRequest(e)
                      /\ e.type = "created" /\ e.run = r /\ e.status = "running"
  BY <1>4 DEF Opens, IsStatus, IsTurn, IsRequest
<1>11. log # {} /\ \A e \in log : e.index \in Nat
  BY <1>1, <1>4, NumbersAre DEF Opens
<1> HIDE DEF n, r
<1>12. Tells(log, n)
  <2>1. Sane(n)
    BY <1>5, <1>8, <1>9 DEF Sane
  <2>2. \A e \in AllStatuses(log) :
          /\ e.status # "none" /\ n.status[e.run] # "none"
          /\ \E c \in log : c.type = "created" /\ c.run = e.run /\ c.index <= e.index
    BY <1>9, <1>10, <1>11 DEF AllStatuses
  <2>3. \A q \in Runs : \A e \in log :
          /\ IsLast(e, StatusesOf(q, log)) => Alike(e.status, n.status[q])
          /\ ~IsLast(e, RequestsOf(q, log))
    BY <1>9, <1>10 DEF IsLast, StatusesOf, RequestsOf, Alike
  <2>4. QED
    BY <1>9, <1>10, <1>11, <2>1, <2>2, <2>3 DEF Tells
<1>13. \A v : Blank(v) => Right(v, n, log, {})
  <2>1. SUFFICES ASSUME NEW v, Blank(v)
                 PROVE  Right(v, n, log, {})
    OBVIOUS
  <2>2. ~Shown(StatusesOf(r, log), {}) /\ ~Shown(Turns(log), {}) /\ ~Shown(AllStatuses(log), {})
    BY <1>10, <1>11 DEF Shown, StatusesOf, Turns, AllStatuses
  <2>3. QED
    BY <1>5, <1>9, <2>1, <2>2 DEF Right, Blank, Alike
<1>14. Tells(History, truth)'
  BY <1>4, <1>6, <1>12 DEF n
<1>15. PageTold'
  BY <1>2, <1>4, <1>6, <1>7, <1>8, <1>13 DEF PageTold, DraftTold, n
<1>16. truth'.current # NoRun
  BY <1>4, <1>8, <1>9 DEF n
<1>17. QED
  BY <1>14, <1>15, <1>16 DEF Told

\* Whatever a command does, the history tells the truth, and the page what it was shown
\* of it.
LEMMA WriterStepTold ==
  ASSUME BaseInv, OpeningInv, CarryInv, ToldInv, NEW w \in Writers, WriterStep(w)
  PROVE  ToldInv'
<1>1. /\ EventStreamTypeOK /\ LockInv /\ NumberInv /\ StartInv
      /\ StartsHidden(w) /\ OwnLocks(writer[w], w, numberLock, writeLock)
  BY DEF BaseInv, OrderInv, StartInv, LockInv
<1>2. SUFFICES ASSUME astray = {}, astray' = {}, Told
               PROVE  Told'
  <2>1. astray \subseteq astray'
    BY DEF WriterStep, Begin, Proceed, TakeNumber, FlushRow, CommitRows, CommitEvents,
           CommitStartEvents, Publish, BusyTimeout, RollBack, AbortStart, Undo
  <2>2. QED
    BY <1>2, <2>1 DEF ToldInv
<1>3. page' = page
  BY WriterStepLeaves DEF clientVars
<1>4. ASSUME NEW row, Becomes(w, row), writer[w].at # "settled", row.at # "settled",
             log' = log
      PROVE  History' = History
  BY <1>4, SettledMoves DEF History
<1>5. CASE Begin(w)
  <2>1. PICK row : Becomes(w, row) /\ row.at \in {"starting", "open"}
    <3>1. PICK c \in Commands(w) :
            Becomes(w, [at |-> IF c \in StartFirstRun THEN "starting" ELSE "open",
                        todo |-> c.events, rows |-> {}, next |-> <<c.next>>,
                        from |-> <<truth>>, run |-> c.run])
      BY <1>1, <1>5, BeginDoes
    <3> DEFINE row == [at |-> IF c \in StartFirstRun THEN "starting" ELSE "open",
                       todo |-> c.events, rows |-> {}, next |-> <<c.next>>,
                       from |-> <<truth>>, run |-> c.run]
    <3>2. row.at \in {"starting", "open"}
      OBVIOUS
    <3> HIDE DEF row
    <3>3. Becomes(w, row)
      BY <3>1 DEF row
    <3>4. QED
      BY <3>2, <3>3
  <2>2. log' = log /\ truth' = truth /\ writer[w].at = "idle"
    BY <1>5 DEF Begin
  <2>3. QED
    BY <1>2, <1>3, <1>4, <2>1, <2>2, ToldKept
<1>6. CASE TakeNumber(w) \/ FlushRow(w)
  <2>1. PICK row : /\ Becomes(w, row) /\ row.at = writer[w].at
                   /\ writer[w].at \in {"open", "starting"}
                   /\ UNCHANGED <<truth, hidden, log>>
    BY <1>1, <1>6, AppendDoes
  <2>2. QED
    BY <1>2, <1>3, <1>4, <2>1, ToldKept
<1>7. CASE CommitRows(w)
  <2>1. writer[w].at = "open" /\ Head(writer[w].from) = truth
    BY <1>2, <1>7 DEF CommitRows
  <2>2. QED
    BY <1>2, <1>7, <2>1, CommitRowsTold DEF CarryInv
<1>8. CASE CommitEvents(w)
  <2>1. /\ writer[w].at = "settled" /\ log' = log \union writer[w].rows /\ Becomes(w, Idle)
        /\ truth' = truth
    BY <1>1, <1>8, CommitEventsDoes DEF CommitEvents
  <2>2. SettledRows = SettledRows' \union writer[w].rows
    BY <2>1, SettledMoves DEF Idle
  <2>3. History' = History
    BY <2>1, <2>2 DEF History
  <2>4. QED
    BY <1>2, <1>3, <2>1, <2>3, ToldKept
<1>9. CASE Publish(w)
  BY <1>2, <1>9, PublishTold
<1>10. CASE CommitStartEvents(w)
  <2>1. truth.current = NoRun /\ truth' = truth
    BY <1>1, <1>10 DEF CommitStartEvents, StartsHidden, Starter
  <2>2. QED
    BY <1>2, <1>3, <2>1, ToldKept
<1>11. CASE BusyTimeout(w) \/ RollBack(w) \/ AbortStart(w)
  <2>1. /\ Undo(w) /\ truth' = truth
        /\ writer[w].at # "publishing" => log' = log
    BY <1>11 DEF BusyTimeout, RollBack, AbortStart
  <2>2. writer[w].at \in {"open", "starting", "publishing"}
    <3>1. writer[w].at \in Places
      BY <1>1, TransactionIs
    <3>2. writer[w].at # "settled" \/ ~RollBack(w)
      BY <1>2 DEF RollBack
    <3>3. QED
      BY <1>1, <1>11, <3>1, <3>2 DEF BusyTimeout, RollBack, AbortStart, OwnLocks, Places
  <2>3. Becomes(w, Idle) /\ Idle.at # "settled"
    BY <1>1, <2>1, UndoDoes DEF Idle
  <2>4. CASE writer[w].at = "publishing"
    <3>1. truth.current = NoRun
      BY <1>1, <2>4 DEF StartsHidden, Starter
    <3>2. QED
      BY <1>2, <1>3, <2>1, <3>1, ToldKept
  <2>5. CASE writer[w].at # "publishing"
    BY <1>2, <1>3, <1>4, <2>1, <2>2, <2>3, <2>5, ToldKept
  <2>6. QED
    BY <2>4, <2>5
<1>12. QED
  BY <1>5, <1>6, <1>7, <1>8, <1>9, <1>10, <1>11 DEF WriterStep, Proceed

-----------------------------------------------------------------------------
(* What the stream and the page do to it                                    *)

LEMMA HistoryStays == UNCHANGED serverVars => History' = History /\ SettledRows' = SettledRows
  BY DEF serverVars, History, SettledRows

\* The page as it is after a step that changes its view or its reply alone.
LEMMA PageIs ==
  ASSUME EventStreamTypeOK, NEW v, NEW r
  PROVE  /\ [page EXCEPT !.view = v, !.reply = r].view = v
         /\ [page EXCEPT !.view = v, !.reply = r].reply = r
         /\ [page EXCEPT !.view = v, !.reply = r].seen = page.seen
         /\ [page EXCEPT !.reply = r].view = page.view
         /\ [page EXCEPT !.reply = r].reply = r
         /\ [page EXCEPT !.reply = r].seen = page.seen
  BY DEF EventStreamTypeOK

\* The snapshot of a session, in a draft and afterwards.
LEMMA SnapshotTold ==
  ASSUME BaseInv, OpeningInv, Told, NEW seen
  PROVE  /\ truth.current = NoRun => Blank(Snapshot)
         /\ truth.current # NoRun /\ seen \subseteq Indices(log) =>
              Right(Snapshot, truth, History, seen)
<1>1. EventStreamTypeOK /\ StartInv
  BY DEF BaseInv, OrderInv
<1>2. ASSUME truth.current = NoRun
      PROVE  Blank(Snapshot)
  <2>1. DraftTold
    BY <1>2 DEF Told
  <2>2. \A e \in log : e.run \in hidden
    BY <1>1, <1>2 DEF StartInv, Draft
  <2>3. \A r \in Runs : AboutRequest(r) = {}
    BY <2>2 DEF AboutRequest, Visible
  <2>4. \A r \in Runs : Timeline(r) = "none"
    BY <2>3 DEF Timeline
  <2>5. QED
    BY <1>2, <2>1, <2>4 DEF Blank, Snapshot, SessionStatus, NarrativeFeed, DraftTold
<1>3. ASSUME truth.current # NoRun, seen \subseteq Indices(log)
      PROVE  Right(Snapshot, truth, History, seen)
  <2>1. /\ hidden = {} /\ Tells(log \union SettledRows, truth)
    BY <1>3 DEF OpeningInv, Told, History
  <2>2. SettledRows \in SUBSET Events /\ \A e \in log, g \in SettledRows : e.index < g.index
    BY HistoryIs
  <2>3. Right(Snapshot, truth, log \union SettledRows, seen)
    BY <1>1, <1>3, <2>1, <2>2, SnapshotRight
  <2>4. QED
    BY <2>3 DEF History
<1>4. QED
  BY <1>2, <1>3

\* The lowest row of the batch: what has to be below it was below the cursor or is
\* in the batch with it.
LEMMA SendNextTold ==
  ASSUME BaseInv, OpeningInv, RisingInv, ToldInv, SendNext
  PROVE  RisingInv' /\ ToldInv'
<1>1. /\ EventStreamTypeOK /\ StartInv /\ StreamInv /\ UNCHANGED serverVars
      /\ stream.open /\ page.view # <<>>
  BY FollowingLeaves DEF BaseInv, OrderInv, Following, Serve, SendNext, EventStreamTypeOK, OpenTo
<1>2. PICK e \in stream.batch :
        /\ \A f \in stream.batch : e.index <= f.index
        /\ stream' = [stream EXCEPT !.cursor = e.index, !.batch = @ \ {e}]
        /\ page' = IF e.run \in stream.hidden
                   THEN [page EXCEPT !.skipped = @ \union {e.index}]
                   ELSE [page EXCEPT !.view = Apply(page.view, e), !.seen = @ \union {e.index}]
        /\ astray' = IF e.run \notin stream.hidden /\ (e.run \in hidden \/ e \notin log)
                     THEN astray \union {"leaked"} ELSE astray
  BY DEF SendNext
<1>3. /\ stream'.cursor = e.index /\ stream'.batch = stream.batch \ {e}
      /\ page'.reply = page.reply
      /\ e.run \in stream.hidden => page'.view = page.view /\ page'.seen = page.seen
      /\ e.run \notin stream.hidden =>
           page'.view = Apply(page.view, e) /\ page'.seen = page.seen \union {e.index}
  BY <1>2 DEF EventStreamTypeOK, BaseInv, OrderInv
<1>4. /\ \A f \in stream.batch : f.index \in Nat
      /\ page.seen \in SUBSET Nat /\ stream.cursor \in Nat /\ page.view \in View
  BY <1>1, StreamIs, IndexIs
<1>5. e.index \in Nat
  BY <1>4
<1>6. ASSUME "leaked" \notin astray'
      PROVE  /\ \A i \in page.seen : i <= stream.cursor
             /\ \A f \in stream.batch : stream.cursor < f.index
             /\ \A f, g \in stream.batch : f.index = g.index => f = g
             /\ \A i \in page.seen : i < e.index
             /\ "leaked" \notin astray /\ SeenKept
             /\ e.run \in stream.hidden \/ (e.run \notin hidden /\ e \in log)
  <2>1. /\ "leaked" \notin astray
        /\ e.run \in stream.hidden \/ (e.run \notin hidden /\ e \in log)
    BY <1>2, <1>6
  <2>2. /\ \A i \in page.seen : i <= stream.cursor
        /\ \A f \in stream.batch : stream.cursor < f.index
        /\ \A f, g \in stream.batch : f.index = g.index => f = g
    BY <1>1, <2>1 DEF RisingInv
  <2>3. \A i \in page.seen : i < e.index
    BY <1>4, <2>2
  <2>4. SeenKept
    BY <1>1, <2>1 DEF StreamInv
  <2>5. QED
    BY <2>1, <2>2, <2>3, <2>4
<1>7. RisingInv'
  <2>1. ASSUME "leaked" \notin astray'
        PROVE  /\ \A i \in page'.seen : i <= stream'.cursor
               /\ \A f \in stream'.batch : stream'.cursor < f.index
               /\ \A f, g \in stream'.batch : f.index = g.index => f = g
    <3>1. \A i \in page'.seen : i \in page.seen \/ i = e.index
      BY <1>3
    <3>2. \A i \in page'.seen : i <= e.index
      BY <1>4, <1>5, <1>6, <2>1, <3>1
    <3>3. \A f \in stream'.batch : e.index < f.index
      BY <1>2, <1>3, <1>4, <1>6, <2>1
    <3>4. QED
      BY <1>3, <1>6, <2>1, <3>2, <3>3
  <2>2. page'.reply # <<>> => Head(page'.reply).seen \subseteq page'.seen /\ page'.view # <<>>
    <3>1. page'.reply # <<>> => Head(page'.reply).seen \subseteq page.seen
      BY <1>3 DEF RisingInv
    <3>2. page'.view # <<>>
      <4>1. e \in Events
        BY <1>1, StreamIs
      <4>2. Apply(page.view, e) # <<>>
        BY <1>4, <4>1, ApplyIs, ViewIsThere
      <4>3. QED
        BY <1>1, <1>3, <4>2
    <3>3. QED
      BY <1>3, <3>1, <3>2
  <2>3. QED
    BY <2>1, <2>2 DEF RisingInv
<1>8. SUFFICES ASSUME astray' = {}
               PROVE  Told'
  BY <1>7 DEF ToldInv
<1>9. astray = {} /\ Told
  BY <1>2, <1>8 DEF ToldInv
<1>10. truth' = truth /\ log' = log /\ History' = History
  BY <1>1, HistoryStays DEF serverVars
<1>11. CASE truth.current = NoRun
  <2>1. e.run \in stream.hidden
    BY <1>1, <1>6, <1>8, <1>11 DEF StartInv, Draft
  <2>2. DraftTold /\ page'.view = page.view /\ page'.reply = page.reply
    BY <1>3, <1>9, <1>11, <2>1 DEF Told
  <2>3. QED
    BY <1>10, <1>11, <2>2 DEF Told, DraftTold, Blank
<1>12. CASE truth.current # NoRun
  <2>1. Tells(History, truth) /\ PageTold
    BY <1>9, <1>12 DEF Told
  <2>2. CASE e.run \in stream.hidden
    <3>1. PageTold'
      BY <1>3, <1>10, <2>1, <2>2 DEF PageTold, Prefix
    <3>2. Tells(History, truth)'
      BY <1>10, <2>1
    <3>3. QED
      BY <1>10, <1>12, <3>1, <3>2 DEF Told
  <2>3. CASE e.run \notin stream.hidden
    <3>1. /\ e \in log /\ \A i \in page.seen : i < e.index
          /\ page'.view = Apply(page.view, e) /\ page'.seen = page.seen \union {e.index}
          /\ page'.reply = page.reply
      BY <1>3, <1>6, <1>8, <2>3
    <3>2. ASSUME Prefix'
          PROVE  /\ Right(page.view, truth, History, page.seen)
                 /\ \A f \in History : f.index < e.index => f.index \in page.seen
      <4>1. \A f \in log, i \in page.seen \union {e.index} :
              f.index <= i => f.index \in page.seen \union {e.index}
        BY <1>10, <3>1, <3>2 DEF Prefix
      <4>2. /\ log \in SUBSET Events /\ \A f \in log : f.index \in Nat
            /\ History \in SUBSET Events /\ \A f \in History : f.index \in Nat
        BY <1>1, HistoryIs, NumbersAre, KindsAre DEF EventStreamTypeOK
      <4>3. Prefix
        <5>1. SUFFICES ASSUME NEW f \in log, NEW i \in page.seen, f.index <= i
                       PROVE  f.index \in page.seen
          BY DEF Prefix
        <5>2. f.index \in page.seen \/ f.index = e.index
          BY <4>1, <5>1
        <5>3. QED
          BY <1>4, <1>5, <3>1, <4>2, <5>1, <5>2
      <4>4. ASSUME NEW f \in History, f.index < e.index
            PROVE  f.index \in page.seen
        <5>1. f \in log
          <6>1. f \in SettledRows => e.index < f.index
            BY <3>1, HistoryIs
          <6>2. QED
            BY <1>5, <4>2, <4>4, <6>1 DEF History
        <5>2. f.index <= e.index /\ f.index # e.index
          BY <1>5, <4>2, <4>4
        <5>3. QED
          BY <4>1, <5>1, <5>2
      <4>5. QED
        BY <1>1, <2>1, <4>3, <4>4 DEF PageTold
    <3>3. ASSUME Prefix'
          PROVE  Right(Apply(page.view, e), truth, History, page.seen \union {e.index})
      <4>1. /\ truth \in Truth /\ History \in SUBSET Events /\ e \in History
            /\ \A f \in History : f.index = e.index => f = e
        BY <1>1, <3>1, HistoryIs DEF EventStreamTypeOK, History
      <4>2. QED
        BY <1>4, <2>1, <3>1, <3>2, <3>3, <4>1, AppliedRight
    <3>4. page'.reply # <<>> => Head(page'.reply).seen # page'.seen
      <4>1. e.index \notin page.seen
        BY <1>5, <3>1
      <4>2. QED
        BY <3>1, <4>1 DEF RisingInv
    <3>5. PageTold'
      BY <1>10, <3>1, <3>3, <3>4 DEF PageTold
    <3>6. Tells(History, truth)'
      BY <1>10, <2>1
    <3>7. QED
      BY <1>10, <1>12, <3>5, <3>6 DEF Told
  <2>4. QED
    BY <2>2, <2>3
<1>13. QED
  BY <1>11, <1>12

\* The stream moves on without the page.
LEMMA StreamMovesTold ==
  ASSUME BaseInv, RisingInv, ToldInv, ReadHidden \/ ReadBatch \/ DropConnection \/ Reconnect
  PROVE  RisingInv' /\ ToldInv'
<1>1. /\ EventStreamTypeOK /\ NumberInv /\ UNCHANGED serverVars
      /\ page' = page /\ astray' = astray
  BY FollowingLeaves DEF BaseInv, OrderInv, Following, Serve, ReadHidden, ReadBatch,
     DropConnection, Reconnect
<1>2. log' = log /\ truth' = truth /\ History' = History
  BY <1>1, HistoryStays DEF serverVars
<1>3. ToldInv'
  <2>1. Told => Told'
    BY <1>1, <1>2, ToldKept
  <2>2. QED
    BY <1>1, <2>1 DEF ToldInv
<1>4. ASSUME "leaked" \notin astray, stream'.open
      PROVE  /\ \A i \in page.seen : i <= stream'.cursor
             /\ \A e \in stream'.batch : stream'.cursor < e.index
             /\ \A e, f \in stream'.batch : e.index = f.index => e = f
  <2>1. CASE ReadHidden
    <3>1. /\ stream.open /\ stream'.cursor = stream.cursor /\ stream'.batch = stream.batch
      BY <1>1, <2>1, StreamIs DEF ReadHidden, EventStreamTypeOK
    <3>2. QED
      BY <1>4, <3>1 DEF RisingInv
  <2>2. CASE ReadBatch
    <3>1. /\ stream.open /\ stream'.cursor = stream.cursor
          /\ stream'.batch = ListAfter(stream.cursor)
      BY <1>1, <1>4, <2>2 DEF ReadBatch, EventStreamTypeOK
    <3>2. \A e \in ListAfter(stream.cursor) : e \in log /\ e.index > stream.cursor
      BY DEF ListAfter, After
    <3>3. stream.cursor \in Nat /\ \A e \in log : e.index \in Nat
      BY <1>1, StreamIs, NumbersAre
    <3>4. \A e \in stream'.batch : stream'.cursor < e.index
      BY <3>1, <3>2, <3>3
    <3>5. \A e, f \in stream'.batch : e.index = f.index => e = f
      BY <1>1, <3>1, <3>2 DEF NumberInv
    <3>6. \A i \in page.seen : i <= stream'.cursor
      BY <1>4, <3>1 DEF RisingInv
    <3>7. QED
      BY <3>4, <3>5, <3>6
  <2>3. CASE DropConnection
    BY <1>4, <2>3 DEF DropConnection, Closed
  <2>4. CASE Reconnect
    <3>1. stream'.cursor = Highest(page.seen) /\ stream'.batch = {}
      BY <2>4 DEF Reconnect, Closed, AfterCursor
    <3>2. \A i \in page.seen : i <= Highest(page.seen)
      BY <1>1, StreamIs, HighestIs DEF EventStreamTypeOK
    <3>3. QED
      BY <3>1, <3>2
  <2>5. QED
    BY <2>1, <2>2, <2>3, <2>4
<1>5. RisingInv'
  BY <1>1, <1>4 DEF RisingInv
<1>6. QED
  BY <1>3, <1>5

\* The page loads.
LEMMA OpenPageTold ==
  ASSUME BaseInv, OpeningInv, RisingInv, ToldInv, OpenPage
  PROVE  RisingInv' /\ ToldInv'
<1>1. UNCHANGED serverVars
  BY FollowingLeaves DEF Following
<1>2. /\ astray' = astray /\ page'.view = Snapshot /\ page'.seen = {} /\ page'.reply = <<>>
      /\ stream'.batch = {}
  BY DEF OpenPage, NoPage, Closed
<1>3. RisingInv'
  BY <1>2 DEF RisingInv
<1>4. SUFFICES ASSUME astray = {}
               PROVE  Told'
  BY <1>2, <1>3 DEF ToldInv
<1>5. Told
  BY <1>4 DEF ToldInv
<1>6. log' = log /\ truth' = truth /\ History' = History
  BY <1>1, HistoryStays DEF serverVars
<1>7. CASE truth.current = NoRun
  <2>1. Blank(Snapshot) /\ DraftTold
    BY <1>5, <1>7, SnapshotTold DEF Told
  <2>2. Blank(page'.view) /\ page'.reply = <<>>
    BY <1>2, <2>1
  <2>3. DraftTold'
    BY <1>6, <2>1, <2>2 DEF DraftTold, Blank
  <2>4. QED
    BY <1>6, <1>7, <2>3 DEF Told
<1>8. CASE truth.current # NoRun
  <2>1. Right(Snapshot, truth, History, {})
    BY <1>5, <1>8, SnapshotTold
  <2>2. PageTold'
    BY <1>2, <1>6, <2>1 DEF PageTold
  <2>3. Tells(History, truth)'
    BY <1>5, <1>6, <1>8 DEF Told
  <2>4. QED
    BY <1>6, <1>8, <2>2, <2>3 DEF Told
<1>9. QED
  BY <1>7, <1>8

\* A refetch is answered with what is true, which a reply that is overtaken is not.
LEMMA RefetchTold ==
  ASSUME BaseInv, OpeningInv, RisingInv, ToldInv, Refetch
  PROVE  RisingInv' /\ ToldInv'
<1> DEFINE reply == <<[view |-> Snapshot, seen |-> page.seen]>>
<1>1. EventStreamTypeOK /\ StreamInv /\ UNCHANGED serverVars
  BY FollowingLeaves DEF BaseInv, OrderInv, Following
<1>2. Head(reply).view = Snapshot /\ Head(reply).seen = page.seen
  OBVIOUS
<1>3. /\ astray' = astray /\ stream' = stream /\ page.view # <<>>
      /\ page'.view = page.view /\ page'.seen = page.seen /\ page'.reply = reply
  BY <1>1, PageIs DEF Refetch
<1> HIDE DEF reply
<1>4. RisingInv'
  BY <1>2, <1>3 DEF RisingInv
<1>5. SUFFICES ASSUME astray = {}
               PROVE  Told'
  BY <1>3, <1>4 DEF ToldInv
<1>6. Told /\ SeenKept
  BY <1>1, <1>5 DEF ToldInv, StreamInv
<1>7. log' = log /\ truth' = truth /\ History' = History
  BY <1>1, HistoryStays DEF serverVars
<1>8. CASE truth.current = NoRun
  <2>1. Blank(Snapshot) /\ DraftTold
    BY <1>6, <1>8, SnapshotTold DEF Told
  <2>2. Blank(Head(page'.reply).view) /\ page'.view = page.view
    BY <1>2, <1>3, <2>1
  <2>3. DraftTold'
    BY <1>7, <2>1, <2>2 DEF DraftTold, Blank
  <2>4. QED
    BY <1>7, <1>8, <2>3 DEF Told
<1>9. CASE truth.current # NoRun
  <2>1. page.seen \subseteq Indices(log)
    BY <1>6 DEF SeenKept, Indices
  <2>2. Right(Snapshot, truth, History, page.seen)
    BY <1>6, <1>9, <2>1, SnapshotTold
  <2>3. PageTold
    BY <1>6, <1>9 DEF Told
  <2>4. Prefix' => Prefix
    BY <1>3, <1>7 DEF Prefix
  <2>5. PageTold'
    BY <1>2, <1>3, <1>7, <2>2, <2>3, <2>4 DEF PageTold
  <2>6. Tells(History, truth)'
    BY <1>6, <1>7, <1>9 DEF Told
  <2>7. QED
    BY <1>7, <1>9, <2>5, <2>6 DEF Told
<1>10. QED
  BY <1>8, <1>9

\* What replaces the view was answered when the page had received what it has now, or
\* something is overlaid.
LEMMA RefetchedTold ==
  ASSUME BaseInv, RisingInv, ToldInv, Refetched
  PROVE  RisingInv' /\ ToldInv'
<1> DEFINE view == Head(page.reply).view
<1>1. EventStreamTypeOK /\ UNCHANGED serverVars /\ page.reply # <<>>
  BY FollowingLeaves DEF BaseInv, OrderInv, Following, Serve, Refetched
<1>2. /\ stream' = stream /\ page'.view = view /\ page'.seen = page.seen
      /\ page'.reply = <<>>
      /\ astray' = IF Head(page.reply).seen # page.seen THEN astray \union {"overlaid"}
                   ELSE astray
  BY <1>1, PageIs DEF Refetched
<1>3. "leaked" \in astray' <=> "leaked" \in astray
  BY <1>2
<1>4. RisingInv'
  BY <1>2, <1>3 DEF RisingInv
<1>5. SUFFICES ASSUME astray' = {}
               PROVE  Told'
  BY <1>4 DEF ToldInv
<1>6. astray = {} /\ Told /\ Head(page.reply).seen = page.seen
  BY <1>2, <1>5 DEF ToldInv
<1>7. log' = log /\ truth' = truth /\ History' = History
  BY <1>1, HistoryStays DEF serverVars
<1>8. CASE truth.current = NoRun
  <2>1. DraftTold /\ Blank(view)
    BY <1>1, <1>6, <1>8 DEF Told, DraftTold
  <2>2. Blank(page'.view)
    BY <1>2, <2>1
  <2>3. DraftTold'
    BY <1>2, <1>7, <2>1, <2>2 DEF DraftTold, Blank
  <2>4. QED
    BY <1>7, <1>8, <2>3 DEF Told
<1>9. CASE truth.current # NoRun
  <2>1. Prefix' => Prefix
    BY <1>2, <1>7 DEF Prefix
  <2>2. Prefix => Right(view, truth, History, page.seen)
    BY <1>1, <1>6, <1>9 DEF Told, PageTold
  <2>3. PageTold'
    BY <1>2, <1>7, <2>1, <2>2 DEF PageTold
  <2>4. Tells(History, truth)'
    BY <1>6, <1>7, <1>9 DEF Told
  <2>5. QED
    BY <1>7, <1>9, <2>3, <2>4 DEF Told
<1>10. QED
  BY <1>8, <1>9

LEMMA FollowingTold ==
  ASSUME BaseInv, OpeningInv, RisingInv, ToldInv, Following
  PROVE  RisingInv' /\ ToldInv'
  BY StreamMovesTold, SendNextTold, OpenPageTold, RefetchTold, RefetchedTold
     DEF Following, Serve

\* Nothing that the stream or the page does mends what went astray, and none of it is
\* the commands' business.
LEMMA FollowingCarry ==
  ASSUME OpeningInv, CarryInv, Following
  PROVE  OpeningInv' /\ CarryInv'
<1>1. UNCHANGED serverVars
  BY FollowingLeaves
<1>2. astray \subseteq astray'
  BY DEF Following, Serve, ReadHidden, ReadBatch, SendNext, Refetched, Reconnect, OpenPage,
     Refetch, DropConnection
<1>3. OpeningInv'
  BY <1>1 DEF OpeningInv, serverVars, Starter, Starts
<1>4. CarryInv'
  BY <1>1, <1>2 DEF CarryInv, serverVars
<1>5. QED
  BY <1>3, <1>4

\* A command that has settled when the process dies is lost; else nothing was sure to
\* be committed that was not.
LEMMA CrashTold ==
  ASSUME AgreeInv, Crash
  PROVE  AgreeInv'
<1>1. /\ UNCHANGED <<truth, hidden, log, page>> /\ stream' = Closed
      /\ \A w \in Writers : writer'[w].at = "idle"
      /\ astray' = IF \E w \in Writers : writer[w].at = "settled" THEN astray \union {"lost"}
                   ELSE astray
  BY DEF Crash, Idle
<1>2. OpeningInv' /\ CarryInv'
  BY <1>1 DEF AgreeInv, OpeningInv, CarryInv, Starter
<1>3. RisingInv'
  BY <1>1 DEF AgreeInv, RisingInv, Closed
<1>4. ASSUME astray' = {}
      PROVE  Told'
  <2>1. astray = {} /\ \A w \in Writers : writer[w].at # "settled"
    BY <1>1, <1>4
  <2>2. SettledRows = {} /\ SettledRows' = {}
    BY <1>1, <2>1 DEF SettledRows
  <2>3. History' = History
    BY <1>1, <2>2 DEF History
  <2>4. Told
    BY <2>1 DEF AgreeInv, ToldInv
  <2>5. QED
    BY <1>1, <2>3, <2>4, ToldKept
<1>5. QED
  BY <1>2, <1>3, <1>4 DEF AgreeInv, ToldInv

LEMMA WriterStepRising ==
  ASSUME BaseInv, RisingInv, NEW w \in Writers, WriterStep(w)
  PROVE  RisingInv'
<1>1. stream' = stream /\ page' = page
  BY WriterStepLeaves DEF clientVars
<1>2. "leaked" \in astray' <=> "leaked" \in astray
  BY WriterStepMoves DEF LogMoves, BaseInv, OrderInv
<1>3. QED
  BY <1>1, <1>2 DEF RisingInv

LEMMA AgreeStep ==
  ASSUME BaseInv, AgreeInv, [Next]_vars
  PROVE  AgreeInv'
<1>1. CASE \E w \in Writers : WriterStep(w)
  <2>1. PICK w \in Writers : WriterStep(w)
    BY <1>1
  <2>2. OpeningInv /\ RisingInv /\ CarryInv /\ ToldInv
    BY DEF AgreeInv
  <2>3. OpeningInv' /\ RisingInv' /\ CarryInv' /\ ToldInv'
    BY <2>1, <2>2, WriterStepOpening, WriterStepRising, WriterStepCarry, WriterStepTold
  <2>4. QED
    BY <2>3 DEF AgreeInv
<1>2. CASE Following
  BY <1>2, FollowingTold, FollowingCarry DEF AgreeInv
<1>3. CASE Crash
  BY <1>3, CrashTold
<1>4. CASE UNCHANGED vars
  <2>1. UNCHANGED <<truth, hidden, log, writer, stream, page, astray>>
    BY <1>4 DEF vars
  <2>2. SettledRows' = SettledRows
    BY <2>1 DEF SettledRows
  <2>3. History' = History /\ log \subseteq log'
    BY <2>1, <2>2 DEF History
  <2>4. Told => Told'
    BY <2>1, <2>3, ToldKept
  <2>5. OpeningInv' /\ RisingInv' /\ CarryInv'
    BY <2>1 DEF AgreeInv, OpeningInv, RisingInv, CarryInv, Starter, Starts
  <2>6. QED
    BY <2>1, <2>4, <2>5 DEF AgreeInv, ToldInv
<1>5. QED
  BY <1>1, <1>2, <1>3, <1>4 DEF Next, Following

LEMMA AgreeStarts == Init => AgreeInv
<1>1. SUFFICES ASSUME Init
               PROVE  AgreeInv
  OBVIOUS
<1>2. \A w \in Writers : writer[w].at = "idle"
  BY <1>1 DEF Init, Idle
<1>3. truth.current = NoRun /\ page.view = <<>> /\ page.reply = <<>> /\ ~stream.open
  BY <1>1 DEF Init, NoPage, Closed
<1>4. \A r \in Runs : truth.status[r] = "none" /\ truth.request[r] = "none"
  BY <1>1 DEF Init
<1>5. Told
  BY <1>3, <1>4 DEF Told, DraftTold
<1>6. QED
  BY <1>2, <1>3, <1>5 DEF AgreeInv, OpeningInv, RisingInv, CarryInv, ToldInv, Starter

LEMMA AgreeAlways == Spec => [](BaseInv /\ AgreeInv)
<1>1. BaseInv /\ AgreeInv /\ [Next]_vars => AgreeInv'
  BY AgreeStep
<1>2. QED
  BY <1>1, AgreeStarts, BaseAlways, PTL DEF Spec

\* A page that received the whole log is right about everything.
LEMMA WholeLogAgrees ==
  ASSUME BaseInv, AgreeInv, ToldAll
  PROVE  /\ page.view.current = truth.current
         /\ \A r \in Runs \ hidden : Alike(page.view.runs[r], truth.status[r])
         /\ Alike(page.view.status, SessionStatus)
         /\ \A r \in Runs \ hidden :
              page.view.feed[r] = FaceIn(truth, r) /\ Timeline(r) = FaceIn(truth, r)
<1>1. /\ astray = {} /\ page.seen = Indices(log) /\ stream.open
      /\ \A w \in Writers : writer[w].at = "idle"
  BY DEF ToldAll, Drained, Resting
<1>2. Told /\ page.view # <<>> /\ OpeningInv
  BY <1>1 DEF AgreeInv, ToldInv, BaseInv, OrderInv, EventStreamTypeOK, OpenTo
<1>3. History = log
  BY <1>1 DEF History, SettledRows
<1>4. \A r \in Runs : Snapshot.feed[r] = Timeline(r)
  BY DEF Snapshot, NarrativeFeed
<1>5. CASE truth.current = NoRun
  <2>1. DraftTold /\ Blank(page.view) /\ Blank(Snapshot)
    BY <1>2, <1>5, SnapshotTold DEF Told, DraftTold
  <2>2. SessionStatus = "none" /\ \A r \in Runs : FaceIn(truth, r) = "none"
    BY <1>5, <2>1 DEF SessionStatus, FaceIn, DraftTold
  <2>3. QED
    BY <1>4, <1>5, <2>1, <2>2 DEF Blank, DraftTold, Alike
<1>6. CASE truth.current # NoRun
  <2>1. Prefix
    BY <1>1 DEF Prefix, Indices
  <2>2. Right(page.view, truth, log, page.seen) /\ Right(Snapshot, truth, log, page.seen)
    BY <1>1, <1>2, <1>3, <1>6, <2>1, SnapshotTold DEF Told, PageTold
  <2>3. /\ Shown(Turns(log), page.seen) /\ Shown(AllStatuses(log), page.seen)
        /\ \A r \in Runs : /\ Shown(StatusesOf(r, log), page.seen)
                           /\ Shown(RequestsOf(r, log), page.seen)
    BY <1>1 DEF Shown, Turns, AllStatuses, StatusesOf, RequestsOf, Indices
  <2>4. SessionStatus = truth.status[truth.current]
    BY <1>6 DEF SessionStatus
  <2>5. /\ page.view.current = truth.current
        /\ Alike(page.view.status, truth.status[truth.current])
        /\ \A r \in Runs : /\ Alike(page.view.runs[r], truth.status[r])
                           /\ page.view.feed[r] = FaceIn(truth, r)
                           /\ Snapshot.feed[r] = FaceIn(truth, r)
    BY <2>2, <2>3 DEF Right
  <2>6. QED
    BY <1>4, <2>4, <2>5
<1>7. QED
  BY <1>5, <1>6

\* A page that received the whole log, in the order of the truth, shows the truth: for
\* any number of users and runs, whatever commands, failures, lost connections and
\* refetches went before.
THEOREM ViewIsTrue == Spec => []ViewAgrees
<1>1. BaseInv /\ AgreeInv => ViewAgrees
  <2>1. SUFFICES ASSUME BaseInv, AgreeInv, ToldAll
                 PROVE  /\ page.view.current = truth.current
                        /\ \A r \in Runs \ hidden :
                             \/ page.view.runs[r] = truth.status[r]
                             \/ {page.view.runs[r], truth.status[r]} \intersect Settled = {}
                        /\ \/ page.view.status = SessionStatus
                           \/ {page.view.status, SessionStatus} \intersect Settled = {}
    BY DEF ViewAgrees
  <2>2. \A s, t : Alike(s, t) => s = t \/ {s, t} \intersect Settled = {}
    BY DEF Alike
  <2>3. QED
    BY <2>1, <2>2, WholeLogAgrees
<1>2. QED
  BY <1>1, AgreeAlways, PTL

\* It shows every request as it is, and so does the run's timeline.
THEOREM RequestsAreShown == Spec => []RequestsShown
<1>1. BaseInv /\ AgreeInv => RequestsShown
  BY WholeLogAgrees DEF RequestsShown, FaceIn
<1>2. QED
  BY <1>1, AgreeAlways, PTL

=============================================================================
