------------------------ MODULE AgentTracker_proofs ------------------------
(***************************************************************************)
(* Proofs about AgentTracker, for every set of projects and scopes, any    *)
(* number of crashes, launches, lost answers, refusals and failing writes, *)
(* and a worker that may outlive the wait of stop().                       *)
(***************************************************************************)
EXTENDS AgentTracker, SequenceTheorems, FiniteSetTheorems, TLAPS

(***************************************************************************)
(* Types.                                                                  *)
(***************************************************************************)

LEMMA ToSetAppend ==
  ASSUME NEW S, NEW s \in Seq(S), NEW e
  PROVE  ToSet(Append(s, e)) = ToSet(s) \cup {e}
<1>1. /\ DOMAIN Append(s, e) = 1 .. Len(s) + 1 /\ DOMAIN s = 1 .. Len(s)
      /\ Len(s) \in Nat /\ Append(s, e)[Len(s) + 1] = e
      /\ \A i \in 1 .. Len(s) : Append(s, e)[i] = s[i]
  BY AppendProperties, LenProperties
<1>2. QED  BY <1>1 DEF ToSet

\* Removing rows leaves rows of the same table.
LEMMA RemoveInSeq ==
  ASSUME NEW S, NEW s \in Seq(S), NEW I, I \subseteq DOMAIN s
  PROVE  RemoveIn(s, I) \in Seq(S) /\ ToSet(RemoveIn(s, I)) \subseteq ToSet(s)
<1>1. CASE I = {}
  BY <1>1 DEF RemoveIn
<1>2. CASE I # {}
  <2> DEFINE i == CHOOSE j \in I : TRUE
             a == SubSeq(s, 1, i - 1)
             b == SubSeq(s, i + 1, Len(s))
  <2>1. i \in 1 .. Len(s) /\ Len(s) \in Nat
    BY <1>2, LenProperties
  <2>2. RemoveIn(s, I) = a \o b
    BY <1>2 DEF RemoveIn, RemoveAt
  <2> HIDE DEF i
  <2>3. /\ a \in Seq(S) /\ Len(a) = i - 1 /\ \A j \in 1 .. i - 1 : a[j] = s[j]
        /\ b \in Seq(S) /\ Len(b) = Len(s) - i
        /\ \A j \in 1 .. Len(s) - i : b[j] = s[i + j]
    BY <2>1, SubSeqProperties
  <2> HIDE DEF a, b
  <2>4. /\ a \o b \in Seq(S) /\ Len(a \o b) = Len(s) - 1
        /\ \A j \in 1 .. Len(s) - 1 : (a \o b)[j] = IF j < i THEN s[j] ELSE s[j + 1]
    <3>1. a \o b \in Seq(S) /\ Len(a \o b) = Len(s) - 1
      BY <2>1, <2>3, ConcatProperties
    <3>2. \A j \in 1 .. Len(a) + Len(b) :
             (a \o b)[j] = IF j <= Len(a) THEN a[j] ELSE b[j - Len(a)]
      BY <2>3, ConcatProperties
    <3>3. ASSUME NEW j \in 1 .. Len(s) - 1
          PROVE  (a \o b)[j] = IF j < i THEN s[j] ELSE s[j + 1]
      <4>1. CASE j < i
        BY <4>1, <3>2, <2>1, <2>3
      <4>2. CASE ~(j < i)
        <5>1. (a \o b)[j] = b[j - (i - 1)] /\ j - (i - 1) \in 1 .. Len(s) - i
          BY <4>2, <3>2, <2>1, <2>3
        <5>2. b[j - (i - 1)] = s[i + (j - (i - 1))] /\ i + (j - (i - 1)) = j + 1
          BY <5>1, <2>1, <2>3
        <5>3. QED  BY <4>2, <5>1, <5>2
      <4>3. QED  BY <4>1, <4>2
    <3>4. QED  BY <3>1, <3>3
  <2>5. ASSUME NEW j \in DOMAIN (a \o b)  PROVE (a \o b)[j] \in ToSet(s)
    <3>1. j \in 1 .. Len(s) - 1 /\ j + 1 \in 1 .. Len(s) /\ j \in 1 .. Len(s)
      BY <2>4, <2>1, LenProperties
    <3>2. QED  BY <3>1, <2>4, LenProperties DEF ToSet
  <2>6. QED  BY <2>2, <2>4, <2>5 DEF ToSet
<1>3. QED  BY <1>1, <1>2

\* The row that is sent is the first one: its removal leaves the others in order.
LEMMA RemoveFirstRow ==
  ASSUME NEW S, NEW s \in Seq(S), s # << >>
  PROVE  RemoveIn(s, {1}) = Tail(s)
<1>1. (CHOOSE i \in {1} : TRUE) = 1
  OBVIOUS
<1>2. RemoveIn(s, {1}) = SubSeq(s, 1, 0) \o SubSeq(s, 2, Len(s))
  BY <1>1 DEF RemoveIn, RemoveAt
<1>3. QED  BY <1>2

-----------------------------------------------------------------------------
\* Samples are journalled one at a time.
SamplesFinite == IsFiniteSet(samples)
Typed == TypeOK /\ SamplesFinite

LEMMA IdsAreNumbers == Typed => NextId \in Nat \ {0}
<1> SUFFICES ASSUME Typed  PROVE NextId \in Nat \ {0}
  OBVIOUS
<1>1. Cardinality(samples) \in Nat
  BY FS_CardinalityType DEF Typed, SamplesFinite
<1>2. Len(log) \in Nat
  BY LenProperties DEF Typed, TypeOK
<1>3. QED  BY <1>1, <1>2 DEF NextId

\* What is queued was journalled, and what is sent was queued.
Known ==
  /\ ToSet(states) \subseteq ToSet(log)
  /\ \A t \in Threads : Waiting(t) => sending[t] \in Ids(log)

LEMMA EventOfKnown ==
  ASSUME NEW id \in Ids(log)  PROVE EventOf(id) \in ToSet(log) /\ EventOf(id).id = id
BY DEF EventOf, Ids

LEMMA InSeq == ASSUME NEW S, NEW s \in Seq(S)  PROVE ToSet(s) \subseteq S
BY LenProperties DEF ToSet

LEMMA EventsHaveIds ==
  ASSUME NEW s \in Seq(Event)
  PROVE  \A f \in ToSet(s) : f \in Event /\ f.id \in Nat \ {0} /\ f.idle \in Nat
<1>1. ToSet(s) \subseteq Event
  BY InSeq
<1>2. ASSUME NEW f \in Event  PROVE f.id \in Nat \ {0} /\ f.idle \in Nat
  BY DEF Event
<1>3. QED  BY <1>1, <1>2

LEMMA SpendKeepsBounds ==
  ASSUME TypeOK, NEW b \in Bounds, Spend(b)
  PROVE  scope' \in Scopes /\ left' \in [Bounds -> Nat]
BY DEF TypeOK, Spend

LEMMA NewEventIsAnEvent ==
  ASSUME Typed, NEW t \in Threads, NEW gap \in BOOLEAN  PROVE NewEvent(t, gap) \in Event
<1>1. NextId \in Nat \ {0}
  BY IdsAreNumbers
<1>2. /\ state[t] \in Status /\ selected \in Projects
      /\ deduct \in Nat /\ mark \in BOOLEAN
  BY DEF Typed, TypeOK
<1>3. (IF state[t] = "paused" THEN deduct ELSE 0) \in Nat /\ (t = "main" \/ mark) \in BOOLEAN
  BY <1>2
<1>4. QED  BY <1>1, <1>2, <1>3 DEF NewEvent, Event

LEMMA EmployeeKeepsTyped == ASSUME Typed, Employee  PROVE Typed'
<1> USE DEF memory, threads, journal, remote, bounds
<1>1. "actions" \in Bounds
  BY DEF Bounds
<1>2. ASSUME Press  PROVE /\ raising' \in BOOLEAN /\ scope' \in Scopes
                          /\ left' \in [Bounds -> Nat]
  BY <1>1, <1>2, SpendKeepsBounds DEF Typed, Press
<1>3. CASE StartTracking
  BY <1>2, <1>3 DEF Typed, TypeOK, StartTracking, Press, SamplesFinite, Status
<1>4. CASE PauseTracking
  BY <1>2, <1>4 DEF Typed, TypeOK, PauseTracking, Press, SamplesFinite, Status
<1>5. CASE ResumeTracking
  BY <1>2, <1>5 DEF Typed, TypeOK, ResumeTracking, Press, SamplesFinite, Status
<1>6. CASE StopTracking
  BY <1>2, <1>6 DEF Typed, TypeOK, StopTracking, Press, SamplesFinite, Status
<1>7. ASSUME NEW p \in scope.projects, SelectWork(p)  PROVE Typed'
  <2>1. p \in Projects
    BY TrackerAssumption DEF TrackerAssumption, Typed, TypeOK
  <2>2. QED
    BY <1>2, <1>7, <2>1 DEF Typed, TypeOK, SelectWork, Press, SamplesFinite
<1>8. QED  BY <1>3, <1>4, <1>5, <1>6, <1>7 DEF Employee

\* A thread's next step is one of its own.
LEMMA GotoKeepsTyped ==
  ASSUME TypeOK, NEW t \in Threads, NEW step \in WorkerSteps \cup MainSteps, Goto(t, step),
         t = "worker" => step \in WorkerSteps, t = "main" => step \in MainSteps
  PROVE  /\ pc' \in [Threads -> WorkerSteps \cup MainSteps]
         /\ pc'["worker"] \in WorkerSteps /\ pc'["main"] \in MainSteps
BY DEF TypeOK, Goto, Threads

LEMMA WorkerKeepsTyped == ASSUME Typed, Worker  PROVE Typed'
<1> USE DEF memory, threads, journal, remote, bounds, Typed, TypeOK, SamplesFinite,
            Goto, Threads
<1>1. {"changes", "samples", "failures", "beats"} \subseteq Bounds
  BY DEF Bounds
<1>2. {"down", "idle", "observe", "flag", "clear", "read", "journal", "loop",
       "upload", "waitState", "waitUsage"} \subseteq WorkerSteps
  BY DEF WorkerSteps
<1>3. CASE Loop
  BY <1>2, <1>3 DEF Loop
<1>4. CASE StaysAsItWas
  BY <1>2, <1>4 DEF StaysAsItWas
<1>5. CASE BecomesIdle
  <2>1. 1 .. NextId \subseteq Nat
    BY IdsAreNumbers
  <2>2. QED  BY <1>1, <1>2, <1>5, <2>1, SpendKeepsBounds DEF BecomesIdle
<1>6. CASE ComesBack
  BY <1>1, <1>2, <1>6, SpendKeepsBounds DEF ComesBack
<1>7. CASE Observe
  <2>1. NextId \in Nat \ {0}
    BY IdsAreNumbers
  <2>2. usage' \in Seq(Nat) /\ samples' \subseteq Nat
    BY <1>7, <2>1, AppendProperties DEF Observe
  <2>3. IsFiniteSet(samples')
    BY <1>7, FS_AddElement DEF Observe
  <2>4. QED  BY <1>1, <1>2, <1>7, <2>2, <2>3, SpendKeepsBounds DEF Observe
<1>8. CASE ObserveFails
  BY <1>1, <1>2, <1>8, SpendKeepsBounds DEF ObserveFails
<1>9. CASE NotObserved
  BY <1>2, <1>9 DEF NotObserved
<1>10. CASE ReadFlag
  BY <1>1, <1>2, <1>10, SpendKeepsBounds DEF ReadFlag
<1>11. CASE ClearFlag
  BY <1>2, <1>11 DEF ClearFlag
<1>12. CASE ReadState
  <2>1. Observed \in Status
    BY DEF Observed, Suspended, Status
  <2>2. QED  BY <1>2, <1>12, <2>1 DEF ReadState
<1>13. CASE Upload
  <2>1. states # << >> => Head(states).id \in Nat
    <3>1. states # << >> => Head(states) \in Event
      BY HeadTailProperties
    <3>2. QED  BY <3>1 DEF Event
  <2>2. usage # << >> => Head(usage) \in Nat
    BY HeadTailProperties
  <2>3. /\ pc' \in [Threads -> WorkerSteps \cup MainSteps]
        /\ pc'["worker"] \in WorkerSteps /\ pc'["main"] \in MainSteps
    <3>1. \/ Goto("worker", "waitState") \/ Goto("worker", "waitUsage")
          \/ Goto("worker", "loop")
      BY <1>13 DEF Upload
    <3>2. QED  BY <1>2, <3>1
  <2>4. sending' \in [Threads -> Nat]
    BY <1>13, <2>1, <2>2 DEF Upload
  <2>5. UNCHANGED <<memory, mark, state, journal, remote, bounds>>
    BY <1>13 DEF Upload
  <2>6. QED  BY <2>3, <2>4, <2>5
<1>14. CASE UsageAnswered
  <2>1. usage' \in Seq(Nat)
    BY <1>14, RemoveInSeq DEF UsageAnswered, UsageWithout
  <2>2. /\ pc' \in [Threads -> WorkerSteps \cup MainSteps]
        /\ pc'["worker"] \in WorkerSteps /\ pc'["main"] \in MainSteps
        /\ sending' \in [Threads -> Nat]
    BY <1>2, <1>14 DEF UsageAnswered, Done, NoEvent
  <2>3. rejections' \in Nat /\ aside' \subseteq Nat
    <3>1. \/ rejections' = 0 /\ aside' = aside
          \/ aside' = aside \cup {sending["worker"]} /\ rejections' = rejections
      BY <1>14 DEF UsageAnswered
    <3>2. sending["worker"] \in Nat /\ aside \subseteq Nat /\ rejections \in Nat
      OBVIOUS
    <3>3. rejections' \in Nat
      BY <3>1, <3>2
    <3>4. aside' \subseteq Nat
      BY <3>1, <3>2
    <3>5. QED  BY <3>3, <3>4
  <2>4. UNCHANGED <<timer, idle, deduct, selected, beat, raising, stop, mark, state,
                   states, log, samples, remote, bounds>>
    BY <1>14 DEF UsageAnswered
  <2>5. QED  BY <2>1, <2>2, <2>3, <2>4
<1>15. QED
  BY <1>3, <1>4, <1>5, <1>6, <1>7, <1>8, <1>9, <1>10, <1>11, <1>12, <1>13, <1>14
     DEF Worker

\* An event counts from its own time, or from the newest the server has.
LEMMA CountsFromANumber ==
  ASSUME TypeOK, NEW e \in Event  PROVE Newest \in Nat /\ CountsFrom(e) \in Nat
<1>1. e.id \in Nat /\ ToSet(applied) \subseteq Nat
  BY InSeq DEF TypeOK, Event
<1> DEFINE tops == {n \in ToSet(applied) : \A m \in ToSet(applied) : m <= n}
<1>2. Newest = IF tops = {} THEN NoEvent ELSE CHOOSE n \in tops : TRUE
  BY DEF Newest
<1>3. (CHOOSE n \in tops : TRUE) \in Nat \/ tops = {}
  BY <1>1
<1>4. Newest \in Nat
  BY <1>2, <1>3 DEF NoEvent
<1>5. QED  BY <1>1, <1>4 DEF CountsFrom

LEMMA HeartbeatKeepsTyped ==
  ASSUME Typed, Known, NEW t \in Threads, Heartbeat(t)  PROVE Typed'
<1> USE DEF memory, threads, journal, remote, bounds, Typed, TypeOK, SamplesFinite,
            Goto, Threads
<1>1. {"failures", "refusals", "unknown", "gaps"} \subseteq Bounds
  BY DEF Bounds
<1>2. /\ {"send", "wait", "upload", "loop"} \subseteq WorkerSteps
      /\ {"down", "send", "wait"} \subseteq MainSteps
  BY DEF WorkerSteps, MainSteps
<1>3. ASSUME Done(t)
      PROVE  /\ pc' \in [Threads -> WorkerSteps \cup MainSteps]
             /\ pc'["worker"] \in WorkerSteps /\ pc'["main"] \in MainSteps
             /\ sending' \in [Threads -> Nat]
  BY <1>2, <1>3 DEF Done, NoEvent
<1>4. \A id : /\ Without(states, id) \in Seq(Event)
             /\ ToSet(Without(states, id)) \subseteq ToSet(states)
  BY RemoveInSeq DEF Without
<1>5. CASE AddState(t)
  <2>1. PICK gap \in BOOLEAN :
             /\ states' = Append(states, NewEvent(t, gap)) /\ log' = Append(log, NewEvent(t, gap))
             /\ UNCHANGED bounds \/ Spend("gaps")
    BY <1>5 DEF AddState, Journals
  <2>2. NewEvent(t, gap) \in Event
    BY NewEventIsAnEvent
  <2>3. states' \in Seq(Event) /\ log' \in Seq(Event)
    BY <2>1, <2>2, AppendProperties
  <2>4. scope' \in Scopes /\ left' \in [Bounds -> Nat]
    BY <1>1, <2>1, SpendKeepsBounds
  <2>5. QED  BY <1>2, <1>5, <2>3, <2>4 DEF AddState, Status
<1>6. CASE AddStateFails(t)
  BY <1>1, <1>2, <1>6, SpendKeepsBounds DEF AddStateFails, Status
<1>7. CASE SendState(t)
  <2>1. Head(states).id \in Nat
    <3>1. Head(states) \in Event
      BY <1>7, HeadTailProperties DEF SendState
    <3>2. QED  BY <3>1 DEF Event
  <2>2. QED  BY <1>2, <1>7, <2>1 DEF SendState
<1>8. CASE NothingToSend(t)
  BY <1>2, <1>8 DEF NothingToSend
<1>9. ASSUME Waiting(t)
      PROVE  EventOf(sending[t]) \in Event
  BY <1>9, EventOfKnown, InSeq DEF Known
<1>10. ASSUME Waiting(t), Apply(EventOf(sending[t]))
       PROVE  /\ applied' \in Seq(Nat) /\ spans' \subseteq Span
              /\ server' \in [status : Status, project : Projects \cup {NoProject}]
  <2> DEFINE e == EventOf(sending[t])
  <2>1. e \in Event
    BY <1>9, <1>10
  <2>2. e.id \in Nat /\ e.status \in Status /\ e.project \in Projects \cup {NoProject}
    BY <2>1 DEF Event
  <2> HIDE DEF e
  <2>3. CountsFrom(e) \in Nat /\ Newest \in Nat
    BY <2>1, CountsFromANumber
  <2>4. Opened(e) \subseteq Span /\ \A at \in Nat : Close(at) \subseteq Span
    <3>1. ASSUME NEW at \in Nat, NEW s \in spans
          PROVE  (IF s.to = Open THEN [s EXCEPT !.to = IF at < s.from THEN s.from ELSE at] ELSE s)
                    \in Span
      BY DEF Span
    <3>2. QED  BY <2>3, <3>1 DEF Close, Opened, Span, Open
  <2>5. CASE e.id \in ToSet(applied)
    BY <1>10, <2>5 DEF Apply, e
  <2>6. CASE e.id \notin ToSet(applied)
    <3>1. /\ applied' = Append(applied, e.id)
          /\ server' = [status |-> e.status, project |-> e.project]
          /\ \/ \E at \in Newest .. e.id - 1 : spans' = Close(at) \cup Opened(e)
             \/ spans' = spans
             \/ e.idle # 0 /\ \E at \in e.idle - 1 .. CountsFrom(e) : spans' = Close(at)
             \/ spans' = Close(CountsFrom(e)) \cup Opened(e)
      BY <1>10, <2>6 DEF Apply, Deducts, e
    <3>2. e.idle \in Nat
      BY <2>1 DEF Event
    <3>3. \/ \E at \in Nat : spans' = Close(at) \cup Opened(e)
          \/ spans' = spans
          \/ \E at \in Nat : spans' = Close(at)
      <4>1. \A at \in Newest .. e.id - 1 : at \in Nat
        BY <2>3
      <4>2. e.idle # 0 => \A at \in e.idle - 1 .. CountsFrom(e) : at \in Nat
        BY <2>3, <3>2
      <4>3. QED  BY <2>3, <3>1, <4>1, <4>2
    <3>4. spans' \subseteq Span
      BY <2>4, <3>3
    <3>5. QED  BY <2>2, <3>1, <3>4, AppendProperties
  <2>7. QED  BY <2>5, <2>6
<1>11. CASE StateAccepted(t)
  BY <1>3, <1>4, <1>10, <1>11 DEF StateAccepted
<1>12. CASE StateAnswerLost(t)
  BY <1>3, <1>10, <1>12 DEF StateAnswerLost
<1>13. CASE Offline(t)
  BY <1>3, <1>13 DEF Offline
<1>14. CASE StateRefused(t)
  <2> DEFINE e == EventOf(sending[t])
             rest == Without(states, sending[t])
  <2>1. /\ Waiting(t) /\ Done(t) /\ Spend("refusals")
        /\ aside' = aside \cup {e.id} /\ states' = rest
        /\ \/ timer' = "stopped" /\ idle' = FALSE /\ beat' = TRUE
           \/ UNCHANGED <<timer, idle, beat>>
        /\ UNCHANGED <<deduct, selected, raising, stop, rejections, mark, state,
                       usage, log, samples, remote>>
    BY <1>14 DEF StateRefused
  <2>2. e.id \in Nat
    BY <1>9, <2>1 DEF Event
  <2>3. rest \in Seq(Event)
    BY <1>4
  <2> HIDE DEF e, rest
  <2>4. scope' \in Scopes /\ left' \in [Bounds -> Nat]
    BY <1>1, <2>1, SpendKeepsBounds
  <2>5. timer' \in Status /\ idle' \in BOOLEAN /\ beat' \in BOOLEAN
    BY <2>1 DEF Status
  <2>6. aside' \subseteq Nat /\ states' \in Seq(Event)
    BY <2>1, <2>2, <2>3
  <2>7. QED  BY <1>3, <2>1, <2>4, <2>5, <2>6
<1>15. CASE TokenRefused(t)
  <2>1. scope' \in Scopes /\ left' \in [Bounds -> Nat]
    BY <1>1, <1>15, SpendKeepsBounds DEF TokenRefused
  <2>2. rejections' \in Nat
    BY <1>15 DEF TokenRefused
  <2>3. stop' \in BOOLEAN
    BY <1>15, Zenon DEF TokenRefused
  <2>4. Done(t) /\ UNCHANGED <<timer, idle, deduct, selected, beat, raising, mark, state,
                             journal, remote>>
    BY <1>15 DEF TokenRefused
  <2>5. QED  BY <1>3, <2>1, <2>2, <2>3, <2>4
<1>16. QED
  BY <1>5, <1>6, <1>7, <1>8, <1>11, <1>12, <1>13, <1>14, <1>15 DEF Heartbeat, Answer

\* What a new process begins with.
LEMMA FreshIsTyped ==
  ASSUME Fresh
  PROVE  /\ timer' \in Status /\ idle' \in BOOLEAN /\ deduct' \in Nat
         /\ selected' \in Projects /\ beat' \in BOOLEAN /\ raising' \in BOOLEAN
         /\ stop' \in BOOLEAN /\ rejections' \in Nat /\ mark' \in BOOLEAN
         /\ state' \in [Threads -> Status] /\ sending' \in [Threads -> Nat]
BY TrackerAssumption DEF TrackerAssumption, Fresh, Status, NoEvent

LEMMA OthersKeepTyped ==
  ASSUME Typed, RaiseFlag \/ Main \/ Launch \/ Quit \/ Crash \/ UNCHANGED vars
  PROVE  Typed'
<1> USE DEF memory, threads, journal, remote, bounds, Typed, TypeOK, SamplesFinite,
            Goto, Threads
<1>1. {"launches", "crashes"} \subseteq Bounds
  BY DEF Bounds
<1>9. /\ {"down", "loop"} \subseteq WorkerSteps
      /\ {"down", "start", "run", "join", "journal"} \subseteq MainSteps
  BY DEF WorkerSteps, MainSteps
<1>2. CASE RaiseFlag
  BY <1>2 DEF RaiseFlag
<1>3. CASE Main
  <2>1. CASE Started
    BY <1>9, <2>1 DEF Started
  <2>2. CASE Joined
    BY <1>9, <2>2 DEF Joined, Status
  <2>3. CASE Exit
    BY <1>9, <2>3, FreshIsTyped DEF Exit
  <2>4. QED  BY <1>3, <2>1, <2>2, <2>3 DEF Main
<1>4. CASE Launch
  BY <1>1, <1>9, <1>4, FreshIsTyped, SpendKeepsBounds DEF Launch
<1>5. CASE Quit
  BY <1>9, <1>5 DEF Quit
<1>6. CASE Crash
  BY <1>1, <1>9, <1>6, FreshIsTyped, SpendKeepsBounds DEF Crash
<1>7. CASE UNCHANGED vars
  BY <1>7 DEF vars
<1>8. QED  BY <1>2, <1>3, <1>4, <1>5, <1>6, <1>7

LEMMA InitIsTyped == Init => Typed
<1> SUFFICES ASSUME Init  PROVE Typed
  OBVIOUS
<1>1. left \in [Bounds -> Nat]
  BY TrackerAssumption DEF TrackerAssumption, Init
<1>2. IsFiniteSet(samples)
  BY FS_EmptySet DEF Init
<1>3. /\ pc \in [Threads -> WorkerSteps \cup MainSteps]
      /\ pc["worker"] \in WorkerSteps /\ pc["main"] \in MainSteps
  BY DEF Init, WorkerSteps, MainSteps, Threads
<1>4. /\ states \in Seq(Event) /\ log \in Seq(Event) /\ usage \in Seq(Nat)
      /\ applied \in Seq(Nat) /\ aside \subseteq Nat /\ samples \subseteq Nat
      /\ spans \subseteq Span
  BY DEF Init
<1>5. /\ state \in [Threads -> Status] /\ sending \in [Threads -> Nat]
      /\ server \in [status : Status, project : Projects \cup {NoProject}]
  BY DEF Init, Status, NoEvent, NoProject
<1>6. selected \in Projects /\ scope \in Scopes
  BY TrackerAssumption DEF TrackerAssumption, Init
<1>7. QED
  BY <1>1, <1>2, <1>3, <1>4, <1>5, <1>6 DEF Init, Typed, TypeOK, SamplesFinite, Status
-----------------------------------------------------------------------------
(***************************************************************************)
(* The journal: what is queued, under way, applied and set aside.          *)
(***************************************************************************)

Ordered(events) == \A i, j \in DOMAIN events : i < j => events[i].id < events[j].id

\* The next number is above every number given out.
Numbered ==
  /\ \A e \in ToSet(log) : e.id < NextId
  /\ \A k \in samples : k < NextId /\ k \notin Ids(log)
  /\ Ordered(log)

Queued == Ordered(states) /\ ToSet(usage) \subseteq samples

\* What a thread has sent is the oldest event still, or it has been dealt with
\* by the other thread; a sample under way is older than every queued state.
Sent ==
  /\ \A t \in Threads : Waiting(t) =>
       \/ sending[t] \in ToSet(applied) \cup aside
       \/ states # << >> /\ sending[t] = Head(states).id
  /\ pc["worker"] = "waitUsage" =>
       /\ sending["worker"] \in samples
       /\ \A e \in ToSet(states) : sending["worker"] < e.id

\* What is applied or refused is older than what is queued.
Replayed ==
  /\ ToSet(applied) \subseteq Ids(log) /\ aside \subseteq Ids(log) \cup samples
  /\ \A e \in ToSet(states), x \in ToSet(applied) \cup (aside \cap Ids(log)) : x <= e.id
  /\ JournalIsReplayed

\* An open span holds one stretch of active work.  Every active event that was
\* applied lies in a span, and what comes right behind it lies there too, or the
\* span was closed before it because of a gap or of idle time.
Excused(e, k) == LapseBehind(e, k) \/ IdleBehind(e, k)
WhileOpen(s) ==
  /\ server.status = "active" /\ s.from \in ToSet(applied)
  /\ \A x \in ToSet(log) : x.id \in ToSet(applied) /\ x.id >= s.from =>
       x.status = "active" /\ x.project = server.project
Holds(s, e) ==
  /\ s.from <= e.id
  /\ s.to # Open => \A k \in Nat \ Ids(log) : Precedes(e, k) /\ s.to < k => Excused(e, k)
Segments == NothingCameLate =>
  /\ server.status = "active" => \E s \in spans : s.to = Open
  /\ \A s \in spans : s.to = Open => WhileOpen(s)
  /\ \A e \in ToSet(log) : e.status = "active" /\ e.id \in ToSet(applied) =>
       \E s \in spans : Holds(s, e)

JournalInv == /\ Typed /\ Known /\ Numbered /\ Queued /\ Sent /\ Replayed /\ Segments
              /\ SampleFindsItsSession

\* Steps that leave the journal and the server alone and send nothing new.
Replay == <<states, usage, aside, log, samples, applied, server, spans>>
SendsNothingNew ==
  /\ \A t \in Threads : Waiting(t)' => Waiting(t) /\ sending'[t] = sending[t]
  /\ pc'["worker"] = "waitUsage" =>
       pc["worker"] = "waitUsage" /\ sending'["worker"] = sending["worker"]

\* What the two say depends on these variables only.
LEMMA JudgedBy ==
  ASSUME UNCHANGED <<log, applied, aside, server, spans>>
  PROVE  /\ Segments => Segments'
         /\ UNCHANGED samples /\ SampleFindsItsSession => SampleFindsItsSession'
<1>1. NothingCameLate' <=> NothingCameLate
  BY DEF NothingCameLate
<1>2. \A e, k : Precedes(e, k)' <=> Precedes(e, k)
  BY DEF Precedes
<1>3. \A e, k : LapseBehind(e, k)' <=> LapseBehind(e, k)
  BY DEF LapseBehind, AppliedAfter, Slept, Skipped
<1>4. \A e, k : IdleBehind(e, k)' <=> IdleBehind(e, k)
  BY DEF IdleBehind, AppliedAfter
<1>5. \A e, k : Excused(e, k)' <=> Excused(e, k)
  BY <1>3, <1>4 DEF Excused
<1>6. \A s \in spans : WhileOpen(s)' <=> WhileOpen(s)
  BY DEF WhileOpen
<1>7. \A s \in spans, e \in ToSet(log) : Holds(s, e)' <=> Holds(s, e)
  BY <1>2, <1>5 DEF Holds, Ids
<1>8. Segments => Segments'
  BY <1>1, <1>6, <1>7 DEF Segments
<1>9. ASSUME UNCHANGED samples, SampleFindsItsSession  PROVE SampleFindsItsSession'
  BY <1>1, <1>2, <1>3, <1>4, <1>9 DEF SampleFindsItsSession
<1>10. QED  BY <1>8, <1>9

\* What excuses a sample goes on doing so when the journal grows and the server
\* applies later events.
LEMMA ExcuseStays ==
  ASSUME ToSet(log) \subseteq ToSet(log'), aside \subseteq aside', NEW k,
         \A f \in ToSet(log') : f.id \in Nat,
         AppliedAfter(k) \subseteq AppliedAfter(k)',
         \A f \in AppliedAfter(k), x \in AppliedAfter(k)' \ AppliedAfter(k) : f.id <= x.id,
         NEW e, Excused(e, k)
  PROVE  Excused(e, k)'
<1>1. \A f : /\ Slept(e.id, f) => Slept(e.id, f)'
             /\ Skipped(e.id, f) => Skipped(e.id, f)'
  BY DEF Slept, Skipped
<1>2. CASE LapseBehind(e, k)
  <2>1. PICK f \in AppliedAfter(k) : /\ \A x \in AppliedAfter(k) : f.id <= x.id
                                     /\ Slept(e.id, f) \/ Skipped(e.id, f)
    BY <1>2 DEF LapseBehind
  <2>2. f \in AppliedAfter(k)' /\ \A x \in AppliedAfter(k)' : f.id <= x.id
    BY <2>1
  <2>3. QED  BY <1>1, <2>1, <2>2 DEF Excused, LapseBehind
<1>3. CASE IdleBehind(e, k)
  <2>1. PICK p \in AppliedAfter(k) :
           /\ p.idle \in 1 .. k /\ p.project = e.project
           /\ \A x \in AppliedAfter(k) : x.id < p.id => x.status = "active" /\ x.project = e.project
    BY <1>3 DEF IdleBehind
  <2>2. ASSUME NEW x \in AppliedAfter(k)', x.id < p.id  PROVE x \in AppliedAfter(k)
    <3>1. x.id \in Nat /\ p.id \in Nat
      BY DEF AppliedAfter
    <3>2. QED  BY <2>2, <3>1
  <2>3. QED  BY <2>1, <2>2 DEF Excused, IdleBehind
<1>4. QED  BY <1>2, <1>3 DEF Excused

LEMMA ExcuseUnmoved ==
  ASSUME UNCHANGED <<log, applied>>, aside \subseteq aside', NEW e, NEW k, Excused(e, k)
  PROVE  Excused(e, k)'
BY DEF Excused, LapseBehind, IdleBehind, AppliedAfter, Slept, Skipped

LEMMA SegmentsStay ==
  ASSUME UNCHANGED <<log, applied, server, spans>>, aside \subseteq aside', Segments
  PROVE  Segments'
<1>1. \A e, k : Excused(e, k) => Excused(e, k)'
  BY ExcuseUnmoved
<1>2. \A s, e : Holds(s, e) => Holds(s, e)'
  BY <1>1 DEF Holds, Precedes, Ids
<1>3. QED  BY <1>2 DEF Segments, NothingCameLate, WhileOpen

LEMMA QuietKeepsInv ==
  ASSUME JournalInv, Typed', UNCHANGED Replay, SendsNothingNew
  PROVE  JournalInv'
<1> USE DEF JournalInv, Replay
<1>1. Known'
  BY DEF Known, SendsNothingNew, Ids
<1>2. Numbered' /\ Queued'
  BY DEF Numbered, Queued, Ordered, NextId, Ids
<1>3. Sent'
  BY DEF Sent, SendsNothingNew
<1>4. Replayed'
  BY DEF Replayed, JournalIsReplayed, NoEventLost, AppliedInOrder, Ids
<1>5. Segments' /\ SampleFindsItsSession'
  BY JudgedBy
<1>6. QED  BY <1>1, <1>2, <1>3, <1>4, <1>5

\* A thread that moves to a step where it does not wait.
LEMMA GoingOnSendsNothing ==
  ASSUME TypeOK, NEW t \in Threads, NEW step, step \notin {"wait", "waitState", "waitUsage"},
         Goto(t, step), \A u \in Threads : u # t => sending'[u] = sending[u]
  PROVE  SendsNothingNew
<1>1. \A u \in Threads : pc'[u] = IF u = t THEN step ELSE pc[u]
  BY DEF TypeOK, Goto
<1>2. "worker" \in Threads
  BY DEF Threads
<1>3. QED  BY <1>1, <1>2 DEF SendsNothingNew, Waiting

LEMMA DoneSendsNothing ==
  ASSUME TypeOK, NEW t \in Threads, Done(t)  PROVE SendsNothingNew
<1>1. PICK step \in {"down", "upload", "loop"} : Goto(t, step)
  BY DEF Done
<1>2. \A u \in Threads : u # t => sending'[u] = sending[u]
  BY DEF Done, TypeOK
<1>3. QED  BY <1>1, <1>2, GoingOnSendsNothing

LEMMA FreshSendsNothing ==
  ASSUME TypeOK, \A t \in Threads : pc'[t] \notin {"wait", "waitState", "waitUsage"}
  PROVE  SendsNothingNew
BY DEF SendsNothingNew, Waiting, Threads

LEMMA OrderedIdsAreUnique ==
  ASSUME NEW s \in Seq(Event), Ordered(s), NEW e \in ToSet(s), NEW f \in ToSet(s), e.id = f.id
  PROVE  e = f
<1>1. PICK i \in DOMAIN s : e = s[i]
  BY DEF ToSet
<1>2. PICK j \in DOMAIN s : f = s[j]
  BY DEF ToSet
<1>3. i \in Int /\ j \in Int /\ e \in Event
  BY <1>1, LenProperties, InSeq
<1>4. e.id \in Int
  BY <1>3 DEF Event
<1>5. ~(i < j) /\ ~(j < i)
  BY <1>1, <1>2, <1>4 DEF Ordered
<1>6. QED  BY <1>1, <1>2, <1>3, <1>5

LEMMA HeadIsFirst ==
  ASSUME NEW s \in Seq(Event), s # << >>
  PROVE  /\ Head(s) = s[1] /\ 1 \in DOMAIN s /\ Head(s) \in ToSet(s) /\ Head(s) \in Event
         /\ DOMAIN s = 1 .. Len(s) /\ Len(s) \in Nat
BY HeadTailProperties, LenProperties DEF ToSet

LEMMA TailIsTheRest ==
  ASSUME NEW s \in Seq(Event), s # << >>, Ordered(s)
  PROVE  /\ Tail(s) \in Seq(Event) /\ Ordered(Tail(s))
         /\ \A e \in ToSet(Tail(s)) : e \in ToSet(s) /\ Head(s).id < e.id
         /\ \A e \in ToSet(s) : e = Head(s) \/ e \in ToSet(Tail(s))
<1>1. /\ Tail(s) \in Seq(Event) /\ Len(Tail(s)) = Len(s) - 1
      /\ \A i \in 1 .. Len(Tail(s)) : Tail(s)[i] = s[i + 1]
      /\ DOMAIN Tail(s) = 1 .. Len(s) - 1
  BY HeadTailProperties, LenProperties
<1>2. Head(s) = s[1] /\ DOMAIN s = 1 .. Len(s) /\ Len(s) \in Nat /\ 1 \in DOMAIN s
  BY HeadIsFirst
<1>3. Ordered(Tail(s))
  BY <1>1, <1>2 DEF Ordered
<1>4. ASSUME NEW e \in ToSet(Tail(s))  PROVE e \in ToSet(s) /\ Head(s).id < e.id
  <2>1. PICK i \in 1 .. Len(s) - 1 : e = s[i + 1]
    BY <1>1 DEF ToSet
  <2>2. i + 1 \in DOMAIN s /\ 1 < i + 1
    BY <1>2, <2>1
  <2>3. QED  BY <1>2, <2>1, <2>2 DEF ToSet, Ordered
<1>5. ASSUME NEW e \in ToSet(s)  PROVE e = Head(s) \/ e \in ToSet(Tail(s))
  <2>1. PICK i \in DOMAIN s : e = s[i]
    BY DEF ToSet
  <2>2. CASE i = 1
    BY <1>2, <2>1, <2>2
  <2>3. CASE i # 1
    <3>1. i - 1 \in 1 .. Len(s) - 1 /\ (i - 1) + 1 = i
      BY <1>2, <2>3
    <3>2. Tail(s)[i - 1] = s[i]
      BY <1>1, <3>1
    <3>3. QED  BY <1>1, <2>1, <3>1, <3>2 DEF ToSet
  <2>4. QED  BY <2>2, <2>3
<1>6. QED  BY <1>1, <1>3, <1>4, <1>5

\* Without what a thread has sent, the queue holds what is younger.
LEMMA RestOfTheQueue ==
  ASSUME JournalInv, NEW t \in Threads, Waiting(t), NEW rest,
         rest = Without(states, sending[t])
  PROVE  /\ rest \in Seq(Event) /\ Ordered(rest) /\ ToSet(rest) \subseteq ToSet(states)
         /\ \A e \in ToSet(rest) : sending[t] < e.id
         /\ \A e \in ToSet(states) : e.id = sending[t] \/ e \in ToSet(rest)
         /\ states # << >> /\ Head(states).id # sending[t] => rest = states
<1> DEFINE x == sending[t]
           I == {i \in DOMAIN states : states[i].id = x}
<1>1. /\ states \in Seq(Event) /\ log \in Seq(Event) /\ Ordered(states)
      /\ ToSet(states) \subseteq ToSet(log) /\ x \in Ids(log)
  BY DEF JournalInv, Typed, TypeOK, Known, Queued
<1>2. x \in Nat /\ \A e \in ToSet(states) : e.id \in Nat
  BY <1>1, InSeq DEF Ids, Event
<1>3. rest = RemoveIn(states, I)
  BY DEF Without
<1>4. CASE states = << >>
  <2>1. I = {} /\ ToSet(states) = {}
    BY <1>4 DEF ToSet
  <2>2. rest = states
    BY <1>3, <2>1 DEF RemoveIn
  <2>3. QED  BY <1>1, <1>4, <2>1, <2>2
<1>5. CASE states # << >> /\ Head(states).id = x
  <2>1. /\ states[1].id = x /\ 1 \in DOMAIN states
        /\ DOMAIN states = 1 .. Len(states) /\ Len(states) \in Nat
    BY <1>1, <1>5, HeadIsFirst
  <2>2. ASSUME NEW i \in DOMAIN states, i # 1  PROVE states[i].id # x
    <3>1. 1 < i
      BY <2>1, <2>2
    <3>2. states[1].id < states[i].id
      BY <1>1, <2>1, <3>1 DEF Ordered
    <3>3. QED  BY <2>1, <3>2, <1>2
  <2>3. I = {1}
    BY <2>1, <2>2
  <2>4. rest = Tail(states)
    BY <1>1, <1>3, <1>5, <2>3, RemoveFirstRow
  <2>5. QED  BY <1>1, <1>5, <2>4, TailIsTheRest
<1>6. CASE states # << >> /\ Head(states).id # x
  <2>1. x \in ToSet(applied) \cup (aside \cap Ids(log))
    BY <1>1, <1>6 DEF JournalInv, Sent
  <2>2. /\ Head(states) = states[1] /\ 1 \in DOMAIN states /\ Head(states) \in ToSet(states)
        /\ DOMAIN states = 1 .. Len(states) /\ Len(states) \in Nat
    BY <1>1, <1>6, HeadIsFirst
  <2>3. x < states[1].id
    BY <1>2, <1>6, <2>1, <2>2 DEF JournalInv, Replayed
  <2>4. ASSUME NEW i \in DOMAIN states  PROVE x < states[i].id
    <3>1. i = 1 \/ 1 < i
      BY <2>2
    <3>2. i = 1 \/ states[1].id < states[i].id
      BY <1>1, <2>2, <3>1 DEF Ordered
    <3>3. states[1].id \in Nat /\ states[i].id \in Nat
      BY <1>2, <2>2 DEF ToSet
    <3>4. QED  BY <1>2, <2>3, <3>2, <3>3
  <2>5. I = {}
    BY <1>2, <2>4
  <2>6. rest = states
    BY <1>3, <2>5 DEF RemoveIn
  <2>7. QED  BY <1>1, <2>4, <2>6 DEF ToSet
<1>7. QED  BY <1>4, <1>5, <1>6

LEMMA AppendKeepsOrder ==
  ASSUME NEW s \in Seq(Event), Ordered(s), NEW e \in Event, \A f \in ToSet(s) : f.id < e.id
  PROVE  Ordered(Append(s, e))
<1>1. /\ DOMAIN Append(s, e) = 1 .. Len(s) + 1 /\ DOMAIN s = 1 .. Len(s) /\ Len(s) \in Nat
      /\ Append(s, e)[Len(s) + 1] = e /\ \A i \in 1 .. Len(s) : Append(s, e)[i] = s[i]
  BY AppendProperties, LenProperties
<1>2. ASSUME NEW i \in 1 .. Len(s) + 1, NEW j \in 1 .. Len(s) + 1, i < j
      PROVE  Append(s, e)[i].id < Append(s, e)[j].id
  <2>1. i \in 1 .. Len(s) /\ (j \in 1 .. Len(s) \/ j = Len(s) + 1)
    BY <1>1, <1>2
  <2>2. s[i] \in ToSet(s)
    BY <1>1, <2>1 DEF ToSet
  <2>3. QED  BY <1>1, <1>2, <2>1, <2>2 DEF Ordered
<1>3. QED  BY <1>1, <1>2 DEF Ordered

LEMMA AddStateKeepsInv ==
  ASSUME JournalInv, Typed', NEW t \in Threads, AddState(t)
  PROVE  JournalInv'
<1>1. /\ states \in Seq(Event) /\ log \in Seq(Event) /\ TypeOK /\ Typed
      /\ Ordered(log) /\ Ordered(states) /\ ToSet(states) \subseteq ToSet(log)
  BY DEF JournalInv, Typed, TypeOK, Numbered, Queued, Known
<1>2. PICK e \in Event : /\ states' = Append(states, e) /\ log' = Append(log, e)
                         /\ e.id = NextId /\ NextId \in Nat
  <2>1. PICK gap \in BOOLEAN :
           states' = Append(states, NewEvent(t, gap)) /\ log' = Append(log, NewEvent(t, gap))
    BY DEF AddState, Journals
  <2>2. NewEvent(t, gap) \in Event /\ NewEvent(t, gap).id = NextId /\ NextId \in Nat
    BY <1>1, NewEventIsAnEvent, IdsAreNumbers DEF NewEvent
  <2>3. QED  BY <2>1, <2>2
<1>3. /\ states' = Append(states, e) /\ log' = Append(log, e)
      /\ UNCHANGED <<usage, aside, samples, applied, server, spans, sending>>
      /\ Goto(t, "send")
  BY <1>2 DEF AddState, remote
<1>4. ToSet(log') = ToSet(log) \cup {e} /\ ToSet(states') = ToSet(states) \cup {e}
  BY <1>1, <1>3, ToSetAppend
<1>5. Ids(log') = Ids(log) \cup {NextId}
  BY <1>2, <1>4 DEF Ids
<1>6. NextId' = NextId + 1
  <2>1. Len(log') = Len(log) + 1 /\ Len(log) \in Nat
    BY <1>1, <1>2, <1>3, AppendProperties, LenProperties
  <2>2. Cardinality(samples) \in Nat
    BY <1>1, FS_CardinalityType DEF Typed, SamplesFinite
  <2>3. QED  BY <1>3, <2>1, <2>2 DEF NextId
<1>7. \A f \in ToSet(log) : f.id < NextId /\ f.id \in Nat
  BY <1>1, InSeq DEF JournalInv, Numbered, Event
<1>8. \A x \in Ids(log) \cup samples : x < NextId /\ x \in Nat
  BY <1>1, <1>7 DEF JournalInv, Numbered, Ids, TypeOK
<1>9. SendsNothingNew
  BY <1>1, <1>3, GoingOnSendsNothing
<1>10. Known'
  BY <1>3, <1>4, <1>5, <1>9 DEF JournalInv, Known, SendsNothingNew
<1>11. Numbered'
  <2>1. Ordered(log')
    BY <1>1, <1>2, <1>3, <1>7, AppendKeepsOrder
  <2>2. \A f \in ToSet(log') : f.id < NextId'
    BY <1>2, <1>4, <1>6, <1>7
  <2>3. \A k \in samples : k < NextId' /\ k \notin Ids(log')
    BY <1>2, <1>5, <1>6, <1>8 DEF JournalInv, Numbered
  <2>4. QED  BY <1>3, <2>1, <2>2, <2>3 DEF Numbered
<1>12. Queued'
  BY <1>1, <1>2, <1>3, <1>7, AppendKeepsOrder DEF JournalInv, Queued
<1>13. Sent'
  <2>1. states # << >> => states' # << >> /\ Head(states') = Head(states)
    BY <1>1, <1>2, <1>3, AppendProperties, HeadTailProperties
  <2>2. sending["worker"] \in samples => sending["worker"] < e.id
    BY <1>2, <1>8
  <2>3. QED  BY <1>3, <1>4, <1>9, <2>1, <2>2 DEF JournalInv, Sent, SendsNothingNew
<1>14. Replayed'
  <2>1. aside \cap Ids(log') = aside \cap Ids(log)
    BY <1>5, <1>8 DEF JournalInv, Replayed
  <2>2. ASSUME NEW f \in ToSet(states'), NEW x \in ToSet(applied) \cup (aside \cap Ids(log))
        PROVE  x <= f.id
    <3>1. x \in Ids(log)
      BY <2>2 DEF JournalInv, Replayed
    <3>2. QED  BY <1>2, <1>4, <1>8, <3>1, <2>2 DEF JournalInv, Replayed
  <2>3. NoEventLost'
    <3>1. NextId \in Ids(states')
      BY <1>2, <1>4 DEF Ids
    <3>2. Ids(states) \subseteq Ids(states')
      BY <1>4 DEF Ids
    <3>3. QED  BY <1>3, <1>5, <3>1, <3>2 DEF JournalInv, Replayed, JournalIsReplayed, NoEventLost
  <2>4. AppliedInOrder'
    BY <1>3 DEF JournalInv, Replayed, JournalIsReplayed, AppliedInOrder
  <2>5. QED
    BY <1>3, <1>5, <2>1, <2>2, <2>3, <2>4 DEF JournalInv, Replayed, JournalIsReplayed
<1>15. e.id \notin ToSet(applied)
  BY <1>2, <1>8 DEF JournalInv, Replayed
<1>16. \A k, f : Excused(f, k) => Excused(f, k)'
  <2>1. \A k : AppliedAfter(k)' = AppliedAfter(k)
    BY <1>3, <1>4, <1>15 DEF AppliedAfter
  <2>2. QED  BY <1>2, <1>3, <1>4, <1>7, <2>1, ExcuseStays
<1>17. \A k, f : Precedes(f, k)' => Precedes(f, k)
  BY <1>4 DEF Precedes
<1>18. Segments'
  <2>1. SUFFICES ASSUME NothingCameLate
                 PROVE  /\ server.status = "active" => \E s \in spans : s.to = Open
                        /\ \A s \in spans : s.to = Open => WhileOpen(s)'
                        /\ \A f \in ToSet(log') : f.status = "active" /\ f.id \in ToSet(applied) =>
                             \E s \in spans : Holds(s, f)'
    BY <1>3 DEF Segments, NothingCameLate
  <2>2. \A s : WhileOpen(s) => WhileOpen(s)'
    BY <1>3, <1>4, <1>15 DEF WhileOpen
  <2>3. \A s, f : Holds(s, f) => Holds(s, f)'
    BY <1>5, <1>16, <1>17 DEF Holds
  <2>4. QED  BY <1>4, <1>15, <2>1, <2>2, <2>3 DEF JournalInv, Segments
<1>19. SampleFindsItsSession'
  <2>1. \A id \in samples : ~(e.id < id)
    BY <1>2, <1>8 DEF JournalInv
  <2>2. \A id \in samples : ~Precedes(e, id)'
    BY <2>1 DEF Precedes
  <2>3. QED
    BY <1>3, <1>4, <1>16, <1>17, <2>2
       DEF JournalInv, SampleFindsItsSession, NothingCameLate, Excused
<1>20. QED
  BY <1>10, <1>11, <1>12, <1>13, <1>14, <1>18, <1>19 DEF JournalInv

LEMMA ObserveKeepsInv == ASSUME JournalInv, Typed', Observe  PROVE JournalInv'
<1>1. PICK k \in Nat : k = NextId
  BY IdsAreNumbers DEF JournalInv
<1>2. /\ usage' = Append(usage, k) /\ samples' = samples \cup {k}
      /\ UNCHANGED <<states, aside, log, applied, server, spans, sending>>
      /\ Goto("worker", "flag")
  BY <1>1 DEF Observe, remote
<1>3. usage \in Seq(Nat) /\ log \in Seq(Event) /\ TypeOK /\ Typed
  BY DEF JournalInv, Typed, TypeOK
<1>4. \A e \in ToSet(log) : e.id < k /\ e.id \in Nat
  BY <1>1, <1>3, EventsHaveIds DEF JournalInv, Numbered
<1>5. \A j \in samples : j < k
  BY <1>1 DEF JournalInv, Numbered
<1>6. k \notin samples /\ k \notin Ids(log)
  BY <1>4, <1>5 DEF Ids
<1>7. NextId' = k + 1
  <2>1. Cardinality(samples') = Cardinality(samples) + 1 /\ Cardinality(samples) \in Nat
    BY <1>2, <1>3, <1>6, FS_AddElement, FS_CardinalityType DEF Typed, SamplesFinite
  <2>2. Len(log) \in Nat
    BY <1>3, LenProperties
  <2>3. QED  BY <1>1, <1>2, <2>1, <2>2 DEF NextId
<1>8. SendsNothingNew
  BY <1>2, <1>3, GoingOnSendsNothing DEF Threads
<1>9. Known'
  BY <1>2, <1>8 DEF JournalInv, Known, SendsNothingNew, Ids
<1>10. Numbered'
  <2>1. \A e \in ToSet(log) : e.id < k + 1
    BY <1>4
  <2>2. \A j \in samples \cup {k} : j < k + 1 /\ j \notin Ids(log)
    BY <1>3, <1>5, <1>6 DEF JournalInv, Numbered, TypeOK
  <2>3. QED  BY <1>2, <1>7, <2>1, <2>2 DEF JournalInv, Numbered, Ids, Ordered
<1>11. Queued'
  <2>1. ToSet(usage') = ToSet(usage) \cup {k}
    BY <1>2, <1>3, ToSetAppend
  <2>2. QED  BY <1>2, <2>1 DEF JournalInv, Queued, Ordered
<1>12. Sent'
  BY <1>2, <1>8 DEF JournalInv, Sent, SendsNothingNew
<1>13. Replayed'
  BY <1>2 DEF JournalInv, Replayed, JournalIsReplayed, NoEventLost, AppliedInOrder, Ids
<1>14. Segments'
  BY <1>2, JudgedBy DEF JournalInv
<1>15. SampleFindsItsSession'
  <2>1. k \notin aside
    BY <1>6 DEF JournalInv, Replayed
  <2>2. QED
    BY <1>2, <2>1 DEF JournalInv, SampleFindsItsSession, NothingCameLate, Precedes,
         LapseBehind, IdleBehind, AppliedAfter, Slept, Skipped
<1>16. QED
  BY <1>9, <1>10, <1>11, <1>12, <1>13, <1>14, <1>15 DEF JournalInv

\* A thread sends the oldest state, or a sample when no state is queued.
LEMMA SendingKeepsInv ==
  ASSUME JournalInv, Typed', UNCHANGED Replay, NEW t \in Threads, NEW step, Goto(t, step),
         NEW x, sending' = [sending EXCEPT ![t] = x],
         \/ /\ step \in {"wait", "waitState"}
            /\ states # << >> /\ x = Head(states).id
         \/ step = "waitUsage" /\ t = "worker" /\ states = << >> /\ x \in samples
  PROVE  JournalInv'
<1>1. /\ TypeOK /\ states \in Seq(Event)
      /\ pc'[t] = step /\ \A u \in Threads \ {t} : pc'[u] = pc[u]
      /\ sending'[t] = x /\ \A u \in Threads \ {t} : sending'[u] = sending[u]
  BY DEF JournalInv, Typed, TypeOK, Goto
<1>2. ToSet(<< >>) = {} /\ "worker" \in Threads
  BY DEF ToSet, Threads
<1>3. states # << >> => Head(states).id \in Ids(log)
  BY <1>1, HeadIsFirst DEF JournalInv, Known, Ids
<1>4. Known'
  BY <1>1, <1>2, <1>3 DEF JournalInv, Known, Replay, Waiting, Ids
<1>5. Sent'
  <2>1. ASSUME NEW u \in Threads, Waiting(u)'
        PROVE  \/ sending'[u] \in ToSet(applied) \cup aside
               \/ states # << >> /\ sending'[u] = Head(states).id
    BY <1>1, <2>1 DEF JournalInv, Sent, Waiting
  <2>2. ASSUME pc'["worker"] = "waitUsage"
        PROVE  /\ sending'["worker"] \in samples
               /\ \A e \in ToSet(states) : sending'["worker"] < e.id
    BY <1>1, <1>2, <2>2 DEF JournalInv, Sent
  <2>3. QED  BY <2>1, <2>2 DEF Sent, Replay
<1>6. Numbered' /\ Queued' /\ Replayed'
  BY DEF JournalInv, Numbered, Queued, Ordered, NextId, Ids, Replay, Replayed,
         JournalIsReplayed, NoEventLost, AppliedInOrder
<1>7. Segments' /\ SampleFindsItsSession'
  BY JudgedBy DEF JournalInv, Replay
<1>8. QED  BY <1>4, <1>5, <1>6, <1>7 DEF JournalInv

LEMMA UploadKeepsInv == ASSUME JournalInv, Typed', Upload  PROVE JournalInv'
<1>1. /\ UNCHANGED Replay /\ "worker" \in Threads /\ TypeOK
      /\ usage \in Seq(Nat) /\ ToSet(usage) \subseteq samples
  BY DEF Upload, Replay, journal, remote, Threads, JournalInv, Typed, TypeOK, Queued
<1>2. CASE /\ states # << >> /\ Goto("worker", "waitState")
           /\ sending' = [sending EXCEPT !["worker"] = Head(states).id]
  BY <1>1, <1>2, SendingKeepsInv
<1>3. CASE /\ states = << >> /\ usage # << >> /\ Goto("worker", "waitUsage")
           /\ sending' = [sending EXCEPT !["worker"] = Head(usage)]
  <2>1. Head(usage) \in samples
    BY <1>1, <1>3, HeadTailProperties, LenProperties DEF ToSet
  <2>2. QED  BY <1>1, <1>3, <2>1, SendingKeepsInv
<1>4. CASE Goto("worker", "loop") /\ UNCHANGED sending
  BY <1>1, <1>4, GoingOnSendsNothing, QuietKeepsInv
<1>5. QED  BY <1>2, <1>3, <1>4 DEF Upload

\* A span that closes keeps its start, and ends at the time it is closed or at
\* its start; one that was closed stays.
LEMMA CloseKeepsSpans ==
  ASSUME spans \subseteq Span, NEW at \in Nat, NEW s \in spans
  PROVE  \E c \in Close(at) :
            /\ c.from = s.from /\ c.to \in Nat /\ (s.to # Open => c.to = s.to)
            /\ s.to = Open => c.to >= at /\ c.to >= c.from /\ (c.to = at \/ c.to = c.from)
<1> DEFINE c == IF s.to = Open THEN [s EXCEPT !.to = IF at < s.from THEN s.from ELSE at] ELSE s
<1>1. c \in Close(at)
  BY DEF Close
<1>2. s \in [from : Nat, to : Nat]
  BY DEF Span
<1>3. CASE s.to = Open
  <2>1. c = [s EXCEPT !.to = IF at < s.from THEN s.from ELSE at]
    BY <1>3
  <2>2. c.from = s.from /\ c.to = IF at < s.from THEN s.from ELSE at
    BY <1>2, <2>1
  <2>3. QED  BY <1>1, <1>2, <1>3, <2>2
<1>4. CASE s.to # Open
  BY <1>1, <1>2, <1>4
<1>5. QED  BY <1>3, <1>4

LEMMA ClosedSpans ==
  ASSUME spans \subseteq Span, NEW at \in Nat, NEW c \in Close(at), c.to = Open
  PROVE  c.from = 0
<1>1. PICK s \in spans :
         c = IF s.to = Open THEN [s EXCEPT !.to = IF at < s.from THEN s.from ELSE at] ELSE s
  BY DEF Close
<1>2. s \in [from : Nat, to : Nat]
  BY DEF Span
<1>3. s.to = Open
  BY <1>1
<1>4. c.from = s.from /\ c.to = IF at < s.from THEN s.from ELSE at
  BY <1>1, <1>2, <1>3
<1>5. QED  BY <1>2, <1>4 DEF Open

\* While events come in their order the newest is the last that was applied.
LEMMA NewestIsLast ==
  ASSUME TypeOK, NothingCameLate
  PROVE  /\ \A a \in ToSet(applied) : a <= Newest
         /\ applied # << >> => Newest \in ToSet(applied)
<1>1. /\ DOMAIN applied = 1 .. Len(applied) /\ Len(applied) \in Nat
      /\ \A i \in 1 .. Len(applied) : applied[i] \in Nat
  BY LenProperties DEF TypeOK
<1>2. CASE Len(applied) = 0
  <2>1. ToSet(applied) = {} /\ applied = << >>
    BY <1>1, <1>2, EmptySeq DEF ToSet, TypeOK
  <2>2. QED  BY <2>1
<1>3. CASE Len(applied) # 0
  <2> DEFINE last == applied[Len(applied)]
             tops == {n \in ToSet(applied) : \A m \in ToSet(applied) : m <= n}
  <2>1. ASSUME NEW i \in 1 .. Len(applied)  PROVE applied[i] <= last
    <3>1. CASE i = Len(applied)
      BY <1>1, <3>1
    <3>2. CASE i # Len(applied)
      <4>1. i \in DOMAIN applied /\ i < Len(applied) /\ applied[i] \in Nat
        <5>1. i \in DOMAIN applied
          BY <1>1
        <5>2. i < Len(applied)
          <6>1. PICK n \in Nat : n = Len(applied)
            BY <1>1
          <6>2. i \in 1 .. n /\ i # n
            BY <3>2, <6>1
          <6>3. i < n
            BY <6>2
          <6>4. QED  BY <6>1, <6>3
        <5>3. applied[i] \in Nat
          BY <1>1
        <5>4. QED  BY <5>1, <5>2, <5>3
      <4>2. Len(applied) \in 1 .. Len(applied)
        BY <1>1, <1>3
      <4>3. Len(applied) \in DOMAIN applied /\ last \in Nat
        BY <1>1, <4>2
      <4>4. applied[i] < last
        BY <4>1, <4>3 DEF NothingCameLate
      <4>5. QED  BY <4>1, <4>3, <4>4
    <3>3. QED  BY <3>1, <3>2
  <2>2. last \in tops
    BY <1>1, <1>3, <2>1 DEF ToSet
  <2>3. Newest \in tops
    BY <2>2 DEF Newest
  <2>4. QED  BY <2>3
<1>4. QED  BY <1>2, <1>3

LEMMA ReceiptsAreApplied == NewestReceipts \subseteq ToSet(applied)
BY DEF NewestReceipts, ToSet

\* What an event that comes in its order does to the events before it.
LEMMA AppliedNext ==
  ASSUME JournalInv, NEW e \in ToSet(log), e.id \notin ToSet(applied), log' = log,
         aside' = aside, applied' = Append(applied, e.id), NothingCameLate'
  PROVE  /\ NothingCameLate /\ \A a \in ToSet(applied) : a < e.id
         /\ ToSet(applied') = ToSet(applied) \cup {e.id}
         /\ \A k, f : Excused(f, k) => Excused(f, k)'
<1>1. /\ log \in Seq(Event) /\ applied \in Seq(Nat) /\ e \in Event /\ e.id \in Nat
      /\ \A f \in ToSet(log) : f.id \in Nat
  <2>1. log \in Seq(Event) /\ applied \in Seq(Nat)
    BY DEF JournalInv, Typed, TypeOK
  <2>2. QED  BY <2>1, EventsHaveIds
<1>2. ToSet(applied') = ToSet(applied) \cup {e.id}
  BY <1>1, ToSetAppend
<1>3. /\ DOMAIN applied' = 1 .. Len(applied) + 1 /\ DOMAIN applied = 1 .. Len(applied)
      /\ Len(applied) \in Nat /\ applied'[Len(applied) + 1] = e.id
      /\ \A i \in 1 .. Len(applied) : applied'[i] = applied[i] /\ applied[i] \in Nat
  BY <1>1, AppendProperties, LenProperties
<1>4. ASSUME NEW i \in DOMAIN applied  PROVE applied[i] < e.id
  <2>1. i < Len(applied) + 1 /\ i \in DOMAIN applied' /\ Len(applied) + 1 \in DOMAIN applied'
    BY <1>3
  <2>2. QED  BY <1>3, <2>1 DEF NothingCameLate
<1>5. \A a \in ToSet(applied) : a < e.id
  BY <1>4 DEF ToSet
<1>6. NothingCameLate
  BY <1>3 DEF NothingCameLate
<1>7. ASSUME NEW k  PROVE /\ AppliedAfter(k) \subseteq AppliedAfter(k)'
                          /\ \A f \in AppliedAfter(k), x \in AppliedAfter(k)' \ AppliedAfter(k) :
                               f.id <= x.id
  <2>1. AppliedAfter(k) \subseteq AppliedAfter(k)'
    BY <1>2 DEF AppliedAfter
  <2>2. ASSUME NEW f \in AppliedAfter(k), NEW x \in AppliedAfter(k)' \ AppliedAfter(k)
        PROVE  f.id <= x.id
    <3>1. x.id = e.id /\ f.id < e.id /\ f.id \in Nat
      BY <1>1, <1>2, <1>5, <2>2 DEF AppliedAfter
    <3>2. QED  BY <1>1, <3>1
  <2>3. QED  BY <2>1, <2>2
<1>8. \A k, f : Excused(f, k) => Excused(f, k)'
  BY <1>1, <1>7, ExcuseStays
<1>9. QED  BY <1>2, <1>5, <1>6, <1>8

LEMMA ApplyKeepsSegments ==
  ASSUME JournalInv, NEW e \in ToSet(log), Apply(e), log' = log, aside' = aside,
         applied' \in Seq(Nat)
  PROVE  Segments'
<1>1. CASE e.id \in ToSet(applied)
  BY <1>1, JudgedBy DEF JournalInv, Apply, remote
<1>2. CASE e.id \notin ToSet(applied)
  <2> SUFFICES ASSUME NothingCameLate'  PROVE Segments'
    BY DEF Segments
  <2>1. /\ TypeOK /\ log \in Seq(Event) /\ spans \subseteq Span /\ Ordered(log) /\ e \in Event
        /\ e.id \in Nat \ {0} /\ \A f \in ToSet(log) : f \in Event /\ f.id \in Nat
        /\ e.idle \in Nat
    <3>1. TypeOK /\ log \in Seq(Event) /\ spans \subseteq Span /\ Ordered(log)
      BY DEF JournalInv, Typed, TypeOK, Numbered
    <3>2. QED  BY <3>1, EventsHaveIds
  <2>2. /\ applied' = Append(applied, e.id)
        /\ server' = [status |-> e.status, project |-> e.project]
        /\ \/ /\ MayLapse(e)
              /\ \E at \in Newest .. e.id - 1 : spans' = Close(at) \cup Opened(e)
           \/ GoesOn(e) /\ UNCHANGED spans
           \/ Deducts(e) /\ \E at \in e.idle - 1 .. CountsFrom(e) : spans' = Close(at)
           \/ ~GoesOn(e) /\ ~Deducts(e) /\ spans' = Close(CountsFrom(e)) \cup Opened(e)
    BY <1>2 DEF Apply
  <2>3. /\ NothingCameLate /\ \A a \in ToSet(applied) : a < e.id
        /\ ToSet(applied') = ToSet(applied) \cup {e.id}
        /\ \A k, f : Excused(f, k) => Excused(f, k)'
    BY <1>2, <2>2, AppliedNext
  <2>4. /\ \A a \in ToSet(applied) : a <= Newest /\ a \in Nat \ {0}
        /\ applied # << >> => Newest \in ToSet(applied)
        /\ Newest \in Nat
    <3>1. ToSet(applied) \subseteq Ids(log)
      BY DEF JournalInv, Replayed
    <3>2. ToSet(applied) \subseteq Nat \ {0}
      BY <2>1, <3>1 DEF Ids, Event
    <3>3. QED  BY <2>1, <2>3, <3>2, NewestIsLast, CountsFromANumber
  <2>5. CountsFrom(e) = e.id
    <3>1. ~(e.id < Newest)
      <4>1. CASE applied = << >>
        <5>1. ToSet(applied) = {}
          BY <4>1 DEF ToSet
        <5>2. Newest = 0
          BY <5>1 DEF Newest, NoEvent
        <5>3. QED  BY <2>1, <5>2
      <4>2. CASE applied # << >>
        BY <2>1, <2>3, <2>4, <4>2
      <4>3. QED  BY <4>1, <4>2
    <3>2. QED  BY <3>1 DEF CountsFrom
  <2>6. /\ server.status = "active" => \E s \in spans : s.to = Open
        /\ \A s \in spans : s.to = Open => WhileOpen(s)
        /\ \A f \in ToSet(log) : f.status = "active" /\ f.id \in ToSet(applied) =>
             \E s \in spans : Holds(s, f)
    BY <2>3 DEF JournalInv, Segments
  <2>7. ASSUME NEW f \in ToSet(log), f.id = e.id  PROVE f = e
    BY <2>1, <2>7, OrderedIdsAreUnique
  \* Closing the open span at one of these times leaves every event in its span.
  <2>8. ASSUME NEW at \in Nat, spans' = Close(at) \/ spans' = Close(at) \cup Opened(e),
               \/ at = e.id
               \/ MayLapse(e) /\ at >= Newest
               \/ Deducts(e) /\ at >= e.idle - 1,
               NEW f \in ToSet(log), f.status = "active", f.id \in ToSet(applied)
        PROVE  \E c \in spans' : Holds(c, f)'
    <3>1. PICK s \in spans : Holds(s, f)
      BY <2>6, <2>8
    <3>2. PICK c \in Close(at) :
             /\ c.from = s.from /\ c.to \in Nat /\ (s.to # Open => c.to = s.to)
             /\ s.to = Open => c.to >= at /\ c.to >= c.from /\ (c.to = at \/ c.to = c.from)
      BY <2>1, CloseKeepsSpans
    <3>3. c \in spans' /\ c.from <= f.id
      BY <2>8, <3>1, <3>2 DEF Holds
    <3>4. SUFFICES ASSUME NEW k \in Nat \ Ids(log), Precedes(f, k), c.to < k
                   PROVE  Excused(f, k)'
      BY <3>3 DEF Holds, Precedes
    <3>5. CASE s.to # Open
      BY <2>3, <3>1, <3>2, <3>4, <3>5 DEF Holds
    <3>6. CASE s.to = Open
      <4>1. /\ f.id < e.id /\ e.id \in Ids(log) /\ k < e.id /\ s.from \in Nat
            /\ at < k /\ s.from < k /\ f.id < k
        <5>1. f.id < e.id /\ e.id \in Ids(log) /\ f.id < k
          BY <2>3, <2>8, <3>4 DEF Ids, Precedes
        <5>2. ~(e.id < k) /\ e.id # k
          BY <2>1, <3>4, <5>1 DEF Precedes
        <5>3. s.from \in Nat
          BY <2>1 DEF Span
        <5>4. QED  BY <2>1, <3>2, <3>4, <3>6, <5>1, <5>2, <5>3
      <4>2. e \in AppliedAfter(k)' /\ \A x \in AppliedAfter(k)' : x = e \/ x.id \in ToSet(applied)
        BY <2>3, <2>7, <4>1 DEF AppliedAfter
      <4>3. /\ \A x \in ToSet(log) : x.id \in ToSet(applied) /\ x.id >= s.from =>
                 x.status = "active" /\ x.project = server.project
            /\ f.project = server.project
        BY <2>6, <2>8, <3>1, <3>6 DEF WhileOpen, Holds
      <4>4. CASE at = e.id
        BY <2>1, <4>1, <4>4
      <4>5. CASE MayLapse(e) /\ at >= Newest
        <5>1. f.id = Newest
          <6>1. Newest \in ToSet(applied) /\ f.id <= Newest
            <7>1. applied # << >>
              BY <2>8 DEF ToSet
            <7>2. QED  BY <2>4, <2>8, <7>1
          <6>2. PICK n \in ToSet(log) : n.id = Newest
            BY <6>1 DEF JournalInv, Replayed, Ids
          <6>3. n.id < k
            BY <2>4, <4>1, <4>5, <6>2
          <6>4. n.id <= f.id
            BY <3>4, <6>2, <6>3 DEF Precedes
          <6>5. QED  BY <2>1, <2>4, <6>1, <6>2, <6>4
        <5>2. \A x \in AppliedAfter(k)' : x = e
          <6>1. ASSUME NEW x \in AppliedAfter(k)', x.id \in ToSet(applied)  PROVE FALSE
            <7>1. x.id <= Newest /\ x.id > k /\ x.id \in Nat
              BY <2>4, <6>1 DEF AppliedAfter
            <7>2. QED  BY <2>4, <4>1, <4>5, <7>1
          <6>2. QED  BY <4>2, <6>1
        <5>3. Slept(f.id, e)' \/ Skipped(f.id, e)'
          BY <4>5, <5>1 DEF MayLapse, Slept, Skipped
        <5>4. e.id <= e.id
          BY <2>1
        <5>5. QED  BY <4>2, <5>2, <5>3, <5>4 DEF Excused, LapseBehind
      <4>6. CASE Deducts(e) /\ at >= e.idle - 1
        <5>1. e.idle \in 1 .. k
          BY <2>1, <4>1, <4>6 DEF Deducts
        <5>2. e.project = f.project
          BY <4>3, <4>6 DEF Deducts
        <5>3. ASSUME NEW x \in AppliedAfter(k)', x.id < e.id
              PROVE  x.status = "active" /\ x.project = f.project
          <6>1. x.id \in ToSet(applied) /\ x.id \in Nat /\ x.id > k /\ x \in ToSet(log)
            BY <2>1, <4>2, <5>3 DEF AppliedAfter
          <6>2. QED  BY <4>1, <4>3, <6>1
        <5>4. QED  BY <4>2, <5>1, <5>2, <5>3 DEF Excused, IdleBehind
      <4>7. QED  BY <2>8, <4>4, <4>5, <4>6
    <3>7. QED  BY <3>5, <3>6
  \* No span that was open is open afterwards.
  <2>9. ASSUME NEW at \in Nat, NEW c \in Close(at)  PROVE c.to # Open
    <3>1. SUFFICES ASSUME c.to = Open  PROVE FALSE
      OBVIOUS
    <3>2. PICK s \in spans :
            c = IF s.to = Open THEN [s EXCEPT !.to = IF at < s.from THEN s.from ELSE at] ELSE s
      BY <2>9 DEF Close
    <3>3. s \in [from : Nat, to : Nat] /\ s.to = Open
      BY <2>1, <3>1, <3>2 DEF Span
    <3>4. c.from = s.from
      BY <3>2, <3>3
    <3>5. s.from # 0
      BY <2>4, <2>6, <3>3 DEF WhileOpen
    <3>6. QED  BY <2>1, <2>9, <3>1, <3>4, <3>5, ClosedSpans
  <2>10. ASSUME NEW at \in Nat, spans' = Close(at) \cup Opened(e),
                \/ at = e.id
                \/ MayLapse(e) /\ at >= Newest
         PROVE  Segments'
    <3>1. CASE e.status # "active"
      <4>1. spans' = Close(at)
        BY <2>10, <3>1 DEF Opened
      <4>2. \A f \in ToSet(log) : f.status = "active" /\ f.id \in ToSet(applied') =>
              \E c \in spans' : Holds(c, f)'
        BY <2>3, <2>7, <2>8, <2>10, <3>1
      <4>3. QED  BY <2>2, <2>9, <3>1, <4>1, <4>2 DEF Segments
    <3>2. CASE e.status = "active"
      <4> DEFINE n == [from |-> e.id, to |-> Open]
      <4>1. spans' = Close(at) \cup {n}
        BY <2>5, <2>10, <3>2 DEF Opened
      <4>2. n \in spans' /\ n.from = e.id /\ n.to = Open
        BY <4>1
      <4> HIDE DEF n
      <4>3. Holds(n, e)'
        BY <2>1, <4>2 DEF Holds
      <4>4. \A f \in ToSet(log) : f.status = "active" /\ f.id \in ToSet(applied') =>
              \E c \in spans' : Holds(c, f)'
        BY <2>3, <2>7, <2>8, <2>10, <4>2, <4>3
      <4>5. WhileOpen(n)'
        <5>1. ASSUME NEW x \in ToSet(log), x.id \in ToSet(applied'), x.id >= e.id  PROVE x = e
          BY <2>1, <2>3, <2>7, <5>1
        <5>2. QED  BY <2>2, <2>3, <3>2, <4>2, <5>1 DEF WhileOpen
      <4>6. QED  BY <2>9, <4>1, <4>2, <4>4, <4>5 DEF Segments
    <3>3. QED  BY <3>1, <3>2
  <2>11. CASE MayLapse(e) /\ \E at \in Newest .. e.id - 1 : spans' = Close(at) \cup Opened(e)
    BY <2>1, <2>4, <2>10, <2>11
  <2>12. CASE ~GoesOn(e) /\ ~Deducts(e) /\ spans' = Close(CountsFrom(e)) \cup Opened(e)
    BY <2>1, <2>5, <2>10, <2>12
  <2>13. CASE Deducts(e) /\ \E at \in e.idle - 1 .. CountsFrom(e) : spans' = Close(at)
    <3>1. PICK at \in e.idle - 1 .. e.id : spans' = Close(at)
      BY <2>5, <2>13
    <3>2. e.idle # 0 /\ e.status = "paused"
      BY <2>13 DEF Deducts
    <3>3. at \in Nat /\ at >= e.idle - 1
      BY <2>1, <3>1, <3>2
    <3>4. \A f \in ToSet(log) : f.status = "active" /\ f.id \in ToSet(applied') =>
            \E c \in spans' : Holds(c, f)'
      BY <2>3, <2>7, <2>8, <2>13, <3>1, <3>2, <3>3
    <3>5. QED  BY <2>2, <2>9, <3>1, <3>2, <3>3, <3>4 DEF Segments
  <2>14. CASE GoesOn(e) /\ UNCHANGED spans
    <3>1. /\ server = [status |-> "active", project |-> e.project] /\ e.status = "active"
          /\ server' = server
      BY <2>2, <2>14 DEF GoesOn
    <3>2. PICK s \in spans : s.to = Open
      BY <2>6, <3>1
    <3>3. \A t \in spans : t.to = Open => WhileOpen(t)'
      BY <2>3, <2>6, <2>7, <3>1 DEF WhileOpen
    <3>4. s.from <= e.id
      BY <2>1, <2>3, <2>4, <2>6, <3>2 DEF WhileOpen
    <3>5. Holds(s, e)'
      BY <3>2, <3>4 DEF Holds
    <3>6. ASSUME NEW f \in ToSet(log), NEW t \in spans, Holds(t, f)  PROVE Holds(t, f)'
      BY <2>3, <3>6 DEF Holds, Precedes
    <3>7. QED  BY <2>3, <2>6, <2>7, <2>14, <3>1, <3>2, <3>3, <3>5, <3>6 DEF Segments
  <2>15. QED  BY <2>2, <2>11, <2>12, <2>13, <2>14
<1>3. QED  BY <1>1, <1>2

LEMMA ApplyKeepsOrder ==
  ASSUME JournalInv, NEW t \in Threads, Waiting(t), NEW e \in ToSet(log), e.id = sending[t],
         Apply(e), UNCHANGED aside
  PROVE  ToSet(applied') = ToSet(applied) \cup {e.id} /\ AppliedInOrder'
<1>1. CASE e.id \in ToSet(applied)
  BY <1>1 DEF Apply, remote, JournalInv, Replayed, JournalIsReplayed, AppliedInOrder
<1>2. CASE e.id \notin ToSet(applied)
  <2>1. applied \in Seq(Nat) /\ applied' = Append(applied, e.id) /\ e.id \in Nat
    BY <1>2 DEF Apply, JournalInv, Typed, TypeOK
  <2>2. /\ DOMAIN applied' = 1 .. Len(applied) + 1 /\ DOMAIN applied = 1 .. Len(applied)
        /\ Len(applied) \in Nat /\ applied'[Len(applied) + 1] = e.id
        /\ \A i \in 1 .. Len(applied) : applied'[i] = applied[i] /\ applied[i] \in Nat
    BY <2>1, AppendProperties, LenProperties
  <2>3. ToSet(applied') = ToSet(applied) \cup {e.id}
    BY <2>1, ToSetAppend
  <2>4. e.id \in aside \/ (states # << >> /\ e.id = Head(states).id)
    BY <1>2 DEF JournalInv, Sent
  <2>5. ASSUME NEW i \in 1 .. Len(applied)
        PROVE  applied[i] # e.id /\ (applied[i] < e.id \/ e.id \in aside)
    <3>1. applied[i] \in ToSet(applied)
      BY <2>2 DEF ToSet
    <3>2. applied[i] # e.id
      BY <1>2, <3>1
    <3>3. CASE states # << >> /\ e.id = Head(states).id
      <4>1. Head(states) \in ToSet(states)
        BY <3>3, HeadIsFirst DEF JournalInv, Typed, TypeOK
      <4>2. applied[i] <= e.id
        BY <3>1, <3>3, <4>1 DEF JournalInv, Replayed
      <4>3. QED  BY <2>1, <2>2, <3>2, <4>2
    <3>4. QED  BY <2>4, <3>2, <3>3
  <2>6. AppliedInOrder'
    <3>1. ASSUME NEW i \in 1 .. Len(applied) + 1, NEW j \in 1 .. Len(applied) + 1, i < j
          PROVE  /\ applied'[i] # applied'[j]
                 /\ applied'[i] < applied'[j] \/ applied'[j] \in aside
      <4>1. i \in 1 .. Len(applied) /\ (j \in 1 .. Len(applied) \/ j = Len(applied) + 1)
        BY <2>2, <3>1
      <4>2. CASE j \in 1 .. Len(applied)
        BY <2>2, <3>1, <4>1, <4>2 DEF JournalInv, Replayed, JournalIsReplayed, AppliedInOrder
      <4>3. CASE j = Len(applied) + 1
        BY <2>2, <2>5, <4>1, <4>3
      <4>4. QED  BY <4>1, <4>2, <4>3
    <3>2. QED  BY <2>2, <3>1 DEF AppliedInOrder
  <2>7. QED  BY <2>3, <2>6
<1>3. QED  BY <1>1, <1>2

\* Once the server applied an event, it may leave the queue or stay.
LEMMA ApplyKeepsInv ==
  ASSUME JournalInv, Typed', NEW t \in Threads, Waiting(t), Done(t),
         Apply(EventOf(sending[t])), UNCHANGED <<log, aside, samples, usage>>,
         states' = states \/ states' = Without(states, sending[t])
  PROVE  JournalInv'
<1>1. /\ TypeOK /\ states \in Seq(Event) /\ states' \in Seq(Event) /\ applied' \in Seq(Nat)
      /\ applied \in Seq(Nat) /\ log \in Seq(Event)
      /\ sending[t] \in Ids(log) /\ Ordered(states)
  BY DEF JournalInv, Typed, TypeOK, Known, Queued
<1>2. PICK e \in ToSet(log) : e.id = sending[t] /\ Apply(e)
  BY <1>1, EventOfKnown
<1>3. PICK x \in Nat : x = sending[t]
  BY <1>1 DEF TypeOK
<1>4. PICK rest \in Seq(Event) :
        /\ rest = Without(states, x) /\ Ordered(rest) /\ ToSet(rest) \subseteq ToSet(states)
        /\ \A f \in ToSet(rest) : x < f.id
        /\ \A f \in ToSet(states) : f.id = x \/ f \in ToSet(rest)
        /\ states # << >> /\ Head(states).id # x => rest = states
  BY <1>3, RestOfTheQueue
<1>5. /\ Ordered(states') /\ ToSet(states') \subseteq ToSet(states)
      /\ \A f \in ToSet(states) : f.id = x \/ f \in ToSet(states')
      /\ states # << >> /\ Head(states).id # x => states' = states
  BY <1>1, <1>3, <1>4
<1>6. \A f \in ToSet(states) : f.id \in Nat /\ x <= f.id
  <2>1. \A f \in ToSet(states) : f.id \in Nat
    BY <1>1, EventsHaveIds
  <2>2. QED  BY <1>4, <2>1
<1>7. ToSet(applied') = ToSet(applied) \cup {x} /\ AppliedInOrder'
  BY <1>2, <1>3, ApplyKeepsOrder
<1>8. SendsNothingNew
  BY <1>1, DoneSendsNothing
<1>9. \A u \in Threads : Waiting(u)' => u # t
  BY <1>1 DEF Done, Goto, Waiting, TypeOK
<1>10. Known'
  BY <1>5, <1>8 DEF JournalInv, Known, SendsNothingNew, Ids
<1>11. Numbered' /\ Queued'
  BY <1>5 DEF JournalInv, Numbered, Queued, NextId, Ids, Ordered
<1>12. Sent'
  <2>1. ASSUME NEW u \in Threads, Waiting(u)'
        PROVE  \/ sending'[u] \in ToSet(applied') \cup aside
               \/ states' # << >> /\ sending'[u] = Head(states').id
    <3>1. Waiting(u) /\ sending'[u] = sending[u]
      BY <1>8, <2>1 DEF SendsNothingNew
    <3>2. QED  BY <1>5, <1>7, <3>1 DEF JournalInv, Sent
  <2>2. pc'["worker"] = "waitUsage" =>
          /\ sending'["worker"] \in samples
          /\ \A f \in ToSet(states') : sending'["worker"] < f.id
    BY <1>5, <1>8 DEF JournalInv, Sent, SendsNothingNew
  <2>3. QED  BY <2>1, <2>2 DEF Sent
<1>13. Replayed'
  <2>1. ToSet(applied') \subseteq Ids(log) /\ Ids(states) \subseteq Ids(states') \cup {x}
    BY <1>1, <1>3, <1>5, <1>7 DEF JournalInv, Replayed, Ids
  <2>2. NoEventLost'
    BY <1>7, <2>1 DEF JournalInv, Replayed, JournalIsReplayed, NoEventLost, Ids
  <2>3. \A f \in ToSet(states'), y \in ToSet(applied') \cup (aside \cap Ids(log)) : y <= f.id
    BY <1>5, <1>6, <1>7 DEF JournalInv, Replayed
  <2>4. QED
    BY <1>7, <2>1, <2>2, <2>3 DEF JournalInv, Replayed, JournalIsReplayed, Ids
<1>14. Segments'
  BY <1>1, <1>2, ApplyKeepsSegments
<1>15. SampleFindsItsSession'
  <2>1. NothingCameLate' => NothingCameLate
    <3>1. \/ applied' = applied
          \/ applied' = Append(applied, x)
      BY <1>2, <1>3 DEF Apply, remote
    <3>2. /\ DOMAIN applied \subseteq DOMAIN applied'
          /\ \A i \in DOMAIN applied : applied'[i] = applied[i]
      <4>1. CASE applied' = applied
        BY <4>1
      <4>2. CASE applied' = Append(applied, x)
        <5>1. /\ DOMAIN Append(applied, x) = 1 .. Len(applied) + 1
              /\ DOMAIN applied = 1 .. Len(applied) /\ Len(applied) \in Nat
              /\ \A i \in 1 .. Len(applied) : Append(applied, x)[i] = applied[i]
          BY <1>1, <1>3, AppendProperties, LenProperties
        <5>2. QED  BY <4>2, <5>1
      <4>3. QED  BY <3>1, <4>1, <4>2
    <3>3. QED  BY <3>2 DEF NothingCameLate
  <2>2. ASSUME NothingCameLate', NEW k, NEW f, Excused(f, k)  PROVE Excused(f, k)'
    <3>1. CASE applied' = applied
      BY <2>2, <3>1, ExcuseUnmoved
    <3>2. CASE applied' # applied
      <4>1. e.id \notin ToSet(applied) /\ applied' = Append(applied, e.id)
        BY <1>2, <3>2 DEF Apply, remote
      <4>2. QED  BY <2>2, <4>1, AppliedNext
    <3>3. QED  BY <3>1, <3>2
  <2>3. QED  BY <2>1, <2>2 DEF JournalInv, SampleFindsItsSession, Precedes, Excused
<1>16. QED
  BY <1>10, <1>11, <1>12, <1>13, <1>14, <1>15 DEF JournalInv

\* A refused event leaves the queue and is set aside.
LEMMA RefusalKeepsInv ==
  ASSUME JournalInv, Typed', NEW t \in Threads, StateRefused(t)  PROVE JournalInv'
<1>1. /\ TypeOK /\ states \in Seq(Event) /\ log \in Seq(Event) /\ Waiting(t) /\ Done(t)
      /\ sending[t] \in Ids(log)
  BY DEF JournalInv, Typed, TypeOK, Known, StateRefused
<1>2. PICK x \in Nat : x = sending[t]
  BY <1>1 DEF TypeOK
<1>3. /\ aside' = aside \cup {x} /\ states' = Without(states, x)
      /\ UNCHANGED <<usage, log, samples, applied, server, spans>>
  BY <1>1, <1>2, EventOfKnown DEF StateRefused, remote
<1>4. PICK rest \in Seq(Event) :
        /\ rest = Without(states, x) /\ Ordered(rest) /\ ToSet(rest) \subseteq ToSet(states)
        /\ \A f \in ToSet(rest) : x < f.id
        /\ \A f \in ToSet(states) : f.id = x \/ f \in ToSet(rest)
        /\ states # << >> /\ Head(states).id # x => rest = states
  BY <1>1, <1>2, RestOfTheQueue
<1>5. states' = rest /\ \A f \in ToSet(states') : f.id \in Nat
  BY <1>1, <1>3, <1>4, InSeq DEF Event
<1>6. SendsNothingNew
  BY <1>1, DoneSendsNothing
<1>7. Known'
  BY <1>3, <1>4, <1>5, <1>6 DEF JournalInv, Known, SendsNothingNew, Ids
<1>8. Numbered' /\ Queued'
  BY <1>3, <1>4, <1>5 DEF JournalInv, Numbered, Queued, NextId, Ids, Ordered
<1>9. Sent'
  <2>1. ASSUME NEW u \in Threads, Waiting(u)'
        PROVE  \/ sending'[u] \in ToSet(applied') \cup aside'
               \/ states' # << >> /\ sending'[u] = Head(states').id
    <3>1. Waiting(u) /\ sending'[u] = sending[u]
      BY <1>6, <2>1 DEF SendsNothingNew
    <3>2. QED  BY <1>3, <1>4, <1>5, <3>1 DEF JournalInv, Sent
  <2>2. pc'["worker"] = "waitUsage" =>
          /\ sending'["worker"] \in samples'
          /\ \A f \in ToSet(states') : sending'["worker"] < f.id
    BY <1>3, <1>4, <1>5, <1>6 DEF JournalInv, Sent, SendsNothingNew
  <2>3. QED  BY <2>1, <2>2 DEF Sent
<1>10. Replayed'
  <2>1. Ids(states) \subseteq Ids(states') \cup {x} /\ x \in Ids(log)
    BY <1>1, <1>2, <1>4, <1>5 DEF Ids
  <2>2. NoEventLost'
    BY <1>3, <2>1 DEF JournalInv, Replayed, JournalIsReplayed, NoEventLost, Ids
  <2>3. \A f \in ToSet(states'), y \in ToSet(applied') \cup (aside' \cap Ids(log)) : y <= f.id
    BY <1>2, <1>3, <1>4, <1>5 DEF JournalInv, Replayed
  <2>4. AppliedInOrder'
    BY <1>3 DEF JournalInv, Replayed, JournalIsReplayed, AppliedInOrder
  <2>5. QED
    BY <1>3, <2>1, <2>2, <2>3, <2>4 DEF JournalInv, Replayed, JournalIsReplayed, Ids
<1>11. Segments'
  BY <1>3, SegmentsStay DEF JournalInv
<1>12. SampleFindsItsSession'
  <2>1. x \notin samples
    BY <1>1, <1>2 DEF JournalInv, Numbered
  <2>2. \A f, k : Excused(f, k) => Excused(f, k)'
    BY <1>3, ExcuseUnmoved
  <2>3. QED
    BY <1>3, <2>1, <2>2
       DEF JournalInv, SampleFindsItsSession, NothingCameLate, Precedes, Excused
<1>13. QED
  BY <1>7, <1>8, <1>9, <1>10, <1>11, <1>12 DEF JournalInv

\* A sample that is answered is older than every queued state, so the state it
\* was taken in has been applied or refused.
LEMMA SampleIsCovered ==
  ASSUME JournalInv, NothingCameLate, pc["worker"] = "waitUsage", ~Covered(sending["worker"]),
         NEW e \in ToSet(log), Precedes(e, sending["worker"]), e.status = "active"
  PROVE  e.id \in aside \/ Excused(e, sending["worker"])
<1>1. /\ log \in Seq(Event) /\ states \in Seq(Event) /\ spans \subseteq Span
      /\ sending["worker"] \in Nat
  BY DEF JournalInv, Typed, TypeOK, Threads
<1>2. PICK k \in Nat : k = sending["worker"]
  BY <1>1
<1>3. e \in Event
  BY <1>1, InSeq
<1>4. e.id \in Nat /\ e.id < k /\ \A f \in ToSet(log) : f.id < k => f.id <= e.id
  BY <1>2, <1>3 DEF Precedes, Event
<1>5. k \in samples /\ \A f \in ToSet(states) : k < f.id
  BY <1>2 DEF JournalInv, Sent
<1>6. e.id \notin Ids(states)
  BY <1>1, <1>2, <1>4, <1>5 DEF Ids
<1>7. SUFFICES ASSUME e.id \in ToSet(applied)  PROVE Excused(e, k)
  BY <1>2, <1>6 DEF JournalInv, Replayed, JournalIsReplayed, NoEventLost, Ids
<1>8. PICK s \in spans : Holds(s, e)
  BY <1>7 DEF JournalInv, Segments
<1>9. s.from \in Nat /\ s.to \in Nat /\ s.from <= e.id
  BY <1>1, <1>8 DEF Span, Holds
<1>10. s.to # Open /\ s.to < k
  BY <1>2, <1>4, <1>9 DEF Covered
<1>11. k \notin Ids(log)
  BY <1>5 DEF JournalInv, Numbered
<1>12. QED  BY <1>2, <1>8, <1>10, <1>11 DEF Holds

LEMMA UsageKeepsInv == ASSUME JournalInv, Typed', UsageAnswered  PROVE JournalInv'
<1>1. /\ TypeOK /\ usage \in Seq(Nat) /\ pc["worker"] = "waitUsage" /\ Done("worker")
      /\ UNCHANGED <<states, log, samples, applied, server, spans>>
      /\ usage' = UsageWithout(sending["worker"])
  BY DEF UsageAnswered, remote, JournalInv, Typed, TypeOK
<1>2. PICK k \in samples : k = sending["worker"]
  BY <1>1 DEF JournalInv, Sent
<1>3. \/ UNCHANGED aside
      \/ aside' = aside \cup {k} /\ ~Covered(k)
  BY <1>2 DEF UsageAnswered
<1>4. ToSet(usage') \subseteq ToSet(usage)
  BY <1>1, RemoveInSeq DEF UsageWithout
<1>5. SendsNothingNew
  BY <1>1, DoneSendsNothing DEF Threads
<1>6. k \notin Ids(log)
  BY DEF JournalInv, Numbered
<1>7. Known'
  BY <1>1, <1>5 DEF JournalInv, Known, SendsNothingNew, Ids
<1>8. Numbered' /\ Queued'
  BY <1>1, <1>4 DEF JournalInv, Numbered, Queued, NextId, Ids, Ordered
<1>9. Sent'
  BY <1>1, <1>3, <1>5 DEF JournalInv, Sent, SendsNothingNew
<1>10. Replayed'
  <2>1. aside' \cap Ids(log) = aside \cap Ids(log) /\ aside \subseteq aside'
    BY <1>3, <1>6
  <2>2. aside' \subseteq Ids(log) \cup samples
    BY <1>3 DEF JournalInv, Replayed
  <2>3. NoEventLost' /\ AppliedInOrder'
    BY <1>1, <2>1 DEF JournalInv, Replayed, JournalIsReplayed, NoEventLost, AppliedInOrder, Ids
  <2>4. QED
    BY <1>1, <2>1, <2>2, <2>3 DEF JournalInv, Replayed, JournalIsReplayed, Ids
<1>11. aside \subseteq aside'
  BY <1>3
<1>14. Segments'
  BY <1>1, <1>11, SegmentsStay DEF JournalInv
<1>12. SampleFindsItsSession'
  <2>1. ASSUME NothingCameLate, NEW e \in ToSet(log), ~Covered(k), Precedes(e, k)
        PROVE  e.status # "active" \/ e.id \in aside \/ Excused(e, k)
    BY <1>1, <1>2, <2>1, SampleIsCovered
  <2>2. \A f, j : Excused(f, j) => Excused(f, j)'
    BY <1>1, <1>11, ExcuseUnmoved
  <2>3. QED
    BY <1>1, <1>3, <1>11, <2>1, <2>2
       DEF JournalInv, SampleFindsItsSession, NothingCameLate, Precedes, Excused
<1>13. QED
  BY <1>7, <1>8, <1>9, <1>10, <1>12, <1>14 DEF JournalInv

LEMMA StepKeepsTyped == ASSUME Typed, Known, [Next]_vars  PROVE Typed'
BY EmployeeKeepsTyped, WorkerKeepsTyped, HeartbeatKeepsTyped, OthersKeepTyped DEF Next

LEMMA StepKeepsJournal == ASSUME JournalInv, [Next]_vars  PROVE JournalInv'
<1> USE DEF memory, threads, journal, remote, bounds, Replay
<1>1. Typed' /\ TypeOK /\ "worker" \in Threads /\ "main" \in Threads
  BY StepKeepsTyped DEF JournalInv, Typed, Threads
<1>2. CASE Employee
  <2>1. UNCHANGED Replay /\ UNCHANGED <<pc, sending>>
    BY <1>2 DEF Employee, StartTracking, PauseTracking, ResumeTracking, StopTracking, SelectWork,
               Press
  <2>2. SendsNothingNew
    BY <2>1 DEF SendsNothingNew, Waiting
  <2>3. QED  BY <1>1, <2>1, <2>2, QuietKeepsInv
<1>3. CASE RaiseFlag \/ UNCHANGED vars
  <2>1. UNCHANGED Replay /\ UNCHANGED <<pc, sending>>
    BY <1>3 DEF RaiseFlag, vars
  <2>2. SendsNothingNew
    BY <2>1 DEF SendsNothingNew, Waiting
  <2>3. QED  BY <1>1, <2>1, <2>2, QuietKeepsInv
<1>4. CASE Worker
  <2>1. CASE \/ Loop \/ StaysAsItWas \/ BecomesIdle \/ ComesBack \/ ObserveFails \/ NotObserved
             \/ ReadFlag \/ ClearFlag \/ ReadState
    <3>1. UNCHANGED Replay /\ UNCHANGED sending
      BY <2>1 DEF Loop, StaysAsItWas, BecomesIdle, ComesBack, ObserveFails, NotObserved, ReadFlag,
                 ClearFlag, ReadState
    <3>2. \E step \in {"down", "idle", "observe", "flag", "clear", "upload", "read", "journal"} :
             Goto("worker", step)
      BY <2>1 DEF Loop, StaysAsItWas, BecomesIdle, ComesBack, ObserveFails, NotObserved, ReadFlag,
                 ClearFlag, ReadState
    <3>3. SendsNothingNew
      BY <1>1, <3>1, <3>2, GoingOnSendsNothing
    <3>4. QED  BY <1>1, <3>1, <3>3, QuietKeepsInv
  <2>2. QED
    BY <1>1, <1>4, <2>1, ObserveKeepsInv, UploadKeepsInv, UsageKeepsInv DEF Worker
<1>5. ASSUME NEW t \in Threads, Heartbeat(t)  PROVE JournalInv'
  <2>1. CASE AddState(t)
    BY <1>1, <2>1, AddStateKeepsInv
  <2>2. CASE AddStateFails(t) \/ NothingToSend(t)
    <3>1. UNCHANGED Replay /\ UNCHANGED sending
      BY <2>2 DEF AddStateFails, NothingToSend
    <3>2. \E step \in {"down", "upload"} : Goto(t, step)
      BY <2>2 DEF AddStateFails, NothingToSend
    <3>3. SendsNothingNew
      BY <1>1, <3>1, <3>2, GoingOnSendsNothing
    <3>4. QED  BY <1>1, <3>1, <3>3, QuietKeepsInv
  <2>3. CASE SendState(t)
    BY <1>1, <2>3, SendingKeepsInv DEF SendState
  <2>4. CASE StateAccepted(t) \/ StateAnswerLost(t)
    BY <1>1, <2>4, ApplyKeepsInv DEF StateAccepted, StateAnswerLost
  <2>5. CASE Offline(t) \/ TokenRefused(t)
    BY <1>1, <2>5, DoneSendsNothing, QuietKeepsInv DEF Offline, TokenRefused
  <2>6. CASE StateRefused(t)
    BY <1>1, <2>6, RefusalKeepsInv
  <2>7. QED
    BY <1>5, <2>1, <2>2, <2>3, <2>4, <2>5, <2>6 DEF Heartbeat, Answer
<1>6. CASE Main \/ Launch \/ Quit \/ Crash
  <2>1. UNCHANGED Replay
    BY <1>6 DEF Main, Started, Joined, Exit, Launch, Quit, Crash
  <2>2. CASE Exit \/ Launch \/ Crash
    <3>1. \A t \in Threads : pc'[t] \notin {"wait", "waitState", "waitUsage"}
      BY <1>1, <2>2 DEF Exit, Launch, Crash, Goto, TypeOK, Threads
    <3>2. QED  BY <1>1, <2>1, <3>1, FreshSendsNothing, QuietKeepsInv
  <2>3. CASE Started \/ Joined \/ Quit
    <3>1. UNCHANGED sending /\ \E step \in {"run", "journal", "join"} : Goto("main", step)
      BY <2>3 DEF Started, Joined, Quit
    <3>2. SendsNothingNew
      BY <1>1, <3>1, GoingOnSendsNothing
    <3>3. QED  BY <1>1, <2>1, <3>2, QuietKeepsInv
  <2>4. QED  BY <1>6, <2>2, <2>3 DEF Main
<1>7. QED  BY <1>2, <1>3, <1>4, <1>5, <1>6 DEF Next

LEMMA InitJournal == Init => JournalInv
<1> SUFFICES ASSUME Init  PROVE JournalInv
  OBVIOUS
<1>1. ToSet(<< >>) = {}
  BY DEF ToSet
<1>2. /\ states = << >> /\ usage = << >> /\ aside = {} /\ log = << >> /\ samples = {}
      /\ applied = << >> /\ server.status = "stopped"
      /\ \A t \in Threads : pc[t] = "down"
  BY DEF Init
<1>3. Typed
  BY InitIsTyped
<1>4. Known /\ Sent
  BY <1>1, <1>2 DEF Known, Sent, Waiting, Threads
<1>5. Numbered /\ Queued
  BY <1>1, <1>2 DEF Numbered, Queued, Ordered
<1>6. Replayed
  BY <1>1, <1>2 DEF Replayed, JournalIsReplayed, NoEventLost, AppliedInOrder, Ids
<1>7. Segments /\ SampleFindsItsSession
  <2>1. spans = {}
    BY DEF Init
  <2>2. QED  BY <1>1, <1>2, <2>1 DEF Segments, SampleFindsItsSession
<1>8. QED  BY <1>3, <1>4, <1>5, <1>6, <1>7 DEF JournalInv

(***************************************************************************)
(* The timer and the journal.  A change raises the flag; the flag is       *)
(* cleared before the timer is read, so what is read after the last change *)
(* is what will be journalled.                                             *)
(***************************************************************************)
TimerInv ==
  pc["main"] = "run" /\ ~stop /\ ~Failed =>
    \/ beat \/ raising
    \/ pc["worker"] \in {"clear", "read"}
    \/ pc["worker"] = "journal" /\ state["worker"] = Observed
    \/ pc["worker"] # "journal" /\ log # << >> /\ Describes(Last(log))

\* The exit: the main thread journals a stop, and nothing follows it unless the
\* worker outlives the wait.
ExitInv ==
  /\ pc["main"] = "journal" => state["main"] = "stopped"
  /\ ~scope.outlives /\ pc["main"] \notin {"start", "run", "join"} => pc["worker"] = "down"
  /\ ~scope.outlives /\ ~Crashed /\ ~Failed /\ pc["main"] \in {"send", "wait", "down"}
     => log = << >> \/ Last(log).status = "stopped"

Bounded == \A b \in Bounds : scope[b] \in Nat /\ left[b] <= scope[b]

AgentInv == JournalInv /\ Bounded /\ TimerInv /\ ExitInv

\* What is spent stays spent.
LEMMA BoundsOnlyShrink ==
  ASSUME TypeOK, Bounded, [Next]_vars
  PROVE  /\ scope' = scope /\ \A b \in Bounds : left'[b] <= left[b]
         /\ Bounded' /\ (Failed => Failed') /\ (Crashed => Crashed')
<1>1. \/ UNCHANGED bounds
      \/ \E b \in Bounds : Spend(b)
  <2> USE DEF bounds
  <2>1. {"actions", "changes", "beats", "samples", "crashes", "launches",
         "refusals", "unknown", "failures", "gaps"} \subseteq Bounds
    BY DEF Bounds
  <2>2. CASE Employee
    BY <2>1, <2>2 DEF Employee, StartTracking, PauseTracking, ResumeTracking, StopTracking,
                     SelectWork, Press
  <2>3. CASE Worker
    BY <2>1, <2>3 DEF Worker, Loop, StaysAsItWas, BecomesIdle, ComesBack, Observe, ObserveFails,
                     NotObserved, ReadFlag, ClearFlag, ReadState, Upload, UsageAnswered
  <2>4. ASSUME NEW t \in Threads, Heartbeat(t)
        PROVE  UNCHANGED bounds \/ \E b \in Bounds : Spend(b)
    BY <2>1, <2>4 DEF Heartbeat, AddState, Journals, AddStateFails, SendState, NothingToSend,
                     Answer, StateAccepted, StateAnswerLost, Offline, StateRefused, TokenRefused
  <2>5. CASE RaiseFlag \/ Main \/ Launch \/ Quit \/ Crash \/ UNCHANGED vars
    BY <2>1, <2>5 DEF RaiseFlag, Main, Started, Joined, Exit, Launch, Quit, Crash, vars
  <2>6. QED  BY <2>2, <2>3, <2>4, <2>5 DEF Next
<1>2. scope' = scope /\ \A b \in Bounds : left'[b] \in Int /\ left'[b] <= left[b]
  <2>1. CASE UNCHANGED bounds
    BY <2>1 DEF TypeOK, bounds
  <2>2. ASSUME NEW c \in Bounds, Spend(c)
        PROVE  scope' = scope /\ \A b \in Bounds : left'[b] \in Int /\ left'[b] <= left[b]
    <3>1. scope' = scope /\ left[c] > 0 /\ left' = [left EXCEPT ![c] = @ - 1]
      BY <2>2 DEF Spend
    <3>2. QED  BY <3>1 DEF TypeOK
  <2>3. QED  BY <1>1, <2>1, <2>2
<1>3. Bounded'
  BY <1>2 DEF Bounded, TypeOK
<1>4. (Failed => Failed') /\ (Crashed => Crashed')
  <2>1. "failures" \in Bounds /\ "crashes" \in Bounds
    BY DEF Bounds
  <2>2. QED  BY <1>2, <2>1 DEF Failed, Crashed, Bounded, TypeOK
<1>5. QED  BY <1>2, <1>3, <1>4

LEMMA SpendingShows ==
  ASSUME TypeOK, Bounded
  PROVE  (Spend("failures") => Failed') /\ (Spend("crashes") => Crashed')
<1>1. "failures" \in Bounds /\ "crashes" \in Bounds
  BY DEF Bounds
<1>2. QED  BY <1>1 DEF Spend, Failed, Crashed, Bounded, TypeOK

LEMMA LastOfAppend ==
  ASSUME NEW S, NEW s \in Seq(S), NEW e \in S
  PROVE  Append(s, e) # << >> /\ Last(Append(s, e)) = e
BY AppendProperties DEF Last

LEMMA StepKeepsTimer == ASSUME AgentInv, [Next]_vars  PROVE TimerInv'
<1> USE DEF memory, threads, journal, remote, bounds
<1>1. TypeOK /\ Typed /\ Bounded /\ log \in Seq(Event)
  BY DEF AgentInv, JournalInv, Typed, TypeOK
<1>2. SUFFICES ASSUME pc'["main"] = "run", ~stop', ~Failed', ~beat', ~raising'
      PROVE  \/ pc'["worker"] \in {"clear", "read"}
             \/ pc'["worker"] = "journal" /\ state'["worker"] = Observed'
             \/ pc'["worker"] # "journal" /\ log' # << >> /\ Describes(Last(log))'
  BY DEF TimerInv
<1>3. ~Failed
  BY <1>1, <1>2, BoundsOnlyShrink
<1>4. pc["main"] = "run" /\ ~stop =>
        \/ beat \/ raising
        \/ pc["worker"] \in {"clear", "read"}
        \/ pc["worker"] = "journal" /\ state["worker"] = Observed
        \/ pc["worker"] # "journal" /\ log # << >> /\ Describes(Last(log))
  BY <1>3 DEF AgentInv, TimerInv
<1>5. CASE Employee
  BY <1>2, <1>5 DEF Employee, StartTracking, PauseTracking, ResumeTracking, StopTracking,
                   SelectWork, Press
<1>6. CASE RaiseFlag
  BY <1>2, <1>6 DEF RaiseFlag
\* Steps that change neither what is journalled nor what the timer shows.
<1>7. ASSUME UNCHANGED <<timer, idle, selected, beat, raising, stop, log>>,
             pc["main"] = "run",
             pc["worker"] \in {"clear", "read", "journal"} =>
               pc'["worker"] = pc["worker"] /\ UNCHANGED state,
             pc["worker"] # "journal" => pc'["worker"] # "journal"
      PROVE  \/ pc'["worker"] \in {"clear", "read"}
             \/ pc'["worker"] = "journal" /\ state'["worker"] = Observed'
             \/ pc'["worker"] # "journal" /\ log' # << >> /\ Describes(Last(log))'
  <2>1. Observed' = Observed
    BY <1>7 DEF Observed, Suspended, tracking_active
  <2>2. Describes(Last(log))' <=> Describes(Last(log))
    BY <1>7, <2>1 DEF Describes, Last
  <2>3. QED  BY <1>2, <1>4, <1>7, <2>1, <2>2
<1>8. CASE Worker
  <2>1. pc["main"] = "run" /\ ~stop /\ ~raising
    <3>1. UNCHANGED <<stop, raising>>
      BY <1>8 DEF Worker, Loop, StaysAsItWas, BecomesIdle, ComesBack, Observe, ObserveFails,
           NotObserved, ReadFlag, ClearFlag, ReadState, Upload, UsageAnswered
    <3>2. \E step : Goto("worker", step)
      BY <1>8 DEF Worker, Loop, StaysAsItWas, BecomesIdle, ComesBack, Observe, ObserveFails,
           NotObserved, ReadFlag, ClearFlag, ReadState, Upload, UsageAnswered, Done
    <3>3. pc'["main"] = pc["main"]
      BY <1>1, <3>2 DEF Goto, TypeOK, Threads
    <3>4. QED  BY <1>2, <3>1, <3>3
  <2>2. CASE Loop \/ StaysAsItWas \/ NotObserved \/ ObserveFails \/ Observe
    <3>1. PICK step \in {"down", "idle", "observe", "flag"} : Goto("worker", step)
      BY <2>2 DEF Loop, StaysAsItWas, NotObserved, ObserveFails, Observe
    <3>2. pc'["worker"] = step /\ pc["worker"] \notin {"clear", "read", "journal"}
      BY <1>1, <2>2, <3>1 DEF Loop, StaysAsItWas, NotObserved, ObserveFails, Observe, Goto, TypeOK,
           Threads
    <3>3. UNCHANGED <<timer, idle, selected, beat, raising, stop, log>>
      BY <2>2 DEF Loop, StaysAsItWas, NotObserved, ObserveFails, Observe
    <3>4. QED  BY <1>7, <2>1, <3>2, <3>3
  <2>3. CASE BecomesIdle \/ ComesBack
    BY <1>2, <2>3 DEF BecomesIdle, ComesBack
  <2>4. CASE ReadFlag
    BY <1>1, <1>7, <2>1, <2>4 DEF ReadFlag, Goto, TypeOK, Threads
  <2>5. CASE ClearFlag
    BY <1>1, <2>5 DEF ClearFlag, Goto, TypeOK, Threads
  <2>6. CASE ReadState
    <3>1. Observed' = Observed
      BY <2>6 DEF ReadState, Observed, Suspended, tracking_active
    <3>2. pc'["worker"] = "journal" /\ state'["worker"] = Observed
      BY <1>1, <2>6 DEF ReadState, Goto, TypeOK, Threads
    <3>3. QED  BY <3>1, <3>2
  <2>7. CASE Upload
    <3>1. PICK step \in {"waitState", "waitUsage", "loop"} : Goto("worker", step)
      BY <2>7 DEF Upload
    <3>2. pc'["worker"] = step /\ pc["worker"] = "upload"
      BY <1>1, <2>7, <3>1 DEF Upload, Goto, TypeOK, Threads
    <3>3. QED  BY <1>7, <2>1, <2>7, <3>2 DEF Upload
  <2>8. CASE UsageAnswered
    <3>1. pc'["worker"] = "loop" /\ pc["worker"] = "waitUsage"
      BY <1>1, <2>8 DEF UsageAnswered, Done, Goto, TypeOK, Threads
    <3>2. QED  BY <1>7, <2>1, <2>8, <3>1 DEF UsageAnswered
  <2>9. QED  BY <1>8, <2>2, <2>3, <2>4, <2>5, <2>6, <2>7, <2>8 DEF Worker
<1>9. ASSUME NEW t \in Threads, Heartbeat(t)
      PROVE  \/ pc'["worker"] \in {"clear", "read"}
             \/ pc'["worker"] = "journal" /\ state'["worker"] = Observed'
             \/ pc'["worker"] # "journal" /\ log' # << >> /\ Describes(Last(log))'
  <2>1. t = "worker" /\ pc["main"] = "run"
    <3>1. pc[t] \notin {"start", "run", "join", "down"}
      BY <1>9 DEF Heartbeat, AddState, AddStateFails, SendState, NothingToSend, Answer,
           StateAccepted, StateAnswerLost, Offline, StateRefused, TokenRefused, Waiting
    <3>2. PICK step \in {"send", "upload", "down", "wait", "loop"} : Goto(t, step)
      BY <1>9 DEF Heartbeat, AddState, AddStateFails, SendState, NothingToSend, Answer,
           StateAccepted, StateAnswerLost, Offline, StateRefused, TokenRefused, Done
    <3>3. QED  BY <1>1, <1>2, <3>1, <3>2 DEF Goto, TypeOK, Threads
  <2>2. CASE AddState(t)
    <3>10. PICK gap \in BOOLEAN : log' = Append(log, NewEvent("worker", gap))
      BY <2>1, <2>2 DEF AddState, Journals
    <3>1. NewEvent("worker", gap) \in Event
      BY <1>1, NewEventIsAnEvent DEF Threads
    <3>2. log' # << >> /\ Last(log') = NewEvent("worker", gap)
      BY <1>1, <3>1, <3>10, LastOfAppend
    <3>3. /\ ~beat /\ ~raising /\ ~stop /\ pc["worker"] = "journal"
          /\ UNCHANGED <<timer, idle, selected>>
      BY <1>2, <2>1, <2>2 DEF AddState
    <3>4. state["worker"] = Observed
      BY <1>4, <2>1, <3>3
    <3>5. /\ NewEvent("worker", gap).status = Observed
          /\ NewEvent("worker", gap).project = IF Observed = "stopped" THEN NoProject ELSE selected
      BY <3>4 DEF NewEvent
    <3>6. Observed = "stopped" <=> timer = "stopped"
      BY DEF Observed, Suspended
    <3>7. Observed' = Observed
      BY <3>3 DEF Observed, Suspended, tracking_active
    <3>8. pc'["worker"] = "send"
      BY <1>1, <2>1, <2>2 DEF AddState, Goto, TypeOK
    <3>9. QED  BY <3>2, <3>3, <3>5, <3>6, <3>7, <3>8 DEF Describes, Last
  <2>3. CASE AddStateFails(t)
    BY <1>1, <1>2, <2>3, SpendingShows DEF AddStateFails
  \* What a thread that sends or is answered does not touch.
  <2>4. ASSUME NEW from, pc["worker"] = from, from \notin {"clear", "read", "journal"},
               NEW to, Goto("worker", to), to # "journal",
               UNCHANGED <<timer, idle, selected, beat, raising, stop, log>>
        PROVE  pc'["worker"] # "journal" /\ log' # << >> /\ Describes(Last(log))'
    <3>1. pc'["worker"] = to
      BY <1>1, <2>4 DEF Goto, TypeOK, Threads
    <3>2. log # << >> /\ Describes(Last(log))
      BY <1>2, <1>4, <2>1, <2>4
    <3>3. Describes(Last(log))'
      BY <2>4, <3>2 DEF Describes, Last, Observed, Suspended, tracking_active
    <3>4. QED  BY <2>4, <3>1, <3>2, <3>3
  <2>5. CASE SendState(t) \/ NothingToSend(t)
    <3>1. pc["worker"] = "send" /\ \E to \in {"wait", "upload"} : Goto("worker", to)
      BY <2>1, <2>5 DEF SendState, NothingToSend
    <3>2. UNCHANGED <<timer, idle, selected, beat, raising, stop, log>>
      BY <2>5 DEF SendState, NothingToSend
    <3>3. QED  BY <2>4, <3>1, <3>2
  <2>6. CASE Answer(t)
    <3>1. /\ pc["worker"] \in {"wait", "waitState", "waitUsage"}
          /\ \E to \in {"upload", "loop"} : Goto("worker", to)
      BY <2>1, <2>6 DEF Answer, StateAccepted, StateAnswerLost, Offline, StateRefused,
           TokenRefused, Waiting, Done
    <3>2. UNCHANGED <<timer, idle, selected, beat, raising, stop, log>>
      <4>1. CASE StateRefused(t)
        BY <1>2, <4>1 DEF StateRefused
      <4>2. CASE TokenRefused(t)
        <5>1. UNCHANGED <<timer, idle, selected, beat, raising, log>>
          BY <4>2 DEF TokenRefused
        <5>2. ~stop /\ stop' = FALSE
          BY <1>2, <4>2 DEF TokenRefused
        <5>3. QED  BY <1>1, <5>1, <5>2 DEF TypeOK
      <4>3. QED
        BY <2>6, <4>1, <4>2 DEF Answer, StateAccepted, StateAnswerLost, Offline
    <3>3. QED  BY <2>4, <3>1, <3>2
  <2>7. QED  BY <1>9, <2>2, <2>3, <2>5, <2>6 DEF Heartbeat
<1>10. CASE Main \/ Launch \/ Quit \/ Crash
  BY <1>1, <1>2, <1>10 DEF Main, Started, Joined, Exit, Launch, Quit, Crash, Goto, TypeOK, Threads
<1>11. CASE UNCHANGED vars
  BY <1>2, <1>4, <1>11 DEF vars, Observed, Suspended, tracking_active, Describes, Last
<1>12. QED  BY <1>5, <1>6, <1>8, <1>9, <1>10, <1>11 DEF Next

LEMMA StepKeepsExit == ASSUME AgentInv, [Next]_vars  PROVE ExitInv'
<1> USE DEF memory, threads, journal, remote, bounds
<1> DEFINE Ended == log = << >> \/ Last(log).status = "stopped"
<1>1. TypeOK /\ Typed /\ Bounded /\ log \in Seq(Event)
  BY DEF AgentInv, JournalInv, Typed, TypeOK
<1>2. scope' = scope /\ (Failed => Failed') /\ (Crashed => Crashed')
  BY <1>1, BoundsOnlyShrink
<1>3. ExitInv
  BY DEF AgentInv
\* The main thread stays where it is, and a worker that is down stays down.
<1>4. ASSUME pc'["main"] = pc["main"], UNCHANGED log, state'["main"] = state["main"],
             pc["worker"] = "down" => pc'["worker"] = "down"
      PROVE  ExitInv'
  BY <1>2, <1>3, <1>4 DEF ExitInv, Last
<1>5. CASE Employee \/ RaiseFlag \/ UNCHANGED vars
  <2>1. UNCHANGED <<pc, log, state>>
    BY <1>5 DEF Employee, StartTracking, PauseTracking, ResumeTracking, StopTracking, SelectWork,
               Press, RaiseFlag, vars
  <2>2. QED  BY <1>4, <2>1
<1>6. CASE Worker
  <2>1. UNCHANGED log /\ state'["main"] = state["main"]
    BY <1>1, <1>6 DEF Worker, Loop, StaysAsItWas, BecomesIdle, ComesBack, Observe, ObserveFails,
         NotObserved, ReadFlag, ClearFlag, ReadState, Upload, UsageAnswered, TypeOK, Threads
  <2>2. pc["worker"] # "down" /\ \E step : Goto("worker", step)
    BY <1>6 DEF Worker, Loop, StaysAsItWas, BecomesIdle, ComesBack, Observe, ObserveFails,
         NotObserved, ReadFlag, ClearFlag, ReadState, Upload, UsageAnswered, Done
  <2>3. pc'["main"] = pc["main"]
    BY <1>1, <2>2 DEF Goto, TypeOK, Threads
  <2>4. QED  BY <1>4, <2>1, <2>2, <2>3
<1>7. ASSUME NEW t \in Threads, Heartbeat(t)  PROVE ExitInv'
  <2>1. PICK step \in {"send", "upload", "down", "wait", "loop"} :
          /\ Goto(t, step) /\ pc[t] \in {"journal", "send", "wait", "waitState", "waitUsage"}
          /\ step = "send" => pc[t] = "journal"
    BY <1>7 DEF Heartbeat, AddState, AddStateFails, SendState, NothingToSend, Answer,
         StateAccepted, StateAnswerLost, Offline, StateRefused, TokenRefused, Done, Waiting
  <2>2. /\ pc'[t] = step /\ \A u \in Threads : u # t => pc'[u] = pc[u]
        /\ \A u \in Threads : u # t => state'[u] = state[u]
    BY <1>1, <1>7, <2>1 DEF Heartbeat, AddState, AddStateFails, SendState, NothingToSend, Answer,
         StateAccepted, StateAnswerLost, Offline, StateRefused, TokenRefused, Goto, TypeOK
  \* The worker runs, so either it may outlive the wait or the main thread waits.
  <2>3. CASE t = "worker"
    <3>1. /\ pc'["main"] = pc["main"] /\ state'["main"] = state["main"]
          /\ pc["worker"] # "down"
      BY <2>1, <2>2, <2>3 DEF Threads
    <3>2. scope.outlives \/ pc["main"] \in {"start", "run", "join"}
      BY <1>3, <3>1 DEF ExitInv
    <3>3. QED  BY <1>2, <1>3, <3>1, <3>2 DEF ExitInv
  <2>4. CASE t = "main"
    <3>1. /\ pc'["worker"] = pc["worker"] /\ pc'["main"] = step
          /\ pc["main"] \in {"journal", "send", "wait", "waitState", "waitUsage"}
      BY <2>1, <2>2, <2>4 DEF Threads
    <3>2. ~scope.outlives => pc'["worker"] = "down"
      BY <1>3, <3>1 DEF ExitInv
    <3>3. step \in {"send", "down", "wait"}
      BY <1>1, <1>7, <2>1, <2>4, <3>1, StepKeepsTyped DEF AgentInv, JournalInv, Typed, TypeOK,
           Next, MainSteps
    <3>4. CASE AddState(t)
      <4>4. PICK gap \in BOOLEAN : log' = Append(log, NewEvent("main", gap))
        BY <2>4, <3>4 DEF AddState, Journals
      <4>1. NewEvent("main", gap).status = "stopped" /\ NewEvent("main", gap) \in Event
        BY <1>1, <1>3, <2>4, <3>4, NewEventIsAnEvent DEF AddState, ExitInv, NewEvent
      <4>2. log' # << >> /\ Last(log') = NewEvent("main", gap)
        BY <1>1, <4>1, <4>4, LastOfAppend
      <4>3. QED  BY <1>2, <3>1, <3>2, <3>3, <4>1, <4>2 DEF ExitInv, Last
    <3>5. CASE AddStateFails(t)
      <4>1. Failed'
        BY <1>1, <3>5, SpendingShows DEF AddStateFails
      <4>2. QED  BY <1>2, <3>1, <3>2, <3>3, <4>1 DEF ExitInv
    <3>6. CASE SendState(t) \/ NothingToSend(t) \/ Answer(t)
      <4>1. UNCHANGED log /\ pc["main"] \in {"send", "wait", "waitState", "waitUsage"}
        BY <2>4, <3>6 DEF SendState, NothingToSend, Answer, StateAccepted, StateAnswerLost,
             Offline, StateRefused, TokenRefused, Waiting
      <4>2. pc["main"] \in {"send", "wait"} /\ step # "send"
        BY <1>1, <2>1, <2>4, <4>1 DEF TypeOK, MainSteps
      <4>3. QED  BY <1>2, <1>3, <3>1, <3>2, <3>3, <4>1, <4>2 DEF ExitInv, Last
    <3>7. QED  BY <1>7, <3>4, <3>5, <3>6 DEF Heartbeat
  <2>5. QED  BY <2>3, <2>4 DEF Threads
<1>8. CASE Started \/ Quit
  BY <1>1, <1>2, <1>3, <1>8 DEF Started, Quit, Goto, TypeOK, Threads, ExitInv, Last
<1>9. CASE Joined
  <2>1. pc'["main"] = "journal" /\ pc'["worker"] = pc["worker"] /\ state'["main"] = "stopped"
    BY <1>1, <1>9 DEF Joined, Goto, TypeOK, Threads
  <2>2. QED  BY <1>2, <1>9, <2>1 DEF ExitInv, Joined
<1>10. CASE Exit
  <2>1. /\ pc'["main"] = "down" /\ pc'["worker"] = "down" /\ UNCHANGED log
        /\ pc["main"] = "down" /\ pc["worker"] # "down"
    BY <1>1, <1>10 DEF Exit, Goto, TypeOK, Threads
  <2>2. QED  BY <1>2, <1>3, <2>1 DEF ExitInv
<1>11. CASE Launch
  BY <1>1, <1>11 DEF Launch, ExitInv, TypeOK, Threads
<1>12. CASE Crash
  <2>1. Crashed' /\ pc'["main"] = "down" /\ pc'["worker"] = "down"
    BY <1>1, <1>12, SpendingShows DEF Crash, Threads
  <2>2. QED  BY <2>1 DEF ExitInv
<1>13. QED
  BY <1>5, <1>6, <1>7, <1>8, <1>9, <1>10, <1>11, <1>12 DEF Next, Main

LEMMA InitAgent == Init => AgentInv
<1> SUFFICES ASSUME Init  PROVE AgentInv
  OBVIOUS
<1>1. JournalInv
  BY InitJournal
<1>2. Bounded
  BY TrackerAssumption DEF TrackerAssumption, Init, Bounded
<1>3. TimerInv /\ ExitInv
  BY DEF Init, TimerInv, ExitInv, Threads
<1>4. QED  BY <1>1, <1>2, <1>3 DEF AgentInv

\* The journal, the timer's flag and the exit, together, hold at every step.
THEOREM AgentInvHolds == Spec => []AgentInv
<1>1. Init => AgentInv
  BY InitAgent
<1>2. AgentInv /\ [Next]_vars => AgentInv'
  BY StepKeepsJournal, StepKeepsTimer, StepKeepsExit, BoundsOnlyShrink
     DEF AgentInv, JournalInv, Typed
<1>3. QED  BY <1>1, <1>2, PTL DEF Spec

\* The variables keep their types, whatever the threads, the server and crashes
\* do: what is sent is always an event of the journal.
THEOREM TypeCorrect == Spec => []TypeOK
<1>1. AgentInv => TypeOK
  BY DEF AgentInv, JournalInv, Typed
<1>2. QED  BY <1>1, AgentInvHolds, PTL

\* A journalled event is applied, queued or set aside, and the server applies
\* events in the order of the journal, each once (add_state, pending_states,
\* acknowledge_state; two threads upload, answers get lost, the process dies).
THEOREM JournalReplayed == Spec => []JournalIsReplayed
<1>1. AgentInv => JournalIsReplayed
  BY DEF AgentInv, JournalInv, Replayed
<1>2. QED  BY <1>1, AgentInvHolds, PTL

\* No press falls between the flag and the journal: the worker clears the flag
\* before it reads the timer (_work_loop, _send_heartbeat).
THEOREM TimerJournalled == Spec => []TimerIsJournalled
<1>1. AgentInv => TimerIsJournalled
  BY DEF AgentInv, TimerInv, TimerIsJournalled
<1>2. QED  BY <1>1, AgentInvHolds, PTL

\* An exit whose worker ended within the wait of stop() leaves a stop as the last
\* word of the journal.
THEOREM TimelyExit == Spec => []TimelyExitClosesTheSession
<1>1. AgentInv => TimelyExitClosesTheSession
  BY DEF AgentInv, ExitInv, JournalInv, Typed, TypeOK, Threads, TimelyExitClosesTheSession,
         ExitClosesTheSession
<1>2. QED  BY <1>1, AgentInvHolds, PTL

\* A sample taken while the journal said active finds its segment, because the
\* states are uploaded before the samples (_work_loop), unless a gap longer than the
\* lease or deducted idle time lies behind it (sync_work_session), the state was
\* refused, or an event came late.
THEOREM SampleFound == Spec => []SampleFindsItsSession
<1>1. AgentInv => SampleFindsItsSession
  BY DEF AgentInv, JournalInv
<1>2. QED  BY <1>1, AgentInvHolds, PTL
=============================================================================
