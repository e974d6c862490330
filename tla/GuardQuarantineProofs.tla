----------------------- MODULE GuardQuarantineProofs -----------------------
(***************************************************************************)
(* Theorems about GuardQuarantine for any number of callers, leases and    *)
(* faults.                                                                 *)
(***************************************************************************)
EXTENDS GuardQuarantine, FiniteSetTheorems, TLAPS

----------------------------------------------------------------------------
(* The inductive invariant *)

\* An operator released the sandbox, or it is latched.
Held == released \/ (row = "quarantined" /\ latch)

\* A stage under lease l was performed, or its lease is no longer the newest.
Performed(stage, l) == <<stage, l>> \in acts \/ l < lease

\* A task's copy of the incident may be stale, and what it adds may have been
\* done to a later lease's machine; then it can no longer be stored.
CopyOK(i) ==
    /\ i.lease \in {0, incident.lease}
    /\ i.lease = 0 => i = NoIncident
    /\ i.cut => Performed("cut", i.lease)
    /\ i.captured => Performed("capture", i.lease)
    /\ i.report => Held
    /\ i.complete => i.report

Staged == {"cut", "recordCut", "capture", "recordCapture", "mark", "recordMark",
           "recordRefusal", "observe", "append", "report"}
Marked == {"recordMark", "observe", "append", "report"}

TaskOK(c) ==
    /\ CopyOK(task[c].copy)
    /\ task[c].at \in Staged => task[c].copy.lease # 0
    /\ task[c].at \in Marked => Held

IncidentOK ==
    /\ incident.lease <= lease
    /\ incident.lease = 0 => incident = NoIncident
    /\ StagesFenced
    /\ incident.report => Held
    /\ incident.complete => incident.report

\* The tasks that read an empty journal and have yet to append to it.
Appending == {c \in Callers : task[c].at = "append"}
JournalOK == decisions > 0 => decisions + Cardinality(Appending) <= Cardinality(Callers)

\* Captures are of machines the sandbox had, and the newest one's is whole.
CapturesOK ==
    /\ \A a \in acts : a[2] <= lease
    /\ <<"capture", lease>> \in acts => shot = "whole"

\* No part is inductive alone: the incident is written from the copies the
\* tasks hold, so what holds of the row must be known of every copy that may
\* still be stored, and what makes a stale copy harmless is the order of the
\* leases.
GuardInv ==
    /\ GuardTypeOK
    /\ LatchesAgree
    /\ IncidentOK
    /\ \A c \in Callers : TaskOK(c)
    /\ JournalOK
    /\ CapturesOK

\* The initial state satisfies it.
LEMMA GuardInvInit == GuardInit => GuardInv
<1> SUFFICES ASSUME GuardInit PROVE GuardInv
  OBVIOUS
<1>1. Cardinality(Callers) \in Nat
  BY GuardAssumption, FS_CardinalityType
<1>2. GuardTypeOK
  <2>1. /\ NoIncident \in Incidents /\ Idle \in Tasks /\ NoRoute \in RouteStates
        /\ release \in [at : {"idle", "reopen", "clear"}, policy : Policies]
        /\ policy \in [host : Policies, row : Policies, budget : Policies]
    BY GuardAssumption DEF GuardInit, NoIncident, Incidents, Idle, Tasks, TaskSteps, NoRoute,
                           RouteStates, NoRelease, Policies
  <2>2. decisions \in 0..Cardinality(Callers) /\ faults \in 0..MaxFaults /\ lease \in Leases
    BY <1>1, GuardAssumption DEF GuardInit, Leases
  <2> QED
    BY <2>1, <2>2 DEF GuardInit, GuardTypeOK, SandboxState
<1>3. \A c \in Callers : TaskOK(c)
  BY DEF GuardInit, TaskOK, CopyOK, Idle, NoIncident, Staged, Marked
<1>4. LatchesAgree /\ IncidentOK /\ JournalOK /\ CapturesOK
  BY DEF GuardInit, LatchesAgree, IncidentOK, JournalOK, CapturesOK, StagesFenced, NoIncident
<1> QED
  BY <1>2, <1>3, <1>4 DEF GuardInv

----------------------------------------------------------------------------
(* The incident row *)

\* Merging keeps the lease of a stored incident and adds stages, no more.
LEMMA MergeFacts ==
    ASSUME NEW old \in Incidents, NEW new \in Incidents
    PROVE  LET stored == Merge(old, new)
           IN  /\ stored \in Incidents
               /\ stored.lease = IF old = NoIncident THEN new.lease ELSE old.lease
               /\ stored.cut => old.cut \/ new.cut
               /\ stored.captured => old.captured \/ new.captured
               /\ stored.report => old.report \/ new.report
               /\ stored.complete => \/ old.complete /\ stored = old
                                     \/ new.complete /\ stored = new
BY ZenonT(60) DEF Merge, Incidents

\* Closing completes a whole incident and changes nothing else.
LEMMA ClosedFacts ==
    ASSUME NEW i \in Incidents
    PROVE  /\ Closed(i) \in Incidents
           /\ Closed(i).lease = i.lease
           /\ Closed(i).cut = i.cut
           /\ Closed(i).captured = i.captured
           /\ Closed(i).report = i.report
           /\ Closed(i).complete => i.complete \/ i.report
BY DEF Closed, Whole, Incidents

\* The values a record starts from are of its type.
LEMMA NullTypes ==
    /\ 0 \in Policies /\ NoIncident \in Incidents
    /\ Idle \in Tasks /\ [Idle EXCEPT !.at = "lost"] \in Tasks
    /\ NoRoute \in RouteStates
    /\ NoRelease \in [at : {"idle", "reopen", "clear"}, policy : Policies]
<1>1. 0 \in Policies
  BY GuardAssumption DEF Policies
<1>2. NoIncident \in Incidents
  BY <1>1 DEF NoIncident, Incidents
<1> QED
  BY <1>1, <1>2 DEF Idle, Tasks, TaskSteps, NoRoute, RouteStates, NoRelease

\* Storing an incident leaves the row, the tasks and the fault count well typed.
LEMMA PersistTypes ==
    ASSUME GuardTypeOK, NEW c \in Callers, NEW i \in Incidents, NEW next \in TaskSteps,
           Persist(c, i, next)
    PROVE  incident' \in Incidents /\ task' \in [Callers -> Tasks] /\ faults' \in 0..MaxFaults
<1> DEFINE stored == Merge(incident, i)
<1>1. stored \in Incidents /\ Closed(stored) \in Incidents
  BY MergeFacts, ClosedFacts DEF GuardTypeOK
<1>2. Idle \in Tasks
  BY NullTypes
<1>3. CASE Storable(i) /\ incident' = Closed(stored) /\ UNCHANGED faults
           /\ task' = [task EXCEPT ![c].at = next, ![c].copy = Closed(stored)]
  BY <1>1, <1>3, ZenonT(60) DEF GuardTypeOK, Tasks
<1>4. CASE Faulty /\ incident' = stored /\ task' = [task EXCEPT ![c] = Idle]
  BY <1>1, <1>2, <1>4, GuardAssumption DEF GuardTypeOK, Faulty
<1>5. CASE task' = [task EXCEPT ![c] = Idle] /\ UNCHANGED <<incident, faults>>
  BY <1>2, <1>5 DEF GuardTypeOK
<1> QED
  BY <1>3, <1>4, <1>5 DEF Persist

----------------------------------------------------------------------------
(* Type correctness *)

\* Every step of a task keeps the types.
LEMMA TaskTypes ==
    ASSUME GuardInv, NEW c \in Callers, TaskStep(c)
    PROVE  GuardTypeOK'
<1> USE DEF durable, binding, host
<1>1. Idle \in Tasks /\ task[c] \in Tasks /\ task[c].copy \in Incidents /\ GuardTypeOK
  BY NullTypes DEF Tasks, GuardInv, GuardTypeOK
<1>2. CASE OpenIncident(c)
  <2>1. CASE Observable
    <3> DEFINE i == IF Opened THEN incident
                    ELSE [NoIncident EXCEPT !.lease = task[c].fence, !.policy = policy.budget]
               next == IF task[c].canary THEN "latch" ELSE "advance"
    <3>1. i \in Incidents /\ next \in TaskSteps
      BY <1>1 DEF GuardTypeOK, Tasks, Incidents, NoIncident, TaskSteps
    <3>2. Persist(c, i, next)
      BY <1>2, <2>1 DEF OpenIncident
    <3> HIDE DEF i, next
    <3> QED
      BY <1>1, <1>2, <3>1, <3>2, PersistTypes DEF OpenIncident, GuardTypeOK
  <2>2. CASE ~Observable
    BY <1>1, <1>2, <2>2 DEF OpenIncident, GuardTypeOK
  <2> QED
    BY <2>1, <2>2
<1>3. CASE LatchFirst(c)
  <2>1. row' \in SandboxState /\ latch' \in BOOLEAN
    BY <1>1, <1>3 DEF LatchFirst, Mark, GuardTypeOK, SandboxState
  <2>2. [task[c] EXCEPT !.at = "advance"] \in Tasks
    BY <1>1 DEF Tasks, TaskSteps
  <2>3. task' \in [Callers -> Tasks]
    BY <1>1, <1>3, <2>2 DEF LatchFirst, GuardTypeOK
  <2> QED
    BY <1>1, <1>3, <2>1, <2>3 DEF LatchFirst, GuardTypeOK
<1>4. CASE Advance(c)
  BY <1>1, <1>4, ZenonT(60) DEF Advance, GuardTypeOK, Tasks, TaskSteps
<1>5. CASE Cut(c)
  <2>1. \A done \in BOOLEAN :
           [task EXCEPT ![c].at = "recordCut", ![c].copy.cut = @ \/ done] \in [Callers -> Tasks]
    BY <1>1, ZenonT(60) DEF GuardTypeOK, Tasks, TaskSteps, Incidents
  <2>2. task' \in [Callers -> Tasks]
    BY <1>5, <2>1 DEF Cut
  <2>3. faults' \in 0..MaxFaults /\ net' \in {"none", "fresh", "open", "held"}
        /\ acts' \subseteq {"cut", "capture"} \X Leases
    BY <1>1, <1>5, GuardAssumption DEF Cut, Faulty, GuardTypeOK
  <2> QED
    BY <1>1, <1>5, <2>2, <2>3 DEF Cut, GuardTypeOK
<1>6. CASE RecordCut(c)
  BY <1>1, <1>6, PersistTypes DEF RecordCut, GuardTypeOK, TaskSteps
<1>7. CASE Capture(c)
  <2>1. \A done \in BOOLEAN :
           [task EXCEPT ![c].at = "recordCapture", ![c].copy.captured = @ \/ done]
             \in [Callers -> Tasks]
    BY <1>1, ZenonT(60) DEF GuardTypeOK, Tasks, TaskSteps, Incidents
  <2>2. task' \in [Callers -> Tasks]
    BY <1>7, <2>1 DEF Capture, CaptureAs
  <2>3. faults' \in 0..MaxFaults /\ vm' \in {"absent", "running", "paused"}
        /\ shot' \in {"none", "partial", "whole"}
        /\ acts' \subseteq {"cut", "capture"} \X Leases
    BY <1>1, <1>7, GuardAssumption DEF Capture, CaptureAs, Faulty, GuardTypeOK
  <2> QED
    BY <1>1, <1>7, <2>2, <2>3 DEF Capture, CaptureAs, GuardTypeOK
<1>8. CASE RecordCapture(c)
  BY <1>1, <1>8, PersistTypes DEF RecordCapture, GuardTypeOK, TaskSteps
<1>9. CASE MarkStage(c)
  <2>1. row' \in SandboxState /\ latch' \in BOOLEAN
    BY <1>1, <1>9 DEF MarkStage, Mark, GuardTypeOK, SandboxState
  <2>3. task' \in [Callers -> Tasks]
    BY <1>1, <1>9 DEF MarkStage, GuardTypeOK, Tasks, TaskSteps
  <2> QED
    BY <1>1, <1>9, <2>1, <2>3 DEF MarkStage, GuardTypeOK
<1>10. CASE ObserveDecision(c)
  BY <1>1, <1>10 DEF ObserveDecision, GuardTypeOK, Tasks, TaskSteps
<1>11. CASE AppendDecision(c)
  <2>1. decisions' \in 0..Cardinality(Callers)
    <3>1. Appending \subseteq Callers /\ c \in Appending /\ IsFiniteSet(Callers)
      BY <1>11, GuardAssumption DEF AppendDecision, Appending
    <3>2. IsFiniteSet(Appending) /\ Cardinality(Appending) \in Nat /\ Cardinality(Callers) \in Nat
          /\ Cardinality(Appending) <= Cardinality(Callers) /\ Cardinality(Appending) # 0
      BY <3>1, FS_Subset, FS_CardinalityType, FS_EmptySet
    <3>3. decisions < Cardinality(Callers)
      BY <1>1, <3>2 DEF GuardInv, JournalOK, GuardTypeOK
    <3> QED
      BY <1>1, <1>11, <3>2, <3>3 DEF AppendDecision, GuardTypeOK
  <2> QED
    BY <1>1, <1>11, <2>1, GuardAssumption
       DEF AppendDecision, Faulty, GuardTypeOK, Tasks, TaskSteps
<1>12. CASE Report(c)
  <2>1. [task[c].copy EXCEPT !.report = TRUE] \in Incidents
    BY <1>1 DEF Incidents
  <2> QED
    BY <1>1, <1>12, <2>1, PersistTypes DEF Report, GuardTypeOK, TaskSteps
<1>13. CASE Done(c)
  BY <1>1, <1>13 DEF Done, GuardTypeOK
<1>14. CASE RecordMark(c)
  BY <1>1, <1>14, PersistTypes DEF RecordMark, GuardTypeOK, TaskSteps
<1> QED
  BY <1>2, <1>3, <1>4, <1>5, <1>6, <1>7, <1>8, <1>9, <1>10, <1>11, <1>12, <1>13, <1>14
     DEF TaskStep

\* Every other step keeps the types.
LEMMA OtherTypes ==
    ASSUME GuardTypeOK, [GuardNext]_guardVars, \A c \in Callers : ~TaskStep(c)
    PROVE  GuardTypeOK'
<1> USE DEF durable, binding, host
<1>1. NoRoute \in RouteStates /\ Cardinality(Callers) \in Nat
  BY NullTypes, GuardAssumption, FS_CardinalityType
<1>2. ASSUME NEW c \in Callers, NEW canary \in BOOLEAN, Ask(c, canary) PROVE GuardTypeOK'
  <2>1. task'[c] \in Tasks
    <3>1. task'[c].copy = NoIncident /\ task'[c].policy = 0
      BY <1>2 DEF Ask, GuardTypeOK, Idle
    <3> QED
      BY <1>2, <3>1, NullTypes DEF Ask, GuardTypeOK, Idle, Tasks, TaskSteps
  <2> QED
    BY <1>2, <2>1 DEF Ask, GuardTypeOK
<1>3. CASE ReleaseAsk \/ ReleaseStep
  <2>1. release' \in [at : {"idle", "reopen", "clear"}, policy : Policies]
    BY <1>3, NullTypes DEF ReleaseAsk, ReleaseStep, ReleaseReopen, ReleaseClear, GuardTypeOK
  <2>2. CASE ReleaseAsk
    BY <2>1, <2>2 DEF ReleaseAsk, GuardTypeOK
  <2>3. CASE ReleaseReopen
    BY <2>1, <2>3 DEF ReleaseReopen, GuardTypeOK
  <2>4. CASE ReleaseClear
    <3>1. row' \in SandboxState /\ latch' \in BOOLEAN /\ released' \in BOOLEAN
      BY <2>4 DEF ReleaseClear, GuardTypeOK, SandboxState
    <3> QED
      BY <2>1, <2>4, <3>1 DEF ReleaseClear, GuardTypeOK
  <2> QED
    BY <1>3, <2>2, <2>3, <2>4 DEF ReleaseStep
<1>4. ASSUME NEW op \in Routes, RouteEnter(op) PROVE GuardTypeOK'
  <2>1. route' \in RouteStates
    BY <1>4, NullTypes DEF RouteEnter, GuardTypeOK, RouteStates
  <2> QED
    BY <1>4, <2>1 DEF RouteEnter, GuardTypeOK
<1>5. CASE RouteCall
  <2> DEFINE ops == {"pause", "resume", "stop", "start", "delete"}
  <2>0. route.op \in ops /\ route.at = "call" /\ route # NoRoute
    BY <1>5, GuardAssumption DEF RouteCall, GuardTypeOK, RouteStates, NoRoute
  <2>1. vm' \in {"absent", "running", "paused"} /\ net' \in {"none", "fresh", "open", "held"}
    BY <1>5, <2>0 DEF RouteCall, GuardTypeOK
  <2>2. route' \in RouteStates
    BY <1>1, <1>5, <2>0 DEF RouteCall, GuardTypeOK, RouteStates
  <2>3. policy' \in [host : Policies, row : Policies, budget : Policies]
    BY <1>5, <2>0 DEF RouteCall, GuardTypeOK, RouteStates
  <2> QED
    BY <1>5, <2>1, <2>2, <2>3 DEF RouteCall, GuardTypeOK
<1>6. CASE RouteCommit
  <2>0. /\ route.op \in {"pause", "resume", "stop", "start"}
        /\ [route EXCEPT !.at = "settle"] \in RouteStates
    BY <1>6, GuardAssumption DEF RouteCommit, GuardTypeOK, RouteStates, NoRoute
  <2>1. row' \in SandboxState /\ route' \in RouteStates
    BY <1>1, <1>6, <2>0 DEF RouteCommit, Settle, GuardTypeOK, SandboxState
  <2> QED
    BY <1>6, <2>1 DEF RouteCommit, GuardTypeOK
<1>7. CASE RouteSettle
  BY <1>1, <1>7 DEF RouteSettle, Settle, GuardTypeOK, SandboxState
<1>8. CASE DeleteRelease \/ DeleteRow
  <2>1. route' \in RouteStates
    BY <1>1, <1>8 DEF DeleteRelease, DeleteRow, GuardTypeOK, RouteStates, NoRoute
  <2>2. CASE DeleteRelease
    BY <2>1, <2>2 DEF DeleteRelease, GuardTypeOK
  <2>3. CASE DeleteRow
    BY <2>1, <2>3 DEF DeleteRow, GuardTypeOK, SandboxState
  <2> QED
    BY <1>8, <2>2, <2>3
<1>9. CASE Heartbeat \/ HoldCut \/ LeaseLapse
  BY <1>9 DEF Heartbeat, HoldCut, LeaseLapse, GuardTypeOK
<1>10. CASE Recover
  <2>1. lease' \in Leases /\ decisions' \in 0..Cardinality(Callers)
    BY <1>1, <1>10, GuardAssumption DEF Recover, GuardTypeOK, Leases
  <2>2. policy' \in [host : Policies, row : Policies, budget : Policies]
    BY <1>10 DEF Recover, GuardTypeOK
  <2> QED
    BY <1>10, <2>1, <2>2 DEF Recover, GuardTypeOK, SandboxState
<1>11. CASE UNCHANGED guardVars
  BY <1>11 DEF guardVars, GuardTypeOK
<1>12. ASSUME NEW c \in Callers, Crash(c) PROVE GuardTypeOK'
  BY <1>12, NullTypes, GuardAssumption DEF Crash, Faulty, GuardTypeOK
<1>13. CASE ApplyPolicy \/ RecordPolicy \/ RebindBudget
  <2>1. policy' \in [host : Policies, row : Policies, budget : Policies]
    BY <1>13, GuardAssumption DEF ApplyPolicy, RecordPolicy, RebindBudget, GuardTypeOK, Policies
  <2> QED
    BY <1>13, <2>1 DEF ApplyPolicy, RecordPolicy, RebindBudget, GuardTypeOK
<1> QED
  BY <1>2, <1>3, <1>4, <1>5, <1>6, <1>7, <1>8, <1>9, <1>10, <1>11, <1>12, <1>13
     DEF GuardNext, RouteStep

----------------------------------------------------------------------------
(* The latch *)

\* Row and budget change together, and only the operator's release undoes a latch.
LEMMA LatchStep ==
    ASSUME GuardInv, [GuardNext]_guardVars
    PROVE  LatchesAgree' /\ (Held => Held')
<1> USE DEF durable, binding, host, GuardInv
<1>1. CASE UNCHANGED <<row, latch, released>>
  BY <1>1 DEF LatchesAgree, Held
<1>2. ASSUME NEW c \in Callers, LatchFirst(c) \/ MarkStage(c)
      PROVE  LatchesAgree' /\ (Held => Held')
  BY <1>2 DEF LatchFirst, MarkStage, Mark, LatchesAgree, Held
<1>3. CASE ReleaseClear
  BY <1>3 DEF ReleaseClear, LatchesAgree, Held
<1>4. ASSUME NEW from, NEW to, NEW next, Settle(from, to, next), to # "quarantined",
             UNCHANGED <<latch, released>>
      PROVE  LatchesAgree' /\ (Held => Held')
  BY <1>4 DEF Settle, Commits, CanTransitionTo, LatchesAgree, Held, GuardTypeOK
<1>5. CASE RouteCommit
  <2>1. route.op \in {"pause", "resume", "stop", "start"}
    BY <1>5, GuardAssumption DEF RouteCommit, GuardTypeOK, RouteStates, NoRoute
  <2> QED
    BY <1>4, <1>5, <2>1 DEF RouteCommit
<1>6. CASE RouteSettle
  BY <1>4, <1>6 DEF RouteSettle
<1>7. CASE DeleteRow
  BY <1>7 DEF DeleteRow, LatchesAgree, Held
<1>8. CASE Recover
  BY <1>8 DEF Recover, Recoverable, LatchesAgree, Held
<1>9. ASSUME NEW c \in Callers, TaskStep(c), ~LatchFirst(c), ~MarkStage(c)
      PROVE  UNCHANGED <<row, latch, released>>
  BY <1>9 DEF TaskStep, OpenIncident, Advance, Cut, RecordCut, Capture, CaptureAs,
              RecordCapture, RecordMark, ObserveDecision, AppendDecision, Report, Done
<1>10. ASSUME NEW c \in Callers, NEW canary \in BOOLEAN, Ask(c, canary) \/ Crash(c)
       PROVE  UNCHANGED <<row, latch, released>>
  BY <1>10 DEF Ask, Crash
<1>11. CASE ReleaseAsk \/ ReleaseReopen \/ RouteCall \/ DeleteRelease \/ Heartbeat \/ HoldCut
            \/ LeaseLapse \/ (\E op \in Routes : RouteEnter(op)) \/ ApplyPolicy \/ RecordPolicy
            \/ RebindBudget \/ UNCHANGED guardVars
  <2>1. UNCHANGED <<row, latch, released>>
    BY <1>11 DEF ReleaseAsk, ReleaseReopen, RouteCall, DeleteRelease, Heartbeat, HoldCut,
                 LeaseLapse, RouteEnter, ApplyPolicy, RecordPolicy, RebindBudget, guardVars
  <2> QED
    BY <1>1, <2>1
<1> QED
  BY <1>1, <1>2, <1>3, <1>5, <1>6, <1>7, <1>8, <1>9, <1>10, <1>11
     DEF GuardNext, ReleaseStep, RouteStep

----------------------------------------------------------------------------
(* Leases, stages performed and captures *)

\* Leases only grow, what was done stays done, and a capture is kept.
LEMMA HistoryStep ==
    ASSUME GuardInv, [GuardNext]_guardVars
    PROVE  lease <= lease' /\ acts \subseteq acts' /\ CapturesOK'
<1> USE DEF durable, binding, host, GuardInv
<1>1. lease \in Nat /\ acts \subseteq {"cut", "capture"} \X Leases
  BY GuardAssumption DEF GuardTypeOK, Leases
<1>2. CASE UNCHANGED <<lease, acts, shot>>
  BY <1>1, <1>2 DEF CapturesOK
<1>3. ASSUME NEW c \in Callers, Cut(c)
      PROVE  lease <= lease' /\ acts \subseteq acts' /\ CapturesOK'
  <2>1. /\ lease' = lease /\ shot' = shot
        /\ acts' = acts \/ acts' = acts \cup {<<"cut", lease>>}
    BY <1>3 DEF Cut
  <2> QED
    BY <1>1, <2>1 DEF CapturesOK
<1>4. ASSUME NEW c \in Callers, Capture(c)
      PROVE  lease <= lease' /\ acts \subseteq acts' /\ CapturesOK'
  <2>1. /\ lease' = lease
        /\ \/ acts' = acts /\ (shot' = shot \/ shot = "none")
           \/ acts' = acts \cup {<<"capture", lease>>} /\ shot' = "whole"
    BY <1>4 DEF Capture, CaptureAs
  <2> QED
    BY <1>1, <2>1 DEF CapturesOK
<1>5. CASE Recover
  <2>1. \A a \in acts : a[2] \in Nat /\ a[2] <= lease
    BY <1>1, GuardAssumption DEF CapturesOK, Leases
  <2>2. lease' = lease + 1 /\ acts' = acts
    BY <1>5 DEF Recover
  <2>3. <<"capture", lease'>> \notin acts
    <3>1. <<"capture", lease'>>[2] = lease'
      OBVIOUS
    <3> QED
      BY <1>1, <2>1, <2>2, <3>1
  <2>4. \A a \in acts' : a[2] <= lease'
    BY <1>1, <2>1, <2>2
  <2> QED
    BY <1>1, <2>2, <2>3, <2>4 DEF CapturesOK
<1>6. ASSUME NEW c \in Callers, TaskStep(c), ~Cut(c), ~Capture(c)
      PROVE  UNCHANGED <<lease, acts, shot>>
  BY <1>6 DEF TaskStep, OpenIncident, LatchFirst, Advance, RecordCut, RecordCapture,
              MarkStage, RecordMark, ObserveDecision, AppendDecision, Report, Done
<1>7. ASSUME NEW c \in Callers, NEW canary \in BOOLEAN, Ask(c, canary) \/ Crash(c)
      PROVE  UNCHANGED <<lease, acts, shot>>
  BY <1>7 DEF Ask, Crash
<1>8. CASE ReleaseAsk \/ ReleaseStep \/ RouteStep \/ Heartbeat \/ HoldCut \/ LeaseLapse
           \/ ApplyPolicy \/ RecordPolicy \/ RebindBudget
           \/ (\E op \in Routes : RouteEnter(op)) \/ UNCHANGED guardVars
  <2>1. UNCHANGED <<lease, acts, shot>>
    BY <1>8 DEF ReleaseAsk, ReleaseStep, ReleaseReopen, ReleaseClear, RouteStep, RouteCall,
                RouteCommit, RouteSettle, DeleteRelease, DeleteRow, Heartbeat, HoldCut,
                LeaseLapse, RouteEnter, ApplyPolicy, RecordPolicy, RebindBudget, guardVars
  <2> QED
    BY <1>2, <2>1
<1> QED
  BY <1>2, <1>3, <1>4, <1>5, <1>6, <1>7, <1>8 DEF GuardNext

----------------------------------------------------------------------------
(* The incident and the tasks' copies of it *)

\* An incident that a step leaves alone stays true.
LEMMA IncidentKept ==
    ASSUME GuardInv, GuardTypeOK', incident' = incident, lease <= lease', acts \subseteq acts',
           Held => Held'
    PROVE  IncidentOK'
<1>1. lease \in Nat /\ lease' \in Nat /\ incident.lease \in Nat
  BY GuardAssumption DEF GuardInv, GuardTypeOK, Leases, Incidents
<1> QED
  BY <1>1 DEF GuardInv, IncidentOK, StagesFenced

\* A task whose copy a step leaves alone stays true, wherever the step takes it.
LEMMA TaskKept ==
    ASSUME GuardInv, GuardTypeOK', lease <= lease', acts \subseteq acts', Held => Held',
           incident'.lease = incident.lease \/ incident.lease = 0,
           NEW d \in Callers, task'[d].copy = task[d].copy,
           task'[d].at \in Staged => task'[d].copy.lease # 0,
           task'[d].at \in Marked => Held'
    PROVE  TaskOK(d)'
<1>1. lease \in Nat /\ lease' \in Nat /\ task[d].copy.lease \in Nat
  BY GuardAssumption DEF GuardInv, GuardTypeOK, Leases, Incidents, Tasks
<1>2. CopyOK(task[d].copy)
  BY DEF GuardInv, TaskOK
<1> QED
  BY <1>1, <1>2 DEF TaskOK, CopyOK, Performed

\* So does a task that a step ends.
LEMMA TaskEnded ==
    ASSUME NEW d \in Callers, task'[d] = Idle
    PROVE  TaskOK(d)'
BY DEF TaskOK, CopyOK, Idle, NoIncident, Staged, Marked

\* What Persist stores is true when what it is given is.
LEMMA PersistStep ==
    ASSUME GuardInv, GuardTypeOK', NEW c \in Callers, NEW i \in Incidents, NEW next \in TaskSteps,
           Persist(c, i, next), UNCHANGED <<lease, acts, row, latch, released>>,
           incident = NoIncident \/ i.lease = incident.lease,
           i.cut => Performed("cut", i.lease),
           i.captured => Performed("capture", i.lease),
           i.report => Held, i.complete => i.report,
           next \in Marked => Held
    PROVE  IncidentOK' /\ \A d \in Callers : TaskOK(d)'
<1> DEFINE stored == Merge(incident, i)
<1>1. incident \in Incidents /\ stored \in Incidents /\ lease \in Nat /\ lease # 0
  BY MergeFacts, GuardAssumption DEF GuardInv, GuardTypeOK, Leases
<1>2. Held' <=> Held
  BY DEF Held
<1>3. CASE ~Storable(i) /\ incident' = incident /\ task' = [task EXCEPT ![c] = Idle]
  <2>1. IncidentOK'
    BY <1>1, <1>2, <1>3, IncidentKept
  <2>2. \A d \in Callers : d # c => TaskOK(d)'
    BY <1>1, <1>2, <1>3, TaskKept DEF GuardInv, GuardTypeOK, TaskOK
  <2>3. TaskOK(c)'
    BY <1>3, TaskEnded DEF GuardInv, GuardTypeOK
  <2> QED
    BY <2>1, <2>2, <2>3
<1>4. CASE Storable(i) /\ incident' \in {stored, Closed(stored)}
           /\ \/ task' = [task EXCEPT ![c] = Idle]
              \/ task' = [task EXCEPT ![c].at = next, ![c].copy = incident']
  <2>1. i.lease = lease /\ incident'.lease = lease
    BY <1>1, <1>4, MergeFacts, ClosedFacts DEF Storable, OwnerOf
  <2>2. incident.lease = 0 \/ incident.lease = incident'.lease
    BY <1>1, <2>1 DEF NoIncident
  <2>3. /\ incident'.cut => incident.cut \/ i.cut
        /\ incident'.captured => incident.captured \/ i.captured
        /\ incident'.report => incident.report \/ i.report
        /\ incident'.complete => incident'.report
    BY <1>1, <1>4, MergeFacts, ClosedFacts DEF GuardInv, IncidentOK
  <2>4. /\ incident'.cut => <<"cut", lease>> \in acts
        /\ incident'.captured => <<"capture", lease>> \in acts
        /\ incident'.report => Held
    BY <1>1, <2>1, <2>2, <2>3
       DEF GuardInv, IncidentOK, StagesFenced, Performed, NoIncident
  <2>5. IncidentOK'
    BY <1>1, <1>2, <2>1, <2>3, <2>4 DEF IncidentOK, StagesFenced
  <2>6. \A d \in Callers : d # c => TaskOK(d)'
    BY <1>1, <1>2, <1>4, <2>2, TaskKept DEF GuardInv, GuardTypeOK, TaskOK
  <2>7. TaskOK(c)'
    <3>1. CASE task'[c] = Idle
      BY <3>1, TaskEnded
    <3>2. CASE task'[c].at = next /\ task'[c].copy = incident'
      BY <1>1, <1>2, <2>1, <2>3, <2>4, <3>2 DEF TaskOK, CopyOK, Performed
    <3> QED
      BY <1>4, <3>1, <3>2 DEF GuardInv, GuardTypeOK, Tasks
  <2> QED
    BY <2>5, <2>6, <2>7
<1> QED
  BY <1>3, <1>4 DEF Persist

\* The steps of a task keep the incident and every copy of it true.
LEMMA TaskStepKeeps ==
    ASSUME GuardInv, GuardTypeOK', NEW c \in Callers, TaskStep(c), lease <= lease',
           acts \subseteq acts', Held => Held'
    PROVE  IncidentOK' /\ \A d \in Callers : TaskOK(d)'
<1> USE DEF durable, binding, host
<1> DEFINE copy == task[c].copy
<1>1. /\ task \in [Callers -> Tasks] /\ task[c] \in Tasks /\ copy \in Incidents
      /\ incident \in Incidents /\ lease \in Nat /\ lease # 0
      /\ \A d \in Callers : TaskOK(d)
  BY GuardAssumption DEF GuardInv, GuardTypeOK, Tasks, Leases
<1>2. CopyOK(copy)
  BY <1>1 DEF TaskOK
<1> HIDE DEF copy
<1>3. ASSUME UNCHANGED incident, \A d \in Callers : d # c => task'[d] = task[d], TaskOK(c)'
      PROVE  IncidentOK' /\ \A d \in Callers : TaskOK(d)'
  <2>1. \A d \in Callers : d # c => TaskOK(d)'
    BY <1>1, <1>3, TaskKept DEF TaskOK
  <2> QED
    BY <1>3, <2>1, IncidentKept
<1>5. CASE OpenIncident(c)
  <2>1. CASE Observable
    <3> DEFINE i == IF Opened THEN incident
                    ELSE [NoIncident EXCEPT !.lease = task[c].fence, !.policy = policy.budget]
               next == IF task[c].canary THEN "latch" ELSE "advance"
    <3>0. policy.budget \in Policies
      BY DEF GuardInv, GuardTypeOK
    <3>1. i \in Incidents /\ next \in TaskSteps /\ next \notin Marked
      BY <1>1, <3>0 DEF Tasks, Incidents, NoIncident, TaskSteps, Marked
    <3>2. Persist(c, i, next) /\ UNCHANGED <<lease, acts, row, latch, released>>
      BY <1>5, <2>1 DEF OpenIncident
    <3>3. /\ incident = NoIncident \/ i.lease = incident.lease
          /\ i.cut => Performed("cut", i.lease)
          /\ i.captured => Performed("capture", i.lease)
          /\ i.report => Held
          /\ i.complete => i.report
      BY <1>1 DEF GuardInv, IncidentOK, StagesFenced, Performed, Opened, NoIncident
    <3> HIDE DEF i, next
    <3> QED
      BY <3>1, <3>2, <3>3, PersistStep
  <2>2. CASE ~Observable
    <3>1. task'[c] = Idle /\ Idle \in Tasks
      BY <1>1, <1>5, <2>2, NullTypes DEF OpenIncident
    <3> QED
      BY <1>1, <1>3, <1>5, <2>2, <3>1, TaskEnded DEF OpenIncident
  <2> QED
    BY <2>1, <2>2
<1>6. CASE LatchFirst(c)
  <2>1. task'[c] = Idle \/ (task'[c].copy = task[c].copy /\ task'[c].at = "advance")
    BY <1>1, <1>6 DEF LatchFirst, Tasks
  <2>2. TaskOK(c)'
    BY <1>1, <1>6, <2>1, TaskKept, TaskEnded DEF LatchFirst, Staged, Marked
  <2> QED
    BY <1>1, <1>3, <1>6, <2>2 DEF LatchFirst
<1>7. CASE Advance(c)
  <2>1. task'[c] = Idle \/ (task'[c].copy = incident /\ task'[c].at = "cut" /\ Opened)
    BY <1>1, <1>7 DEF Advance, Tasks
  <2>2. CASE task'[c].copy = incident /\ task'[c].at = "cut" /\ Opened
    <3>1. TaskOK(c)'
      BY <1>1, <1>7, <2>2 DEF Advance, TaskOK, CopyOK, Performed, Staged, Marked, Held,
                              GuardInv, IncidentOK, StagesFenced, Opened
    <3> QED
      BY <1>1, <1>3, <1>7, <3>1 DEF Advance
  <2>3. CASE task'[c] = Idle
    BY <1>1, <1>3, <1>7, <2>3, TaskEnded DEF Advance
  <2> QED
    BY <2>1, <2>2, <2>3
<1>8. CASE Cut(c)
  <2>1. /\ UNCHANGED <<incident, lease, row, latch, released>>
        /\ \A d \in Callers : d # c => task'[d] = task[d]
    BY <1>1, <1>8 DEF Cut
  <2>2. /\ task'[c].at = "recordCut"
        /\ task'[c].copy.lease = copy.lease
        /\ task'[c].copy.captured = copy.captured
        /\ task'[c].copy.report = copy.report
        /\ task'[c].copy.complete = copy.complete
        /\ task'[c].copy.cut => copy.cut \/ <<"cut", lease>> \in acts'
    BY <1>1, <1>8 DEF Cut, Tasks, Incidents, copy
  <2>3. copy.lease # 0 /\ copy.lease = incident.lease /\ copy.lease <= lease
    BY <1>1, <1>2, <1>8 DEF Cut, TaskOK, CopyOK, Staged, copy, GuardInv, IncidentOK
  <2>4. TaskOK(c)'
    BY <1>1, <1>2, <2>1, <2>2, <2>3
       DEF TaskOK, CopyOK, Performed, Held, Staged, Marked, Incidents, Leases
  <2> QED
    BY <1>3, <2>1, <2>4
<1>9. CASE Capture(c)
  <2>1. /\ UNCHANGED <<incident, lease, row, latch, released>>
        /\ \A d \in Callers : d # c => task'[d] = task[d]
    BY <1>1, <1>9 DEF Capture, CaptureAs
  <2>2. /\ task'[c].at = "recordCapture"
        /\ task'[c].copy.lease = copy.lease
        /\ task'[c].copy.cut = copy.cut
        /\ task'[c].copy.report = copy.report
        /\ task'[c].copy.complete = copy.complete
        /\ task'[c].copy.captured => copy.captured \/ <<"capture", lease>> \in acts'
    BY <1>1, <1>9 DEF Capture, CaptureAs, Tasks, Incidents, copy
  <2>3. copy.lease # 0 /\ copy.lease = incident.lease /\ copy.lease <= lease
    BY <1>1, <1>2, <1>9 DEF Capture, CaptureAs, TaskOK, CopyOK, Staged, copy, GuardInv, IncidentOK
  <2>4. TaskOK(c)'
    BY <1>1, <1>2, <2>1, <2>2, <2>3
       DEF TaskOK, CopyOK, Performed, Held, Staged, Marked, Incidents, Leases
  <2> QED
    BY <1>3, <2>1, <2>4
<1>10. ASSUME NEW next \in TaskSteps, Persist(c, copy, next), next \in Marked => Held,
              task[c].at \in Staged, UNCHANGED <<lease, acts, row, latch, released>>
       PROVE  IncidentOK' /\ \A d \in Callers : TaskOK(d)'
  BY <1>1, <1>2, <1>10, PersistStep DEF TaskOK, CopyOK, copy
<1>11. CASE RecordCut(c)
  BY <1>10, <1>11 DEF RecordCut, copy, Staged, Marked, TaskSteps
<1>12. CASE RecordCapture(c)
  BY <1>10, <1>12 DEF RecordCapture, copy, Staged, Marked, TaskSteps
<1>13. CASE MarkStage(c)
  <2>1. /\ UNCHANGED incident
        /\ \A d \in Callers : d # c => task'[d] = task[d]
        /\ \/ task'[c].copy = task[c].copy /\ task'[c].at = "recordRefusal"
           \/ /\ task'[c].copy = task[c].copy /\ task'[c].at = "recordMark"
              /\ row' = "quarantined" /\ latch' = TRUE
    BY <1>1, <1>13 DEF MarkStage, Mark, Tasks
  <2>2. task[c].copy.lease # 0
    BY <1>1, <1>13 DEF MarkStage, TaskOK, Staged
  <2>3. TaskOK(c)'
    BY <1>1, <2>1, <2>2, TaskKept DEF Held, Marked
  <2> QED
    BY <1>3, <2>1, <2>3
<1>14. CASE ObserveDecision(c) \/ AppendDecision(c)
  <2>1. /\ UNCHANGED incident
        /\ \A d \in Callers : d # c => task'[d] = task[d]
        /\ task'[c] = Idle \/ task'[c].copy = task[c].copy
    BY <1>1, <1>14 DEF ObserveDecision, AppendDecision, Tasks
  <2>2. task[c].copy.lease # 0 /\ Held
    BY <1>1, <1>14 DEF ObserveDecision, AppendDecision, TaskOK, Staged, Marked
  <2>3. TaskOK(c)'
    BY <1>1, <2>1, <2>2, TaskKept, TaskEnded
  <2> QED
    BY <1>3, <2>1, <2>3
<1>15. CASE Report(c)
  <2> DEFINE i == [copy EXCEPT !.report = TRUE]
  <2>1. /\ i \in Incidents /\ i.lease = copy.lease /\ i.cut = copy.cut
        /\ i.captured = copy.captured /\ i.report
    BY <1>1 DEF Incidents
  <2>2. copy.lease # 0 /\ Held
    BY <1>1, <1>15 DEF Report, TaskOK, Staged, Marked, copy
  <2>3. Persist(c, i, "done") /\ UNCHANGED <<lease, acts, row, latch, released>>
    BY <1>15 DEF Report, copy
  <2> HIDE DEF i
  <2>4. /\ i.lease = incident.lease
        /\ i.cut => Performed("cut", i.lease)
        /\ i.captured => Performed("capture", i.lease)
    BY <1>2, <2>1, <2>2 DEF CopyOK
  <2> QED
    BY <2>1, <2>2, <2>3, <2>4, PersistStep DEF TaskSteps
<1>16. CASE Done(c)
  BY <1>1, <1>3, <1>16, TaskEnded DEF Done
<1>17. CASE RecordMark(c)
  <2>1. UNCHANGED <<lease, acts, row, latch, released>> /\ task[c].at \in Staged
    BY <1>17 DEF RecordMark, Staged
  <2>2. CASE task[c].at = "recordMark" /\ Persist(c, copy, "observe")
    BY <1>1, <1>10, <2>1, <2>2 DEF TaskOK, Marked, TaskSteps
  <2>3. CASE Persist(c, copy, "done")
    BY <1>10, <2>1, <2>3 DEF Marked, TaskSteps
  <2> QED
    BY <1>17, <2>2, <2>3 DEF RecordMark, copy
<1> QED
  BY <1>5, <1>6, <1>7, <1>8, <1>9, <1>11, <1>12, <1>13, <1>14, <1>15, <1>16, <1>17 DEF TaskStep

\* The other steps leave the tasks and the incident alone, but for a new request.
LEMMA OtherKeeps ==
    ASSUME GuardInv, GuardTypeOK', [GuardNext]_guardVars, \A c \in Callers : ~TaskStep(c),
           lease <= lease', acts \subseteq acts', Held => Held'
    PROVE  IncidentOK' /\ \A d \in Callers : TaskOK(d)'
<1> USE DEF durable, binding, host
<1>1. task \in [Callers -> Tasks] /\ \A d \in Callers : TaskOK(d)
  BY DEF GuardInv, GuardTypeOK
<1>2. CASE UNCHANGED <<incident, task>>
  BY <1>1, <1>2, IncidentKept, TaskKept DEF TaskOK
<1>3. ASSUME NEW c \in Callers, NEW canary \in BOOLEAN, Ask(c, canary)
      PROVE  IncidentOK' /\ \A d \in Callers : TaskOK(d)'
  <2>1. /\ UNCHANGED incident
        /\ \A d \in Callers : d # c => task'[d] = task[d]
        /\ task'[c].copy = NoIncident /\ task'[c].at \in {"open", "latch", "advance"}
    BY <1>1, <1>3 DEF Ask, Idle
  <2>2. TaskOK(c)'
    BY <2>1 DEF TaskOK, CopyOK, NoIncident, Staged, Marked
  <2>3. \A d \in Callers : d # c => TaskOK(d)'
    BY <1>1, <2>1, TaskKept DEF TaskOK
  <2> QED
    BY <2>1, <2>2, <2>3, IncidentKept
<1>5. ASSUME NEW c \in Callers, Crash(c)
      PROVE  IncidentOK' /\ \A d \in Callers : TaskOK(d)'
  <2>1. /\ UNCHANGED incident
        /\ \A d \in Callers : d # c => task'[d] = task[d]
        /\ task'[c].copy = NoIncident /\ task'[c].at = "lost"
    BY <1>1, <1>5 DEF Crash, Idle
  <2>2. TaskOK(c)'
    BY <2>1 DEF TaskOK, CopyOK, NoIncident, Staged, Marked
  <2>3. \A d \in Callers : d # c => TaskOK(d)'
    BY <1>1, <2>1, TaskKept DEF TaskOK
  <2> QED
    BY <2>1, <2>2, <2>3, IncidentKept
<1>4. CASE ReleaseAsk \/ ReleaseStep \/ RouteStep \/ Heartbeat \/ HoldCut \/ LeaseLapse
           \/ Recover \/ ApplyPolicy \/ RecordPolicy \/ RebindBudget \/ (\E op \in Routes : RouteEnter(op)) \/ UNCHANGED guardVars
  <2>1. UNCHANGED <<incident, task>>
    BY <1>4 DEF ReleaseAsk, ReleaseStep, ReleaseReopen, ReleaseClear, RouteStep, RouteCall,
                RouteCommit, RouteSettle, DeleteRelease, DeleteRow, Heartbeat, HoldCut,
                LeaseLapse, Recover, RouteEnter, ApplyPolicy, RecordPolicy, RebindBudget,
                guardVars
  <2> QED
    BY <1>2, <2>1
<1> QED
  BY <1>3, <1>4, <1>5 DEF GuardNext

----------------------------------------------------------------------------
(* The journal *)

\* Only a task that read an empty journal is about to append to it.
LEMMA JournalStep ==
    ASSUME GuardInv, GuardTypeOK', [GuardNext]_guardVars
    PROVE  JournalOK'
<1> USE DEF durable, binding, host
<1>1. /\ task \in [Callers -> Tasks] /\ task' \in [Callers -> Tasks]
      /\ decisions \in Nat /\ IsFiniteSet(Callers) /\ Cardinality(Callers) \in Nat
  BY GuardAssumption, FS_CardinalityType DEF GuardInv, GuardTypeOK
<1>2. /\ Appending \subseteq Callers /\ IsFiniteSet(Appending) /\ Cardinality(Appending) \in Nat
      /\ Cardinality(Appending) <= Cardinality(Callers)
  BY <1>1, FS_Subset, FS_CardinalityType DEF Appending
<1>3. CASE decisions' = decisions /\ Appending' \subseteq Appending
  <2>1. Cardinality(Appending') \in Nat /\ Cardinality(Appending') <= Cardinality(Appending)
    BY <1>2, <1>3, FS_Subset, FS_CardinalityType
  <2>2. decisions > 0 => decisions + Cardinality(Appending) <= Cardinality(Callers)
    BY DEF GuardInv, JournalOK
  <2>3. decisions' > 0 => decisions' + Cardinality(Appending') <= Cardinality(Callers)
    BY <1>1, <1>2, <1>3, <2>1, <2>2
  <2> QED
    BY <2>3 DEF JournalOK
<1>4. CASE decisions' = 0
  BY <1>4 DEF JournalOK
<1>5. ASSUME NEW c \in Callers, AppendDecision(c) PROVE JournalOK'
  <2>1. c \in Appending /\ Appending' = Appending \ {c}
    BY <1>1, <1>5 DEF AppendDecision, Appending, Tasks
  <2>2. Cardinality(Appending') = Cardinality(Appending) - 1
    BY <1>2, <2>1, FS_RemoveElement
  <2>3. decisions' \in {decisions, decisions + 1}
    BY <1>5 DEF AppendDecision
  <2>4. decisions > 0 => decisions + Cardinality(Appending) <= Cardinality(Callers)
    BY DEF GuardInv, JournalOK
  <2>5. decisions' > 0 => decisions' + Cardinality(Appending') <= Cardinality(Callers)
    BY <1>1, <1>2, <2>2, <2>3, <2>4
  <2> QED
    BY <2>5 DEF JournalOK
<1>6. ASSUME NEW c \in Callers, ObserveDecision(c) PROVE JournalOK'
  <2>1. CASE decisions > 0
    <3>1. decisions' = decisions /\ Appending' \subseteq Appending
      BY <1>1, <1>6, <2>1 DEF ObserveDecision, Appending, Tasks, Idle
    <3> QED
      BY <1>3, <3>1
  <2>2. CASE ~(decisions > 0)
    BY <1>1, <1>4, <1>6, <2>2 DEF ObserveDecision
  <2> QED
    BY <2>1, <2>2
<1>7. ASSUME NEW c \in Callers, NEW i, NEW next \in TaskSteps \ {"append"}, Persist(c, i, next)
      PROVE  Appending' \subseteq Appending
  BY <1>1, <1>7 DEF Persist, Appending, Tasks, Idle
<1>8. ASSUME NEW c \in Callers, TaskStep(c), ~ObserveDecision(c), ~AppendDecision(c)
      PROVE  decisions' = decisions /\ Appending' \subseteq Appending
  <2>1. CASE OpenIncident(c) \/ RecordCut(c) \/ RecordCapture(c) \/ RecordMark(c) \/ Report(c)
    <3>1. \/ \E i : \E next \in TaskSteps \ {"append"} : Persist(c, i, next)
          \/ task' = [task EXCEPT ![c] = Idle]
      BY <2>1 DEF OpenIncident, RecordCut, RecordCapture, RecordMark, Report, TaskSteps
    <3>2. decisions' = decisions
      BY <2>1 DEF OpenIncident, RecordCut, RecordCapture, RecordMark, Report
    <3>3. CASE task' = [task EXCEPT ![c] = Idle]
      BY <1>1, <3>2, <3>3 DEF Appending, Idle
    <3>4. CASE \E i : \E next \in TaskSteps \ {"append"} : Persist(c, i, next)
      <4>1. PICK i : \E next \in TaskSteps \ {"append"} : Persist(c, i, next)
        BY <3>4
      <4>2. PICK next \in TaskSteps \ {"append"} : Persist(c, i, next)
        BY <4>1
      <4> QED
        BY <1>7, <3>2, <4>2
    <3> QED
      BY <3>1, <3>2, <3>3, <3>4
  <2>2. CASE LatchFirst(c) \/ MarkStage(c) \/ Advance(c) \/ Done(c)
    <3>1. /\ decisions' = decisions
          /\ \A d \in Callers : d # c => task'[d] = task[d]
      BY <1>1, <2>2 DEF LatchFirst, MarkStage, Advance, Done
    <3>2. task'[c].at # "append"
      <4>1. CASE LatchFirst(c)
        BY <1>1, <4>1 DEF LatchFirst, Tasks, Idle
      <4>2. CASE MarkStage(c)
        BY <1>1, <4>2 DEF MarkStage, Tasks, Idle
      <4>3. CASE Advance(c)
        BY <1>1, <4>3 DEF Advance, Tasks, Idle
      <4>4. CASE Done(c)
        BY <1>1, <4>4 DEF Done, Idle
      <4> QED
        BY <2>2, <4>1, <4>2, <4>3, <4>4
    <3> QED
      BY <3>1, <3>2 DEF Appending
  <2>3. CASE Cut(c)
    BY <1>1, <2>3 DEF Cut, Appending, Tasks
  <2>4. CASE Capture(c)
    BY <1>1, <2>4 DEF Capture, CaptureAs, Appending, Tasks
  <2> QED
    BY <1>8, <2>1, <2>2, <2>3, <2>4 DEF TaskStep
<1>9. ASSUME NEW c \in Callers, NEW canary \in BOOLEAN, Ask(c, canary) \/ Crash(c)
      PROVE  JournalOK'
  <2>1. task'[c].at # "append" /\ \A d \in Callers : d # c => task'[d] = task[d]
    <3>1. CASE Ask(c, canary)
      BY <1>1, <3>1 DEF Ask, Idle
    <3>2. CASE Crash(c)
      BY <1>1, <3>2 DEF Crash, Idle
    <3> QED
      BY <1>9, <3>1, <3>2
  <2>2. decisions' = decisions /\ Appending' \subseteq Appending
    BY <1>9, <2>1 DEF Ask, Crash, Appending
  <2> QED
    BY <1>3, <2>2
<1>10. CASE Recover
  BY <1>4, <1>10 DEF Recover
<1>11. CASE ReleaseAsk \/ ReleaseStep \/ RouteStep \/ Heartbeat \/ HoldCut \/ LeaseLapse
            \/ ApplyPolicy \/ RecordPolicy \/ RebindBudget
            \/ (\E op \in Routes : RouteEnter(op)) \/ UNCHANGED guardVars
  <2>1. UNCHANGED <<decisions, task>>
    BY <1>11 DEF ReleaseAsk, ReleaseStep, ReleaseReopen, ReleaseClear, RouteStep, RouteCall,
                 RouteCommit, RouteSettle, DeleteRelease, DeleteRow, Heartbeat, HoldCut,
                 LeaseLapse, RouteEnter, ApplyPolicy, RecordPolicy, RebindBudget, guardVars
  <2> QED
    BY <1>3, <2>1 DEF Appending
<1> QED
  BY <1>3, <1>5, <1>6, <1>8, <1>9, <1>10, <1>11 DEF GuardNext

----------------------------------------------------------------------------
(* The theorems *)

\* The invariant is inductive.
LEMMA GuardInvNext == GuardInv /\ [GuardNext]_guardVars => GuardInv'
<1> SUFFICES ASSUME GuardInv, [GuardNext]_guardVars PROVE GuardInv'
  OBVIOUS
<1>1. GuardTypeOK'
  BY TaskTypes, OtherTypes DEF GuardInv
<1>2. LatchesAgree' /\ (Held => Held')
  BY LatchStep
<1>3. lease <= lease' /\ acts \subseteq acts' /\ CapturesOK'
  BY HistoryStep
<1>4. IncidentOK' /\ \A d \in Callers : TaskOK(d)'
  BY <1>1, <1>2, <1>3, TaskStepKeeps, OtherKeeps
<1>5. JournalOK'
  BY <1>1, JournalStep
<1> QED
  BY <1>1, <1>2, <1>3, <1>4, <1>5 DEF GuardInv

\* Every behaviour of the quarantine satisfies the invariant.
THEOREM GuardInvariant == GuardSpec => []GuardInv
BY GuardInvInit, GuardInvNext, PTL DEF GuardSpec

\* Every variable keeps its type, and a journal gets no more quarantine events
\* than there are callers (aiec-api guard.rs, advance_quarantine).
THEOREM GuardTypes == GuardSpec => []GuardTypeOK
<1>1. GuardInv => GuardTypeOK
  BY DEF GuardInv
<1> QED
  BY <1>1, GuardInvariant, PTL

\* The sandbox row and the budget never disagree on the quarantine, whatever
\* lifecycle route, release, recovery or task writes them.
THEOREM LatchesInStep == GuardSpec => []LatchesAgree
<1>1. GuardInv => LatchesAgree
  BY DEF GuardInv
<1> QED
  BY <1>1, GuardInvariant, PTL

\* No incident is completed before its sandbox is latched, and only the
\* operator's release takes the latch back.
THEOREM CompletedHeld == GuardSpec => []CompletedIsHeld
<1>1. GuardInv => CompletedIsHeld
  BY DEF GuardInv, IncidentOK, Held, CompletedIsHeld
<1> QED
  BY <1>1, GuardInvariant, PTL

\* The stages an incident records were done to the machine of its own lease.
THEOREM StagesOfOwner == GuardSpec => []StagesFenced
<1>1. GuardInv => StagesFenced
  BY DEF GuardInv, IncidentOK
<1> QED
  BY <1>1, GuardInvariant, PTL

\* A capture an incident records is whole on its owner's disk.
THEOREM CapturesKept == GuardSpec => []CaptureKept
<1>1. GuardInv => CaptureKept
  BY DEF GuardInv, IncidentOK, StagesFenced, CapturesOK, CaptureKept
<1> QED
  BY <1>1, GuardInvariant, PTL
=============================================================================
