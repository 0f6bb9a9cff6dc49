--------------------- MODULE RecoveryCoordinatorProofs ---------------------
(* The safety of the recovery coordinator, for every length of the backoff *)
(* table and any number of tasks, requests and signals.                    *)
EXTENDS RecoveryCoordinator, TLAPS

LEMMA OrderType == Len(Order) = 4 /\ \A n \in 1 .. 4 : Order[n] \in {Core, "proxy", "tun"}
  BY DEF Order

LEMMA FreeType == Free \in Task /\ Asleep \in Task
  <1>1. "free" \in Stages /\ "sleeping" \in Stages
    BY DEF Stages
  <1>2. 1 \in 1 .. Len(Order)
    BY OrderType
  <1>3. Free \in Task
    BY <1>1, <1>2 DEF Free, Task
  <1> QED
    BY <1>1, <1>3 DEF Asleep, Task

LEMMA InitInv == Init => Inv
  <1> SUFFICES ASSUME Init PROVE Inv
    OBVIOUS
  <1>1. task \in [Ids -> Task]
    BY FreeType DEF Init
  <1>2. \A t \in Ids : task[t] = Free /\ ~Attempting(t) /\ ~Noted(t)
    BY DEF Init, Free, Attempting, Noted
  <1>3. line \in Seq(Waiters) /\ Len(line) <= MaxLine
    BY CoordinatorAssumption DEF Init
  <1>4. 0 \in 0 .. Backoff /\ 0 \in 0 .. MaxRequests /\ 0 \in 0 .. MaxSignals
    BY CoordinatorAssumption
  <1>5. CoordinatorTypeOK
    BY <1>1, <1>3, <1>4, Zenon DEF Init, CoordinatorTypeOK
  <1> QED
    BY <1>2, <1>5 DEF Init, Inv, OneAttempt, RunningAttempt, CancelledStaysQuiet,
                      QuietCoordinator, UserInLine, NotedIntent, Free

-----------------------------------------------------------------------------
(* What the helpers do to the tasks. *)

\* Tasks that were only slept through, outdated or dropped: an attempt stays the
\* attempt it was, and nothing becomes current.
Keeps(old, new) ==
    \A t \in Ids :
        \/ new[t].at = "free"
        \/ /\ new[t].at = old[t].at
           /\ new[t].flags = old[t].flags
           /\ new[t].late = old[t].late
           /\ new[t].current => old[t].current

\* No task is current.
AllOutdated(tasks) == \A t \in Ids : ~tasks[t].current

LEMMA ClearedKeeps ==
    ASSUME task \in [Ids -> Task], timer \in Ids \cup {NoTask}
    PROVE  Cleared \in [Ids -> Task] /\ Keeps(task, Cleared)
  <1>1. CASE timer = NoTask
    BY <1>1 DEF Cleared, Keeps
  <1>2. CASE timer \in Ids /\ timer # NoTask
    <2>1. [task[timer] EXCEPT !.doomed = TRUE] \in Task
      BY <1>2 DEF Task
    <2>2. \A t \in Ids : [task[t] EXCEPT !.doomed = TRUE].at = task[t].at
                         /\ [task[t] EXCEPT !.doomed = TRUE].flags = task[t].flags
                         /\ [task[t] EXCEPT !.doomed = TRUE].late = task[t].late
                         /\ [task[t] EXCEPT !.doomed = TRUE].current = task[t].current
      BY DEF Task
    <2> QED
      BY <1>2, <2>1, <2>2, FreeType DEF Cleared, Keeps, Free
  <1> QED
    BY <1>1, <1>2

LEMMA OutdatedKeeps ==
    ASSUME NEW tasks \in [Ids -> Task]
    PROVE  /\ Outdated(tasks) \in [Ids -> Task]
           /\ Keeps(tasks, Outdated(tasks))
           /\ AllOutdated(Outdated(tasks))
  BY DEF Outdated, Keeps, AllOutdated, Task

LEMMA KeepsOutdated ==
    ASSUME task \in [Ids -> Task], timer \in Ids \cup {NoTask}
    PROVE  /\ Outdated(Cleared) \in [Ids -> Task]
           /\ Keeps(task, Outdated(Cleared))
           /\ AllOutdated(Outdated(Cleared))
  <1>1. Cleared \in [Ids -> Task] /\ Keeps(task, Cleared)
    BY ClearedKeeps
  <1>2. /\ Outdated(Cleared) \in [Ids -> Task]
        /\ Keeps(Cleared, Outdated(Cleared))
        /\ AllOutdated(Outdated(Cleared))
    BY <1>1, OutdatedKeeps
  <1> QED
    BY <1>1, <1>2 DEF Keeps

\* The tasks after a schedule: one that slept nowhere before may sleep now.
Sleeps(old, new) ==
    \A t \in Ids : new[t] = old[t] \/ (old[t].at = "free" /\ new[t] = Asleep)

LEMMA SpawnSleeps ==
    ASSUME NEW tasks \in [Ids -> Task], Spawn(tasks)
    PROVE  task' \in [Ids -> Task] /\ timer' \in Ids /\ Sleeps(tasks, task')
  BY FreeType DEF Spawn, Sleeps

LEMMA ScheduleNextSleeps ==
    ASSUME NEW tasks \in [Ids -> Task], NEW old \in Ids \cup {NoTask},
           NEW next \in 0 .. Backoff, NEW inTime, ScheduleNext(tasks, old, next, inTime)
    PROVE  /\ task' \in [Ids -> Task]
           /\ timer' \in Ids \cup {NoTask}
           /\ nextDelay' \in 0 .. Backoff
           /\ Sleeps(tasks, task')
           /\ ~started' => task' = tasks
  <1>1. nextDelay' \in 0 .. Backoff
    BY CoordinatorAssumption DEF ScheduleNext
  <1>2. CASE Spawn(tasks) /\ started'
    BY <1>1, <1>2, SpawnSleeps
  <1>3. CASE task' = tasks /\ timer' = old
    BY <1>1, <1>3 DEF Sleeps
  <1> QED
    BY <1>2, <1>3 DEF ScheduleNext

-----------------------------------------------------------------------------
(* What happens to the line. *)

LEMMA WaitersType ==
    /\ Other \in Waiters
    /\ \A mode \in Modes, want \in BOOLEAN : User(mode, want) \in Waiters
    /\ \A t \in Ids : Retry(t) \in Waiters
  BY CoordinatorAssumption DEF Other, User, Retry, Waiters, Ids

LEMMA TailOfLine ==
    ASSUME line \in Seq(Waiters), Len(line) <= MaxLine, line # <<>>
    PROVE  Tail(line) \in Seq(Waiters) /\ Len(Tail(line)) <= MaxLine
  BY CoordinatorAssumption

LEMMA AppendToLine ==
    ASSUME line \in Seq(Waiters), Len(line) < MaxLine, NEW w \in Waiters
    PROVE  /\ Append(line, w) \in Seq(Waiters)
           /\ Len(Append(line, w)) <= MaxLine
           /\ Append(line, w) # <<>>
           /\ line # <<>> => Head(Append(line, w)) = Head(line)
  BY CoordinatorAssumption

LEMMA Joined ==
    ASSUME NEW a \in Seq(Waiters), NEW b \in Seq(Waiters)
    PROVE  /\ a \o b \in Seq(Waiters)
           /\ Len(a \o b) = Len(a) + Len(b)
           /\ Len(a) > 0 => (a \o b)[1] = a[1]
  <1>1. a \o b \in Seq(Waiters) /\ Len(a \o b) = Len(a) + Len(b)
    OBVIOUS
  <1>2. Len(a) > 0 => (a \o b)[1] = a[1]
    OBVIOUS
  <1> QED
    BY <1>1, <1>2

LEMMA RemoveFromLine ==
    ASSUME line \in Seq(Waiters), Len(line) <= MaxLine, NEW i \in 1 .. Len(line)
    PROVE  /\ RemoveAt(line, i) \in Seq(Waiters)
           /\ Len(RemoveAt(line, i)) <= MaxLine
           /\ i # 1 => RemoveAt(line, i) # <<>> /\ Head(RemoveAt(line, i)) = Head(line)
  <1> DEFINE before == SubSeq(line, 1, i - 1)
             after  == SubSeq(line, i + 1, Len(line))
  <1>1. before \in Seq(Waiters) /\ Len(before) = i - 1
    OBVIOUS
  <1>2. after \in Seq(Waiters) /\ Len(after) = Len(line) - i
    OBVIOUS
  <1>3. i # 1 => before[1] = line[1]
    OBVIOUS
  <1>4. RemoveAt(line, i) = before \o after
    BY DEF RemoveAt
  <1> HIDE DEF before, after
  <1>5. /\ before \o after \in Seq(Waiters)
        /\ Len(before \o after) = Len(before) + Len(after)
        /\ Len(before) > 0 => (before \o after)[1] = before[1]
    <2>1. before \in Seq(Waiters) /\ after \in Seq(Waiters)
      BY <1>1, <1>2, Zenon
    <2> QED
      BY <2>1, Joined
  <1>6. i # 1 => Len(before) > 0
    BY <1>1
  <1>7. Len(line) \in Nat /\ MaxLine \in Nat
    BY CoordinatorAssumption
  <1>8. RemoveAt(line, i) \in Seq(Waiters) /\ Len(RemoveAt(line, i)) = Len(line) - 1
    BY <1>1, <1>2, <1>4, <1>5, <1>7
  <1>9. Len(RemoveAt(line, i)) <= MaxLine
    BY <1>7, <1>8
  <1>10. i # 1 => Len(RemoveAt(line, i)) > 0 /\ RemoveAt(line, i)[1] = line[1]
    <2>1. i # 1 => Len(line) - 1 > 0
      BY <1>7
    <2>2. i # 1 => RemoveAt(line, i)[1] = line[1]
      BY <1>3, <1>4, <1>5, <1>6, Zenon
    <2> QED
      BY <1>8, <2>1, <2>2
  <1>11. ASSUME NEW s \in Seq(Waiters), Len(s) > 0 PROVE s # <<>> /\ Head(s) = s[1]
    BY <1>11
  <1> QED
    BY <1>7, <1>8, <1>9, <1>10, <1>11

-----------------------------------------------------------------------------
(* Type correctness. *)

LEMMA SignalType ==
    ASSUME CoordinatorTypeOK, Signal
    PROVE  signals' \in 0 .. MaxSignals /\ requests' \in 0 .. MaxRequests
  BY CoordinatorAssumption DEF Signal, CoordinatorTypeOK

\* One task goes on: what its record may become.
LEMMA TaskMoves ==
    ASSUME NEW tasks \in [Ids -> Task], NEW t \in Ids, NEW where \in Stages
    PROVE  [tasks EXCEPT ![t].at = where] \in [Ids -> Task]
  <1>1. [tasks[t] EXCEPT !.at = where] \in Task
    BY DEF Task
  <1> QED
    BY <1>1

LEMMA MethodsType ==
    ASSUME CoordinatorTypeOK, Methods \/ UserNotifies
    PROVE  CoordinatorTypeOK'
  <1>1. task \in [Ids -> Task] /\ timer \in Ids \cup {NoTask} /\ NoTask \in Ids \cup {NoTask}
    BY DEF CoordinatorTypeOK
  <1>2. 0 \in 0 .. Backoff /\ Backoff \in 0 .. Backoff
    BY CoordinatorAssumption
  <1>3. CASE Start
    <2>1. /\ task' \in [Ids -> Task]
          /\ timer' \in Ids \cup {NoTask}
          /\ nextDelay' \in 0 .. Backoff
      BY <1>1, <1>2, <1>3, ScheduleNextSleeps DEF Start
    <2> QED
      BY <1>3, <2>1 DEF Start, CoordinatorTypeOK, gate, host, bounds, history
  <1>4. CASE Wake
    <2>1. task' \in [Ids -> Task] /\ timer' \in Ids \cup {NoTask}
      BY <1>1, <1>4, ClearedKeeps, SpawnSleeps DEF Wake
    <2>2. signals' \in 0 .. MaxSignals /\ requests' \in 0 .. MaxRequests
      BY <1>4, SignalType DEF Wake
    <2> QED
      BY <1>2, <1>4, <2>1, <2>2 DEF Wake, CoordinatorTypeOK, gate, host
  <1>5. CASE CancelPending
    <2>1. task' \in [Ids -> Task]
      BY <1>1, <1>5, KeepsOutdated DEF CancelPending
    <2>2. signals' \in 0 .. MaxSignals /\ requests' \in 0 .. MaxRequests
      BY <1>5, SignalType DEF CancelPending
    <2> QED
      BY <1>1, <1>2, <1>5, <2>1, <2>2 DEF CancelPending, CoordinatorTypeOK, gate, host
  <1>6. CASE Stop
    <2>1. task' \in [Ids -> Task]
      BY <1>1, <1>6, KeepsOutdated DEF Stop
    <2> QED
      BY <1>1, <1>6, <2>1 DEF Stop, CoordinatorTypeOK, gate, bounds
  <1>7. CASE UserNotifies
    <2>1. /\ task' \in [Ids -> Task]
          /\ timer' \in Ids \cup {NoTask}
          /\ nextDelay' \in 0 .. Backoff
      <3>1. HandleSettingsChange
        BY <1>7 DEF UserNotifies
      <3>2. CASE last = desired
        BY <1>1, <3>1, <3>2 DEF HandleSettingsChange, CoordinatorTypeOK
      <3>3. CASE last # desired /\ running
        BY <1>1, <1>2, <3>1, <3>3, KeepsOutdated DEF HandleSettingsChange
      <3>4. CASE last # desired /\ ~running
        BY <1>1, <1>2, <3>1, <3>4, KeepsOutdated, ScheduleNextSleeps
           DEF HandleSettingsChange
      <3> QED
        BY <3>2, <3>3, <3>4
    <2>2. /\ started' \in BOOLEAN /\ running' \in BOOLEAN /\ wakePending' \in BOOLEAN
          /\ open' \in BOOLEAN /\ quiet' \in BOOLEAN /\ due' \in BOOLEAN
          /\ last' \in (SUBSET Modes) \cup {Untold}
      BY <1>7, Zenon DEF UserNotifies, HandleSettingsChange, CoordinatorTypeOK
    <2> QED
      BY <1>7, <2>1, <2>2 DEF UserNotifies, CoordinatorTypeOK, host, bounds
  <1> QED
    BY <1>3, <1>4, <1>5, <1>6, <1>7 DEF Methods

LEMMA AdvanceType ==
    ASSUME CoordinatorTypeOK, NEW t \in Ids, Advance(t)
    PROVE  task' \in [Ids -> Task]
  <1>1. task[t].step \in 1 .. 4 /\ task \in [Ids -> Task]
    BY OrderType DEF CoordinatorTypeOK, Task
  <1>2. (IF task[t].step < Len(Order) THEN task[t].step + 1 ELSE task[t].step) \in 1 .. Len(Order)
    BY <1>1, OrderType
  <1>3. on' \cap {Core} \in SUBSET {Core, "tun"} /\ on' \cap {Core, "tun"} \in SUBSET {Core, "tun"}
    OBVIOUS
  <1>4. {"step", "select", "finish"} \subseteq Stages
    BY DEF Stages
  <1>5. ASSUME NEW seen \in SUBSET {Core, "tun"}, NEW step \in 1 .. Len(Order), NEW at \in Stages
        PROVE  [task EXCEPT ![t].seen = seen, ![t].step = step, ![t].at = at] \in [Ids -> Task]
    <2>1. [task[t] EXCEPT !.seen = seen, !.step = step, !.at = at] \in Task
      BY <1>1 DEF Task
    <2>2. [task EXCEPT ![t].seen = seen, ![t].step = step, ![t].at = at]
            = [task EXCEPT ![t] = [task[t] EXCEPT !.seen = seen, !.step = step, !.at = at]]
      BY <1>1
    <2> QED
      BY <1>1, <2>1, <2>2
  <1> DEFINE seen == IF task[t].step < 3 THEN on' \cap {Core} ELSE on' \cap {Core, "tun"}
             step == IF task[t].step < Len(Order) THEN task[t].step + 1 ELSE task[t].step
             at   == IF task[t].step < Len(Order) THEN "step"
                     ELSE IF Core \in seen THEN "select" ELSE "finish"
  <1>6. seen \in SUBSET {Core, "tun"} /\ step \in 1 .. Len(Order) /\ at \in Stages
    BY <1>2, <1>3, <1>4
  <1>7. task' = [task EXCEPT ![t].seen = seen, ![t].step = step, ![t].at = at]
    BY DEF Advance
  <1> QED
    BY <1>5, <1>6, <1>7

LEMMA StepLeavesType ==
    ASSUME CoordinatorTypeOK, NEW t \in Ids, NEW now \in StepLeaves(t)
    PROVE  now \subseteq {Core, "proxy", "tun"}
  <1>1. Order[task[t].step] \in {Core, "proxy", "tun"}
    BY OrderType DEF CoordinatorTypeOK, Task
  <1> QED
    BY <1>1 DEF StepLeaves, BringsUp, CoordinatorTypeOK

LEMMA AttemptType ==
    ASSUME CoordinatorTypeOK, NEW t \in Ids, Fires(t) \/ Attempt(t)
    PROVE  CoordinatorTypeOK'
  <1>1. task \in [Ids -> Task] /\ timer \in Ids \cup {NoTask} /\ NoTask \in Ids \cup {NoTask}
    BY DEF CoordinatorTypeOK
  <1> USE DEF coordinator, gate, host, bounds, history
  <1>2. CASE Fires(t)
    <2>1. task' \in [Ids -> Task]
      BY <1>1, <1>2, TaskMoves DEF Fires, Goes, Stages
    <2> QED
      BY <1>2, <2>1 DEF Fires, CoordinatorTypeOK
  <1>3. CASE Forgets(t)
    <2>1. task' \in [Ids -> Task]
      BY <1>1, <1>3, TaskMoves DEF Forgets, Goes, Stages
    <2> QED
      BY <1>1, <1>3, <2>1 DEF Forgets, CoordinatorTypeOK
  <1>4. CASE Tick(t)
    <2>1. task' \in [Ids -> Task]
      <3>1. CASE task' = [task EXCEPT ![t] = Free]
        BY <1>1, <3>1, FreeType
      <3>2. CASE Goes(t, "read")
        BY <1>1, <3>2, TaskMoves DEF Goes, Stages
      <3> QED
        BY <1>4, <3>1, <3>2 DEF Tick
    <2>2. running' \in BOOLEAN
      BY <1>4 DEF Tick, CoordinatorTypeOK
    <2> QED
      BY <1>4, <2>1, <2>2 DEF Tick, CoordinatorTypeOK
  <1>5. CASE ReadsFlags(t)
    <2>1. desired \in SUBSET Modes /\ "note" \in Stages
      BY DEF CoordinatorTypeOK, Stages
    <2>2. task' \in [Ids -> Task]
      <3>1. [task[t] EXCEPT !.at = "note", !.flags = desired] \in Task
        BY <1>1, <2>1 DEF Task
      <3>2. task' = [task EXCEPT ![t] = [task[t] EXCEPT !.at = "note", !.flags = desired]]
        BY <1>1, <1>5 DEF ReadsFlags
      <3> QED
        BY <1>1, <3>1, <3>2
    <2>3. due' \in BOOLEAN
      BY <1>5, Zenon DEF ReadsFlags, CoordinatorTypeOK
    <2> QED
      BY <1>5, <2>2, <2>3 DEF ReadsFlags, CoordinatorTypeOK
  <1>6. CASE NotesFlags(t)
    <2>1. /\ (IF task[t].current THEN "step" ELSE "exit") \in Stages
          /\ (task[t].current /\ task[t].flags # desired) \in BOOLEAN
      BY DEF Stages
    <2>2. task' \in [Ids -> Task]
      <3>1. ASSUME NEW at \in Stages, NEW late \in BOOLEAN
            PROVE  [task EXCEPT ![t].at = at, ![t].late = late] \in [Ids -> Task]
        BY <1>1 DEF Task
      <3> QED
        BY <1>6, <2>1, <3>1 DEF NotesFlags
    <2>3. last' \in SUBSET Modes
      BY <1>1, <1>6 DEF NotesFlags, Task
    <2> QED
      BY <1>6, <2>2, <2>3 DEF NotesFlags, CoordinatorTypeOK
  <1>7. CASE StepSkips(t)
    BY <1>7, AdvanceType DEF StepSkips, CoordinatorTypeOK
  <1>8. CASE StepQueues(t)
    <2>1. task' \in [Ids -> Task]
      BY <1>1, <1>8, TaskMoves DEF StepQueues, Goes, Stages
    <2>2. line' \in Seq(Waiters) /\ Len(line') <= MaxLine
      BY <1>8, AppendToLine, WaitersType DEF StepQueues, CoordinatorTypeOK
    <2> QED
      BY <1>8, <2>1, <2>2 DEF StepQueues, CoordinatorTypeOK
  <1>9. CASE StepActs(t)
    <2>1. task' \in [Ids -> Task]
      BY <1>9, AdvanceType DEF StepActs
    <2>2. line' \in Seq(Waiters) /\ Len(line') <= MaxLine
      BY <1>9, TailOfLine DEF StepActs, Holds, CoordinatorTypeOK
    <2>3. on' \subseteq {Core, "proxy", "tun"}
      BY <1>9, StepLeavesType DEF StepActs, CoordinatorTypeOK
    <2> QED
      BY <1>9, <2>1, <2>2, <2>3 DEF StepActs, CoordinatorTypeOK
  <1>10. CASE Selects(t)
    <2>1. task' \in [Ids -> Task]
      BY <1>1, <1>10, TaskMoves DEF Selects, Goes, Stages
    <2> QED
      BY <1>10, <2>1 DEF Selects, CoordinatorTypeOK
  <1>11. CASE Finishes(t)
    <2>1. [task EXCEPT ![t].at = "exit"] \in [Ids -> Task]
      BY <1>1, TaskMoves DEF Stages
    <2>2. [Cleared EXCEPT ![t].at = "exit"] \in [Ids -> Task]
      <3>1. Cleared \in [Ids -> Task] /\ "exit" \in Stages
        BY <1>1, ClearedKeeps DEF Stages
      <3> QED
        BY <3>1, TaskMoves
    <2>3. /\ task' \in [Ids -> Task]
          /\ timer' \in Ids \cup {NoTask}
          /\ nextDelay' \in 0 .. Backoff
      BY <1>1, <1>11, <2>1, <2>2, ScheduleNextSleeps DEF Finishes, CoordinatorTypeOK
    <2> QED
      BY <1>11, <2>3 DEF Finishes, CoordinatorTypeOK
  <1>12. CASE Exits(t)
    <2>1. [task EXCEPT ![t] = Free] \in [Ids -> Task]
      BY <1>1, FreeType
    <2>2. [Cleared EXCEPT ![t] = Free] \in [Ids -> Task]
      BY <1>1, ClearedKeeps, FreeType
    <2>3. task' \in [Ids -> Task] /\ timer' \in Ids \cup {NoTask}
      BY <1>1, <1>12, <2>1, <2>2, SpawnSleeps DEF Exits
    <2>4. wakePending' \in BOOLEAN /\ due' \in BOOLEAN
      BY <1>12, Zenon DEF Exits, CoordinatorTypeOK
    <2> QED
      BY <1>12, <2>3, <2>4 DEF Exits, CoordinatorTypeOK
  <1>13. CASE Dropped(t)
    <2>1. task' \in [Ids -> Task]
      BY <1>1, <1>13, FreeType DEF Dropped
    <2>2. line' \in Seq(Waiters) /\ Len(line') <= MaxLine
      BY <1>13, RemoveFromLine DEF Dropped, CoordinatorTypeOK
    <2>3. on' \subseteq {Core, "proxy", "tun"}
      BY <1>13, StepLeavesType DEF Dropped, CoordinatorTypeOK
    <2> QED
      BY <1>13, <2>1, <2>2, <2>3 DEF Dropped, CoordinatorTypeOK
  <1> QED
    BY <1>2, <1>3, <1>4, <1>5, <1>6, <1>7, <1>8, <1>9, <1>10, <1>11, <1>12, <1>13
       DEF Attempt

LEMMA OthersType ==
    ASSUME CoordinatorTypeOK, GateMoves \/ Asks \/ World, ~UserNotifies
    PROVE  CoordinatorTypeOK'
  <1> USE DEF coordinator, gate, host, bounds, history
  <1>1. ASSUME line # <<>>, Leaves
        PROVE  /\ line' \in Seq(Waiters) /\ Len(line') <= MaxLine
               /\ stage' \in {"asked", "written", "told"}
    BY <1>1, TailOfLine DEF Leaves, CoordinatorTypeOK
  <1>2. CASE UserRefused
    BY <1>1, <1>2 DEF UserRefused, UserHolds, CoordinatorTypeOK
  <1>3. CASE UserWrites
    <2>1. desired' \subseteq Modes
      BY <1>3 DEF UserWrites, UserHolds, CoordinatorTypeOK
    <2>2. on' \subseteq {Core, "proxy", "tun"}
      BY <1>3 DEF UserWrites, CoordinatorTypeOK
    <2> QED
      BY <1>3, <2>1, <2>2 DEF UserWrites, CoordinatorTypeOK
  <1>4. CASE UserActs
    <2>1. on' \subseteq {Core, "proxy", "tun"}
      <3>1. Request.mode \in {"proxy", "tun"}
        BY <1>4, ModesAssumption DEF UserActs, UserHolds
      <3>2. ASSUME NEW mode \in {"proxy", "tun"}, NEW now \in BringsUp(mode) \cup {on, on \ {mode}}
            PROVE  now \subseteq {Core, "proxy", "tun"}
        BY <3>2 DEF BringsUp, CoordinatorTypeOK
      <3>3. on' \in BringsUp(Request.mode) \cup {on, on \ {Request.mode}}
        BY <1>4 DEF UserActs
      <3> QED
        BY <3>1, <3>2, <3>3
    <2> QED
      BY <1>1, <1>4, <2>1 DEF UserActs, UserHolds, CoordinatorTypeOK
  <1>5. CASE OtherActs
    <2>1. on' \subseteq {Core, "proxy", "tun"}
      BY <1>5 DEF OtherActs, CoordinatorTypeOK
    <2> QED
      BY <1>1, <1>5, <2>1 DEF OtherActs, Holds, CoordinatorTypeOK
  <1>6. CASE OtherAsks
    <2>1. line' \in Seq(Waiters) /\ Len(line') <= MaxLine
      BY <1>6, AppendToLine, WaitersType DEF OtherAsks, CoordinatorTypeOK
    <2> QED
      BY <1>6, <2>1 DEF OtherAsks, CoordinatorTypeOK
  <1>7. ASSUME NEW mode \in Modes, NEW want \in BOOLEAN, UserAsks(mode, want)
        PROVE  CoordinatorTypeOK'
    <2>1. line' \in Seq(Waiters) /\ Len(line') <= MaxLine
      BY <1>7, AppendToLine, WaitersType DEF UserAsks, CoordinatorTypeOK
    <2>2. requests' \in 0 .. MaxRequests
      BY <1>7, CoordinatorAssumption DEF UserAsks, CoordinatorTypeOK
    <2> QED
      BY <1>7, <2>1, <2>2 DEF UserAsks, CoordinatorTypeOK
  <1>8. CASE World
    <2>1. CASE WindowCloses
      BY <2>1 DEF WindowCloses, CoordinatorTypeOK
    <2>2. CASE Quit
      BY <2>2 DEF Quit, CoordinatorTypeOK
    <2>3. CASE QuitCancelled
      BY <2>3 DEF QuitCancelled, CoordinatorTypeOK
    <2>4. ASSUME NEW lost, ModeFails(lost) PROVE CoordinatorTypeOK'
      BY <2>4 DEF ModeFails, CoordinatorTypeOK
    <2> QED
      BY <1>8, <2>1, <2>2, <2>3, <2>4 DEF World
  <1> QED
    BY <1>2, <1>3, <1>4, <1>5, <1>6, <1>7, <1>8 DEF GateMoves, Asks

LEMMA TypeStep == ASSUME CoordinatorTypeOK, [Next]_vars PROVE CoordinatorTypeOK'
  <1>1. CASE UNCHANGED vars
    BY <1>1 DEF vars, coordinator, gate, host, bounds, history, CoordinatorTypeOK
  <1>2. CASE Next
    BY <1>2, MethodsType, AttemptType, OthersType DEF Next, GateMoves
  <1> QED
    BY <1>1, <1>2

-----------------------------------------------------------------------------
(* Safety of the coordinator's methods. *)

\* No attempt begins, and one in progress stays what it was.
Follows ==
    \A t \in Ids :
        /\ Attempting(t)' => Attempting(t)
        /\ Noted(t)' => /\ Noted(t)
                        /\ task'[t].at \in {task[t].at, "exit"}
                        /\ task'[t].flags = task[t].flags
                        /\ task'[t].late = task[t].late
                        /\ task'[t].current => task[t].current

\* No task becomes current.
NoneCurrent ==
    \A t \in Ids : task'[t].at # "free" /\ task'[t].current
                     => task[t].at # "free" /\ task[t].current

LEMMA KeepsFollows ==
    ASSUME NEW tasks, Keeps(task, tasks), Sleeps(tasks, task')
    PROVE  Follows
  <1> SUFFICES ASSUME NEW t \in Ids
               PROVE  /\ Attempting(t)' => Attempting(t)
                      /\ Noted(t)' => /\ Noted(t)
                                      /\ task'[t].at \in {task[t].at, "exit"}
                                      /\ task'[t].flags = task[t].flags
                                      /\ task'[t].late = task[t].late
                                      /\ task'[t].current => task[t].current
    BY DEF Follows
  <1>1. CASE task'[t] = Asleep
    <2>1. task'[t].at = "sleeping"
      BY <1>1 DEF Asleep, Free
    <2> QED
      BY <2>1 DEF Attempting, Noted
  <1>2. CASE task'[t] = tasks[t]
    <2>1. CASE tasks[t].at = "free"
      BY <1>2, <2>1 DEF Attempting, Noted
    <2>2. CASE tasks[t].at # "free"
      BY <1>2, <2>2 DEF Attempting, Noted, Keeps
    <2> QED
      BY <2>1, <2>2
  <1> QED
    BY <1>1, <1>2 DEF Sleeps

LEMMA KeepsNoneCurrent ==
    ASSUME NEW tasks, Keeps(task, tasks), task' = tasks
    PROVE  NoneCurrent
  BY DEF Keeps, NoneCurrent

LEMMA FollowsSafe ==
    ASSUME Inv, Follows, running' = running \/ \A t \in Ids : ~Attempting(t)'
    PROVE  OneAttempt' /\ RunningAttempt'
  BY DEF Inv, Follows, OneAttempt, RunningAttempt

LEMMA FollowsNoted ==
    ASSUME Inv, Follows, last' = last,
           desired' = desired \/ stage' = "written",
           stage' = stage \/ (stage # "written")
    PROVE  NotedIntent'
  BY DEF Inv, Follows, NotedIntent

LEMMA QuietKept ==
    ASSUME Inv, NoneCurrent, quiet' = quiet
    PROVE  CancelledStaysQuiet'
  BY DEF Inv, NoneCurrent, CancelledStaysQuiet

LEMMA MethodsSafe ==
    ASSUME Inv, Methods \/ UserNotifies
    PROVE  /\ OneAttempt' /\ RunningAttempt' /\ CancelledStaysQuiet'
           /\ QuietCoordinator' /\ UserInLine' /\ NotedIntent'
           /\ Follows
  <1>1. task \in [Ids -> Task] /\ timer \in Ids \cup {NoTask} /\ NoTask \in Ids \cup {NoTask}
    BY DEF Inv, CoordinatorTypeOK
  <1>2. 0 \in 0 .. Backoff
    BY CoordinatorAssumption
  <1>3. \A tasks : Sleeps(tasks, tasks)
    BY DEF Sleeps
  <1>4. Keeps(task, task)
    BY DEF Keeps
  <1> USE DEF gate, host, bounds, history
  <1>5. CASE Start
    <2>1. Sleeps(task, task')
      BY <1>1, <1>2, <1>5, ScheduleNextSleeps DEF Start
    <2>2. ~quiet /\ ~quiet'
      BY <1>5 DEF Start, Inv, QuietCoordinator, suspended
    <2>3. Follows
      BY <1>4, <2>1, KeepsFollows
    <2> QED
      BY <1>5, <2>2, <2>3, FollowsSafe, FollowsNoted
         DEF Start, CancelledStaysQuiet, QuietCoordinator, UserInLine, Inv
  <1>6. CASE Wake
    <2>1. Follows
      <3>1. CASE UNCHANGED task
        BY <1>3, <1>4, <3>1, KeepsFollows
      <3>2. CASE Spawn(Cleared)
        BY <1>1, <3>2, ClearedKeeps, SpawnSleeps, KeepsFollows
      <3> QED
        BY <1>6, <3>1, <3>2 DEF Wake
    <2> QED
      BY <1>6, <2>1, FollowsSafe, FollowsNoted
         DEF Wake, CancelledStaysQuiet, QuietCoordinator, UserInLine, Inv
  <1>7. CASE CancelPending \/ Stop
    <2>1. Follows /\ NoneCurrent /\ AllOutdated(task')
      BY <1>1, <1>3, <1>7, KeepsOutdated, KeepsFollows, KeepsNoneCurrent
         DEF CancelPending, Stop
    <2>2. CancelledStaysQuiet' /\ QuietCoordinator'
      BY <1>7, <2>1 DEF CancelPending, Stop, AllOutdated, CancelledStaysQuiet,
                        QuietCoordinator
    <2> QED
      BY <1>7, <2>1, <2>2, FollowsSafe, FollowsNoted
         DEF CancelPending, Stop, UserInLine, Inv
  <1>8. CASE UserNotifies
    <2>1. HandleSettingsChange /\ stage = "written" /\ stage' = "told" /\ UNCHANGED <<line, desired, quitting>>
      BY <1>8 DEF UserNotifies, UserHolds
    <2>2. UserInLine'
      BY <2>1 DEF UserInLine, Inv
    <2>3. CASE last = desired
      <3>1. UNCHANGED <<started, running, wakePending, last, task, quiet>>
        BY <2>1, <2>3 DEF HandleSettingsChange
      <3>2. Follows /\ NoneCurrent
        BY <1>3, <1>4, <3>1, KeepsFollows, KeepsNoneCurrent
      <3>3. NotedIntent'
        BY <2>1, <2>3, <3>1 DEF NotedIntent, Noted, Inv
      <3> QED
        BY <2>1, <2>2, <3>1, <3>2, <3>3, FollowsSafe, QuietKept DEF QuietCoordinator, Inv
    <2>4. CASE last # desired
      <3>1. ~quiet' /\ running' = running
        BY <2>1, <2>4 DEF HandleSettingsChange
      <3>2. Sleeps(Outdated(Cleared), task')
        BY <1>1, <1>2, <1>3, <2>1, <2>4, KeepsOutdated, ScheduleNextSleeps
           DEF HandleSettingsChange
      <3>3. Follows
        BY <1>1, <3>2, KeepsOutdated, KeepsFollows
      <3>4. \A t \in Ids : Noted(t)' => ~task'[t].current
        <4>1. Asleep.at = "sleeping"
          BY DEF Asleep, Free
        <4>2. \A t \in Ids : ~Outdated(Cleared)[t].current
          BY <1>1, KeepsOutdated DEF AllOutdated
        <4> QED
          BY <3>2, <4>1, <4>2 DEF Sleeps, Noted
      <3> QED
        BY <2>2, <3>1, <3>3, <3>4, FollowsSafe
           DEF CancelledStaysQuiet, QuietCoordinator, NotedIntent
    <2> QED
      BY <2>3, <2>4
  <1> QED
    BY <1>5, <1>6, <1>7, <1>8 DEF Methods

-----------------------------------------------------------------------------
(* Safety of the tasks. *)

\* A step of a task that leaves the coordinator's flags and the line alone.
LEMMA MoveSafe ==
    ASSUME Inv, CoordinatorTypeOK', NEW t \in Ids, At(t, "free") => UNCHANGED task,
           \A s \in Ids \ {t} : task'[s] = task[s],
           task'[t].at = "free" \/ task'[t].current = task[t].current,
           Attempting(t)' => Attempting(t) \/ (~running /\ running'),
           running => running',
           UNCHANGED <<started, wakePending, quiet, quitting>>
    PROVE  OneAttempt' /\ RunningAttempt' /\ CancelledStaysQuiet' /\ QuietCoordinator'
  <1>1. \A s \in Ids \ {t} : Attempting(s)' <=> Attempting(s)
    BY DEF Attempting
  <1>2. OneAttempt'
    BY <1>1 DEF OneAttempt, RunningAttempt, Inv
  <1>3. RunningAttempt'
    BY <1>1 DEF RunningAttempt, Inv
  <1>4. NoneCurrent
    BY DEF NoneCurrent, At
  <1> QED
    BY <1>2, <1>3, <1>4, QuietKept DEF QuietCoordinator, Inv

\* A step of an attempt that has noted the intent.
LEMMA MoveNoted ==
    ASSUME Inv, NEW t \in Ids,
           \A s \in Ids \ {t} : task'[s] = task[s],
           Noted(t)' => /\ Noted(t)
                        /\ task'[t].flags = task[t].flags
                        /\ task'[t].late = task[t].late
                        /\ task'[t].current = task[t].current,
           UNCHANGED <<last, desired, stage>>
    PROVE  NotedIntent'
  BY DEF Inv, NotedIntent, Noted

LEMMA AdvanceMoves ==
    ASSUME CoordinatorTypeOK, NEW t \in Ids, Advance(t)
    PROVE  /\ \A s \in Ids \ {t} : task'[s] = task[s]
           /\ task'[t].at \in {"step", "select", "finish"}
           /\ task'[t].flags = task[t].flags
           /\ task'[t].late = task[t].late
           /\ task'[t].current = task[t].current
  <1>1. task \in [Ids -> Task]
    BY DEF CoordinatorTypeOK
  <1> DEFINE seen == IF task[t].step < 3 THEN on' \cap {Core} ELSE on' \cap {Core, "tun"}
             step == IF task[t].step < Len(Order) THEN task[t].step + 1 ELSE task[t].step
             at   == IF task[t].step < Len(Order) THEN "step"
                     ELSE IF Core \in seen THEN "select" ELSE "finish"
  <1>2. task' = [task EXCEPT ![t].seen = seen, ![t].step = step, ![t].at = at]
    BY DEF Advance
  <1>3. at \in {"step", "select", "finish"}
    OBVIOUS
  <1> HIDE DEF seen, step, at
  <1> QED
    BY <1>1, <1>2, <1>3 DEF Task

LEMMA GoesMoves ==
    ASSUME CoordinatorTypeOK, NEW t \in Ids, NEW where, Goes(t, where)
    PROVE  /\ \A s \in Ids \ {t} : task'[s] = task[s]
           /\ task'[t].at = where
           /\ task'[t].flags = task[t].flags
           /\ task'[t].late = task[t].late
           /\ task'[t].current = task[t].current
  BY DEF Goes, CoordinatorTypeOK, Task

\* Nobody's request holds the gate while another one does.
LEMMA GateOwner ==
    ASSUME Inv
    PROVE  /\ \A t \in Ids : Holds(Retry(t)) => stage = "asked"
           /\ Holds(Other) => stage = "asked"
  <1>1. Other.mode \notin Modes /\ \A t \in Ids : Retry(t).mode \notin Modes
    BY ModesAssumption DEF Other, Retry
  <1> QED
    BY <1>1 DEF Inv, UserInLine, Holds

LEMMA AttemptSafe ==
    ASSUME Inv, CoordinatorTypeOK', NEW t \in Ids, Fires(t) \/ Attempt(t)
    PROVE  /\ OneAttempt' /\ RunningAttempt' /\ CancelledStaysQuiet'
           /\ QuietCoordinator' /\ UserInLine' /\ NotedIntent'
  <1>1. CoordinatorTypeOK /\ UserInLine
    BY DEF Inv
  <1>2. task \in [Ids -> Task] /\ timer \in Ids \cup {NoTask} /\ NoTask \in Ids \cup {NoTask}
    BY <1>1 DEF CoordinatorTypeOK
  <1>3. Free.at = "free" /\ Asleep.at = "sleeping"
    BY DEF Free, Asleep
  <1> USE DEF coordinator, gate, host, bounds, history
  <1>4. CASE Fires(t) \/ Forgets(t)
    <2>1. /\ \A s \in Ids \ {t} : task'[s] = task[s]
          /\ task'[t].at \in {"fired", "ready"}
          /\ task'[t].current = task[t].current
          /\ task[t].at \in {"sleeping", "fired"}
      BY <1>1, <1>4, GoesMoves DEF Fires, Forgets, At
    <2>2. UNCHANGED <<started, running, wakePending, last, line, stage, desired, quitting, quiet>>
      BY <1>4 DEF Fires, Forgets
    <2>3. ~Attempting(t)' /\ ~Noted(t)'
      BY <2>1 DEF Attempting, Noted
    <2> QED
      BY <1>1, <2>1, <2>2, <2>3, MoveSafe, MoveNoted DEF UserInLine, At
  <1>5. CASE Tick(t)
    <2>1. UNCHANGED <<started, wakePending, last, line, stage, desired, quitting, quiet>>
      BY <1>5 DEF Tick
    <2>2. task[t].at = "ready"
      BY <1>5 DEF Tick, At
    <2>3. CASE task' = [task EXCEPT ![t] = Free] /\ UNCHANGED running
      <3>1. (\A s \in Ids \ {t} : task'[s] = task[s]) /\ task'[t].at = "free"
        BY <1>2, <1>3, <2>3
      <3>2. ~Attempting(t)' /\ ~Noted(t)'
        BY <3>1 DEF Attempting, Noted
      <3> QED
        BY <1>1, <2>1, <2>2, <2>3, <3>1, <3>2, MoveSafe, MoveNoted DEF UserInLine, At
    <2>4. CASE Goes(t, "read") /\ ~running /\ running'
      <3>1. /\ \A s \in Ids \ {t} : task'[s] = task[s]
            /\ task'[t].at = "read"
            /\ task'[t].current = task[t].current
        BY <1>1, <2>4, GoesMoves
      <3>2. ~Noted(t)'
        BY <3>1 DEF Noted
      <3> QED
        BY <1>1, <2>1, <2>2, <2>4, <3>1, <3>2, MoveSafe, MoveNoted DEF UserInLine, At
    <2> QED
      BY <1>5, <2>3, <2>4 DEF Tick
  <1>6. CASE ReadsFlags(t)
    <2>1. /\ \A s \in Ids \ {t} : task'[s] = task[s]
          /\ task'[t].at = "note"
          /\ task'[t].current = task[t].current
      BY <1>2, <1>6 DEF ReadsFlags, Task
    <2>2. task[t].at = "read"
      BY <1>6 DEF ReadsFlags, At
    <2>3. Attempting(t) /\ ~Noted(t)'
      BY <2>1, <2>2 DEF Attempting, Noted
    <2> QED
      BY <1>1, <1>6, <2>1, <2>2, <2>3, MoveSafe, MoveNoted DEF ReadsFlags, UserInLine, At
  <1>7. CASE NotesFlags(t)
    <2>1. /\ \A s \in Ids \ {t} : task'[s] = task[s]
          /\ task'[t].current = task[t].current
          /\ task'[t].flags = task[t].flags
          /\ task'[t].late = (task[t].current /\ task[t].flags # desired)
          /\ task'[t].at = IF task[t].current THEN "step" ELSE "exit"
      BY <1>2, <1>7 DEF NotesFlags, Task
    <2>2. task[t].at = "note" /\ Attempting(t)
      BY <1>7 DEF NotesFlags, At, Attempting
    <2>3. \A s \in Ids \ {t} : ~Attempting(s)
      BY <2>2 DEF Inv, OneAttempt
    <2>4. \A s \in Ids \ {t} : ~Noted(s)'
      BY <2>1, <2>3 DEF Attempting, Noted
    <2>5. last' = task[t].flags /\ desired' = desired /\ stage' = stage
      BY <1>7 DEF NotesFlags
    <2>6. task'[t].current => task'[t].late \/ task'[t].flags = desired
      BY <2>1
    <2>7. NotedIntent'
      BY <2>1, <2>4, <2>5, <2>6 DEF NotedIntent
    <2> QED
      BY <1>1, <1>7, <2>1, <2>2, <2>7, MoveSafe DEF NotesFlags, UserInLine, At
  <1>8. CASE StepSkips(t) \/ StepActs(t)
    <2>1. Advance(t) /\ task[t].at \in {"step", "line"}
      <3>1. CASE StepSkips(t)
        BY <3>1 DEF StepSkips, At
      <3>2. CASE StepActs(t)
        BY <3>2 DEF StepActs, At
      <3> QED
        BY <1>8, <3>1, <3>2
    <2>2. /\ \A s \in Ids \ {t} : task'[s] = task[s]
          /\ task'[t].at \in {"step", "select", "finish"}
          /\ task'[t].flags = task[t].flags
          /\ task'[t].late = task[t].late
          /\ task'[t].current = task[t].current
      BY <1>1, <2>1, AdvanceMoves
    <2>3. Attempting(t) /\ Noted(t)
      BY <2>1 DEF Attempting, Noted
    <2>4. UNCHANGED <<started, running, wakePending, last, stage, desired, quitting, quiet>>
      BY <1>8 DEF StepSkips, StepActs
    <2>5. UserInLine'
      BY <1>1, <1>8, <2>4, GateOwner DEF StepSkips, StepActs, UserInLine
    <2> QED
      BY <2>1, <2>2, <2>3, <2>4, <2>5, MoveSafe, MoveNoted DEF At
  <1>9. CASE StepQueues(t) \/ Selects(t)
    <2>1. \E where \in {"line", "finish"} : Goes(t, where)
      BY <1>9 DEF StepQueues, Selects
    <2>2. /\ \A s \in Ids \ {t} : task'[s] = task[s]
          /\ task'[t].flags = task[t].flags
          /\ task'[t].late = task[t].late
          /\ task'[t].current = task[t].current
      BY <1>1, <2>1, GoesMoves
    <2>3. task[t].at \in {"step", "select"} /\ Attempting(t) /\ Noted(t)
      BY <1>9 DEF StepQueues, Selects, At, Attempting, Noted
    <2>4. UNCHANGED <<started, running, wakePending, last, stage, desired, quitting, quiet>>
      BY <1>9 DEF StepQueues, Selects
    <2>5. UserInLine'
      <3>1. CASE StepQueues(t)
        BY <1>1, <3>1, AppendToLine, WaitersType DEF StepQueues, UserInLine, CoordinatorTypeOK
      <3>2. CASE Selects(t)
        BY <1>1, <3>2 DEF Selects, UserInLine
      <3> QED
        BY <1>9, <3>1, <3>2
    <2> QED
      BY <2>2, <2>3, <2>4, <2>5, MoveSafe, MoveNoted DEF At
  <1>10. CASE Dropped(t)
    <2>1. (\A s \in Ids \ {t} : task'[s] = task[s]) /\ task'[t].at = "free"
      BY <1>2, <1>3, <1>10 DEF Dropped
    <2>2. ~Attempting(t)' /\ ~Noted(t)'
      BY <2>1 DEF Attempting, Noted
    <2>3. task[t].at # "free"
      BY <1>10 DEF Dropped, At
    <2>4. UNCHANGED <<started, running, wakePending, last, stage, desired, quitting, quiet>>
      BY <1>10 DEF Dropped
    <2>5. UserInLine'
      <3>1. CASE UNCHANGED line
        BY <1>1, <2>4, <3>1 DEF UserInLine
      <3>2. ASSUME NEW i \in 1 .. Len(line), line[i] = Retry(t), line' = RemoveAt(line, i)
            PROVE  UserInLine'
        <4>1. CASE i = 1
          <5>1. Holds(Retry(t))
            BY <1>1, <3>2, <4>1 DEF Holds, CoordinatorTypeOK
          <5> QED
            BY <2>4, <5>1, GateOwner DEF UserInLine
        <4>2. CASE i # 1
          BY <1>1, <2>4, <3>2, <4>2, RemoveFromLine DEF UserInLine, CoordinatorTypeOK
        <4> QED
          BY <4>1, <4>2
      <3> QED
        BY <1>10, <3>1, <3>2 DEF Dropped
    <2> QED
      BY <2>1, <2>2, <2>3, <2>4, <2>5, MoveSafe, MoveNoted DEF At
  <1>11. CASE Finishes(t)
    <2> DEFINE ended == [task EXCEPT ![t].at = "exit"]
               quietly == [Cleared EXCEPT ![t].at = "exit"]
    <2>1. task[t].at = "finish" /\ Attempting(t) /\ Noted(t)
      BY <1>11 DEF Finishes, At, Attempting, Noted
    <2>2. UNCHANGED <<started, running, wakePending, last, line, stage, desired, quitting, quiet>>
      BY <1>11 DEF Finishes
    <2>3. UserInLine' /\ QuietCoordinator'
      BY <2>2 DEF Inv, UserInLine, QuietCoordinator
    <2>4. ended \in [Ids -> Task]
      BY <1>2, TaskMoves DEF Stages
    <2>5. CASE Sleeps(ended, task') /\ (quiet => task' = ended)
      <3>1. \A s \in Ids \ {t} : task'[s] = task[s] \/ (task[s].at = "free" /\ task'[s] = Asleep)
        BY <1>2, <2>4, <2>5 DEF Sleeps
      <3>2. /\ task'[t].at = "exit"
            /\ task'[t].flags = task[t].flags
            /\ task'[t].late = task[t].late
            /\ task'[t].current = task[t].current
        BY <1>2, <2>4, <2>5 DEF Sleeps, Task
      <3>3. Follows
        BY <1>3, <2>1, <3>1, <3>2 DEF Follows, Attempting, Noted
      <3>4. CancelledStaysQuiet'
        <4>1. quiet => \A s \in Ids \ {t} : task'[s] = task[s]
          BY <1>2, <2>4, <2>5
        <4> QED
          BY <2>1, <2>2, <3>2, <4>1 DEF Inv, CancelledStaysQuiet
      <3> QED
        BY <2>2, <2>3, <3>3, <3>4, FollowsSafe, FollowsNoted
    <2>6. CASE task' = quietly
      <3>1. Cleared \in [Ids -> Task] /\ Keeps(task, Cleared)
        BY <1>2, ClearedKeeps
      <3>2. \A s \in Ids \ {t} : task'[s] = Cleared[s]
        BY <2>6, <3>1
      <3>3. /\ task'[t].at = "exit"
            /\ task'[t].flags = Cleared[t].flags
            /\ task'[t].late = Cleared[t].late
            /\ task'[t].current = Cleared[t].current
        BY <2>6, <3>1 DEF Task
      <3>4. /\ Cleared[t].at = task[t].at
            /\ Cleared[t].flags = task[t].flags
            /\ Cleared[t].late = task[t].late
            /\ Cleared[t].current => task[t].current
        <4>1. [task[t] EXCEPT !.doomed = TRUE].at = task[t].at
              /\ [task[t] EXCEPT !.doomed = TRUE].flags = task[t].flags
              /\ [task[t] EXCEPT !.doomed = TRUE].late = task[t].late
              /\ [task[t] EXCEPT !.doomed = TRUE].current = task[t].current
          BY <1>2 DEF Task
        <4> QED
          BY <1>2, <2>1, <4>1 DEF Cleared
      <3>5. Follows /\ NoneCurrent
        BY <2>1, <3>1, <3>2, <3>3, <3>4 DEF Keeps, Follows, NoneCurrent, Attempting, Noted
      <3> QED
        BY <2>2, <2>3, <3>5, FollowsSafe, FollowsNoted, QuietKept
    <2>7. CASE task' = ended
      BY <2>5, <2>7 DEF Sleeps
    <2>8. CASE ScheduleNext(ended, timer, nextDelay, open) /\ task[t].current
      <3>1. nextDelay \in 0 .. Backoff
        BY <1>1 DEF CoordinatorTypeOK
      <3>2. Sleeps(ended, task')
        BY <1>2, <2>4, <2>8, <3>1, ScheduleNextSleeps
      <3>3. ~quiet
        BY <2>1, <2>8 DEF Inv, CancelledStaysQuiet
      <3> QED
        BY <2>5, <3>2, <3>3
    <2> HIDE DEF ended, quietly
    <2> QED
      BY <1>11, <2>6, <2>7, <2>8 DEF Finishes, ended, quietly
  <1>12. CASE Exits(t)
    <2>1. task[t].at = "exit" /\ Attempting(t)
      BY <1>12 DEF Exits, At, Attempting
    <2>2. UNCHANGED <<started, last, line, stage, desired, quitting, quiet>> /\ running' = FALSE
      BY <1>12 DEF Exits
    <2>3. UserInLine'
      BY <2>2 DEF Inv, UserInLine
    <2>4. QuietCoordinator'
      BY <1>12, <2>2 DEF Exits, Inv, QuietCoordinator
    <2>5. \A s \in Ids \ {t} : ~Attempting(s)
      BY <2>1 DEF Inv, OneAttempt
    <2>6. CASE task' = [task EXCEPT ![t] = Free]
      <3>1. (\A s \in Ids \ {t} : task'[s] = task[s]) /\ task'[t].at = "free"
        BY <1>2, <1>3, <2>6
      <3>2. Follows /\ NoneCurrent /\ \A s \in Ids : ~Attempting(s)'
        BY <2>5, <3>1 DEF Follows, NoneCurrent, Attempting, Noted
      <3> QED
        BY <2>2, <2>3, <2>4, <3>2, FollowsSafe, FollowsNoted, QuietKept
    <2>7. CASE Spawn([Cleared EXCEPT ![t] = Free]) /\ wakePending
      <3> DEFINE tasks == [Cleared EXCEPT ![t] = Free]
      <3>1. Cleared \in [Ids -> Task] /\ Keeps(task, Cleared)
        BY <1>2, ClearedKeeps
      <3>2. tasks \in [Ids -> Task] /\ Keeps(task, tasks)
        BY <1>3, <3>1, FreeType DEF Keeps
      <3>3. Sleeps(tasks, task')
        BY <2>7, <3>2, SpawnSleeps
      <3>4. tasks[t].at = "free"
        BY <1>3, <3>1
      <3>5. Follows
        BY <3>2, <3>3, KeepsFollows
      <3> HIDE DEF tasks
      <3>6. ~Attempting(t)'
        BY <1>3, <3>3, <3>4 DEF Sleeps, Attempting
      <3>7. \A s \in Ids : ~Attempting(s)'
        BY <2>5, <3>5, <3>6 DEF Follows
      <3>8. ~quiet
        BY <2>7 DEF Inv, QuietCoordinator
      <3> QED
        BY <2>2, <2>3, <2>4, <3>5, <3>7, <3>8, FollowsSafe, FollowsNoted DEF CancelledStaysQuiet
    <2> QED
      BY <1>12, <2>6, <2>7 DEF Exits
  <1> QED
    BY <1>4, <1>5, <1>6, <1>7, <1>8, <1>9, <1>10, <1>11, <1>12 DEF Attempt

LEMMA OthersSafe ==
    ASSUME Inv, GateMoves \/ Asks \/ World, ~UserNotifies
    PROVE  /\ OneAttempt' /\ RunningAttempt' /\ CancelledStaysQuiet'
           /\ QuietCoordinator' /\ UserInLine' /\ NotedIntent'
  <1> USE DEF coordinator, gate, host, bounds, history
  <1>1. ASSUME UNCHANGED <<started, running, wakePending, last, task, quiet>>,
               quitting = "over" => quitting' = "over" \/ started
        PROVE  OneAttempt' /\ RunningAttempt' /\ CancelledStaysQuiet' /\ QuietCoordinator'
    BY <1>1 DEF Inv, OneAttempt, RunningAttempt, CancelledStaysQuiet, QuietCoordinator,
                Attempting
  <1>2. ASSUME UNCHANGED <<last, task>>, desired' = desired \/ stage' = "written",
               stage = "written" => stage' = "written"
        PROVE  NotedIntent'
    BY <1>2 DEF Inv, NotedIntent, Noted
  <1>3. ASSUME Leaves PROVE UserInLine'
    BY <1>3 DEF Leaves, UserInLine
  <1>4. CASE UserRefused
    BY <1>1, <1>2, <1>3, <1>4 DEF UserRefused, UserHolds
  <1>5. CASE UserWrites
    <2>1. UserInLine'
      BY <1>5 DEF UserWrites, UserHolds, Request, UserInLine
    <2> QED
      BY <1>1, <1>2, <1>5, <2>1 DEF UserWrites
  <1>6. CASE UserActs
    BY <1>1, <1>2, <1>3, <1>6 DEF UserActs, UserHolds
  <1>7. CASE OtherActs
    BY <1>1, <1>2, <1>3, <1>7, GateOwner DEF OtherActs
  <1>8. ASSUME NEW w \in Waiters, Len(line) < MaxLine, line' = Append(line, w), stage' = stage
        PROVE  UserInLine'
    BY <1>8, AppendToLine DEF Inv, UserInLine, CoordinatorTypeOK
  <1>9. CASE OtherAsks
    BY <1>1, <1>2, <1>8, <1>9, WaitersType DEF OtherAsks
  <1>10. ASSUME NEW mode \in Modes, NEW want \in BOOLEAN, UserAsks(mode, want)
         PROVE  /\ OneAttempt' /\ RunningAttempt' /\ CancelledStaysQuiet'
                /\ QuietCoordinator' /\ UserInLine' /\ NotedIntent'
    BY <1>1, <1>2, <1>8, <1>10, WaitersType DEF UserAsks
  <1>11. CASE World
    <2>1. /\ UNCHANGED <<started, running, wakePending, last, task, quiet, line, stage, desired>>
          /\ quitting = "over" => quitting' = "over"
      BY <1>11 DEF World, WindowCloses, Quit, QuitCancelled, ModeFails
    <2>2. UserInLine'
      BY <2>1 DEF Inv, UserInLine
    <2> QED
      BY <1>1, <1>2, <2>1, <2>2
  <1> QED
    BY <1>4, <1>5, <1>6, <1>7, <1>9, <1>10, <1>11 DEF GateMoves, Asks

LEMMA InvStep == ASSUME Inv, [Next]_vars PROVE Inv'
  <1>1. CoordinatorTypeOK'
    BY TypeStep DEF Inv
  <1>2. CASE UNCHANGED vars
    BY <1>1, <1>2
       DEF vars, coordinator, gate, host, bounds, history, Inv, OneAttempt,
           RunningAttempt, CancelledStaysQuiet, QuietCoordinator, UserInLine,
           NotedIntent, Attempting, Noted
  <1>3. CASE Next
    <2>1. /\ OneAttempt' /\ RunningAttempt' /\ CancelledStaysQuiet'
          /\ QuietCoordinator' /\ UserInLine' /\ NotedIntent'
      BY <1>1, <1>3, MethodsSafe, AttemptSafe, OthersSafe DEF Next, GateMoves
    <2> QED
      BY <1>1, <2>1 DEF Inv
  <1> QED
    BY <1>2, <1>3

-----------------------------------------------------------------------------
(* Theorems. *)

\* The strengthening holds in every reachable state of runtime_intent.rs, for any
\* backoff table and any number of tasks, requests and signals.
THEOREM CoordinatorInvariance == Spec => []Inv
  <1> QED
    BY InitInv, InvStep, PTL DEF Spec

\* Every variable keeps its type; in particular a retry never looks past the end
\* of the backoff table.
THEOREM CoordinatorTypeCorrect == Spec => []CoordinatorTypeOK
  <1>1. Inv => CoordinatorTypeOK
    BY DEF Inv
  <1> QED
    BY <1>1, CoordinatorInvariance, PTL

\* Two attempts are never in progress: tick's test of `running` is enough.
THEOREM AtMostOneAttempt == Spec => []OneAttempt
  <1>1. Inv => OneAttempt
    BY DEF Inv
  <1> QED
    BY <1>1, CoordinatorInvariance, PTL

LEMMA StandsStill ==
    ASSUME Inv, Next, quiet, quiet', NEW t \in Ids,
           task'[t].at \in {"sleeping", "read", "line"}
    PROVE  task[t].at = task'[t].at
  <1>1. /\ task \in [Ids -> Task] /\ timer \in Ids \cup {NoTask} /\ CoordinatorTypeOK
        /\ ~wakePending /\ (started \/ quitting = "over")
        /\ \A s \in Ids : task[s].at # "free" => ~task[s].current
    BY DEF Inv, CoordinatorTypeOK, QuietCoordinator, CancelledStaysQuiet
  <1>2. CASE Methods \/ UserNotifies
    <2>1. ~Start /\ ~Wake
      BY <1>1 DEF Start, Wake, suspended
    <2>2. CASE CancelPending \/ Stop
      <3>1. Keeps(task, task')
        BY <1>1, <2>2, KeepsOutdated DEF CancelPending, Stop
      <3> QED
        BY <3>1 DEF Keeps
    <2>3. CASE UserNotifies
      BY <2>3 DEF UserNotifies, HandleSettingsChange
    <2> QED
      BY <1>2, <2>1, <2>2, <2>3 DEF Methods
  <1>3. CASE GateMoves /\ ~UserNotifies
    BY <1>3 DEF GateMoves, UserRefused, UserWrites, UserActs, OtherActs
  <1>4. CASE Asks \/ World
    BY <1>4 DEF Asks, OtherAsks, UserAsks, World, WindowCloses, Quit, QuitCancelled, ModeFails
  <1>5. ASSUME NEW s \in Ids, Fires(s) \/ Attempt(s)
        PROVE  task[t].at = task'[t].at
    <2>1. ~task[s].current
      BY <1>1, <1>5 DEF Fires, Attempt, Forgets, Tick, ReadsFlags, NotesFlags, StepSkips, StepQueues,
                        StepActs, Selects, Finishes, Exits, Dropped, At, Free
    <2>2. ~StepQueues(s)
      BY <2>1 DEF StepQueues, Fence
    <2>3. CASE StepSkips(s) \/ StepActs(s)
      BY <1>1, <2>3, AdvanceMoves DEF StepSkips, StepActs
    <2>4. ASSUME NEW new \in Task, task' = [task EXCEPT ![s] = new],
                  new.at \notin {"sleeping", "read", "line"}
           PROVE  task[t].at = task'[t].at
      BY <1>1, <2>4
    <2>5. \A where \in Stages : /\ [task[s] EXCEPT !.at = where] \in Task
                                 /\ [task[s] EXCEPT !.at = where].at = where
      BY <1>1 DEF Task
    <2>6. Free \in Task /\ Free.at = "free"
      BY FreeType DEF Free
    <2>7. CASE Fires(s) \/ Forgets(s) \/ Tick(s) \/ Selects(s)
      <3>1. \/ \E where \in {"fired", "ready", "finish"} :
                  task' = [task EXCEPT ![s] = [task[s] EXCEPT !.at = where]]
            \/ task' = [task EXCEPT ![s] = Free]
        BY <2>1, <2>7 DEF Fires, Forgets, Tick, Selects, Goes
      <3>2. ASSUME NEW where \in {"fired", "ready", "finish"},
                   task' = [task EXCEPT ![s] = [task[s] EXCEPT !.at = where]]
            PROVE  task[t].at = task'[t].at
        <4>1. where \in Stages
          BY DEF Stages
        <4> QED
          BY <2>4, <2>5, <3>2, <4>1
      <3> QED
        BY <3>1, <3>2, <2>4, <2>6
    <2>8. CASE ReadsFlags(s) \/ NotesFlags(s)
      <3>1. task'[s].at \in {"note", "step", "exit"} /\ \A u \in Ids \ {s} : task'[u] = task[u]
        <4>1. CASE ReadsFlags(s)
          BY <1>1, <4>1 DEF ReadsFlags, Task
        <4>2. CASE NotesFlags(s)
          <5> DEFINE where == IF task[s].current THEN "step" ELSE "exit"
                     late  == task[s].current /\ task[s].flags # desired
          <5>1. task' = [task EXCEPT ![s].at = where, ![s].late = late]
            BY <4>2 DEF NotesFlags
          <5>2. where \in {"step", "exit"}
            OBVIOUS
          <5> HIDE DEF where, late
          <5> QED
            BY <1>1, <5>1, <5>2 DEF Task
        <4> QED
          BY <2>8, <4>1, <4>2
      <3> QED
        BY <3>1
    <2>9. CASE Finishes(s) \/ Exits(s) \/ Dropped(s)
      <3>1. \/ task' = [task EXCEPT ![s] = [task[s] EXCEPT !.at = "exit"]]
            \/ task' = [task EXCEPT ![s] = Free]
        BY <1>1, <2>1, <2>9 DEF Finishes, Exits, Dropped
      <3> QED
        BY <3>1, <2>4, <2>5, <2>6 DEF Stages
    <2> QED
      BY <1>5, <2>2, <2>3, <2>7, <2>8, <2>9 DEF Attempt
  <1> QED
    BY <1>2, <1>3, <1>4, <1>5 DEF Next

\* After cancel_pending or stop, and until a signal or a new intent, no timer is
\* set, no attempt begins and no step of one passes its fence.  What had passed
\* its fence before, and waits for the gate, is not covered.
THEOREM CancellationHolds == Spec => CancelledStandsStill
  <1>1. ASSUME Inv, [Next]_vars
        PROVE  [quiet /\ quiet' =>
                  \A t \in Ids : task'[t].at \in {"sleeping", "read", "line"}
                                    => task[t].at = task'[t].at]_vars
    BY <1>1, StandsStill
  <1> QED
    BY <1>1, CoordinatorInvariance, PTL DEF Spec, CancelledStandsStill

\* Only the step that asked the fence takes an attempt into the line.
LEMMA QueuesOnly ==
    ASSUME Inv, Next, NEW t \in Ids, At(t, "step"), task'[t].at = "line"
    PROVE  StepQueues(t)
  <1>1. Attempting(t) /\ \A s \in Ids \ {t} : ~Attempting(s)
    BY DEF At, Attempting, Inv, OneAttempt
  <1>2. CoordinatorTypeOK /\ task \in [Ids -> Task]
    BY DEF Inv, CoordinatorTypeOK
  <1>3. CASE Methods \/ UserNotifies
    BY <1>3, MethodsSafe DEF Follows, Noted, At
  <1>4. CASE GateMoves /\ ~UserNotifies
    BY <1>4 DEF GateMoves, UserRefused, UserWrites, UserActs, OtherActs, At
  <1>5. CASE Asks \/ World
    BY <1>5 DEF Asks, OtherAsks, UserAsks, World, WindowCloses, Quit, QuitCancelled,
                ModeFails, At
  <1>6. ASSUME NEW s \in Ids \ {t}, Fires(s) \/ Attempt(s) PROVE FALSE
    <2>1. task[s].at \notin {"read", "note", "step", "line", "select", "finish", "exit"}
      BY <1>1 DEF Attempting
    <2>2. Fires(s) \/ Forgets(s) \/ Tick(s)
      BY <1>6, <2>1 DEF Attempt, ReadsFlags, NotesFlags, StepSkips, StepQueues, StepActs,
                        Selects, Finishes, Exits, Dropped, At
    <2>3. task'[t] = task[t]
      BY <1>2, <2>2 DEF Fires, Forgets, Tick, Goes
    <2> QED
      BY <2>3 DEF At
  <1>7. ASSUME Fires(t) \/ Attempt(t) PROVE StepQueues(t)
    <2>1. StepSkips(t) \/ StepQueues(t)
      BY <1>7 DEF Attempt, Fires, Forgets, Tick, ReadsFlags, NotesFlags, StepActs, Selects,
                  Finishes, Exits, Dropped, At
    <2>2. ~StepSkips(t)
      BY <1>2, AdvanceMoves DEF StepSkips
    <2> QED
      BY <2>1, <2>2
  <1> QED
    BY <1>3, <1>4, <1>5, <1>6, <1>7 DEF Next

\* An attempt passes its fence for a mode that is wanted, or just given up by a
\* request that has not told so yet, unless it was overtaken before its note.
THEOREM FenceIsCurrent == Spec => FenceSeesIntent
  <1>1. ASSUME Inv, [Next]_vars
        PROVE  [\A t \in Ids :
                  At(t, "step") /\ task'[t].at = "line" /\ Order[task[t].step] # Core
                    => \/ Order[task[t].step] \in desired
                       \/ stage = "written"
                       \/ task[t].late]_vars
    <2> SUFFICES ASSUME Next, NEW t \in Ids, At(t, "step"), task'[t].at = "line",
                        Order[task[t].step] # Core
                 PROVE  Order[task[t].step] \in desired \/ stage = "written" \/ task[t].late
      BY <1>1
    <2>1. StepQueues(t)
      BY <1>1, QueuesOnly
    <2>2. task[t].current /\ Order[task[t].step] \in task[t].flags
      BY <2>1 DEF StepQueues, Fence, Retryable
    <2>3. Noted(t)
      BY DEF At, Noted
    <2> QED
      BY <1>1, <2>2, <2>3 DEF Inv, NotedIntent
  <1> QED
    BY <1>1, CoordinatorInvariance, PTL DEF Spec, FenceSeesIntent

-----------------------------------------------------------------------------
(* An attempt that is owed is never forgotten. *)

LEMMA SpawnTimes ==
    ASSUME NEW tasks \in [Ids -> Task], Spawn(tasks)
    PROVE  \E t \in Ids : Timed(t)'
  <1>1. PICK t \in Ids : task' = [tasks EXCEPT ![t] = Asleep]
    BY DEF Spawn
  <1>2. task'[t] = Asleep
    BY <1>1
  <1>3. Asleep.at = "sleeping" /\ Asleep.current /\ ~Asleep.doomed
    BY DEF Asleep, Free
  <1> QED
    BY <1>2, <1>3 DEF Timed

LEMMA FirstStartStep ==
    ASSUME Inv, FirstStart, [Next]_vars
    PROVE  FirstStart'
  <1> USE DEF coordinator, gate, host, bounds, history
  <1>1. ASSUME started' = started, running' => running, quitting = "over" => quitting' = "over"
        PROVE  FirstStart'
    BY <1>1 DEF FirstStart
  <1>2. CASE UNCHANGED vars
    BY <1>1, <1>2 DEF vars
  <1>3. CASE Methods
    BY <1>1, <1>3 DEF Methods, Start, Wake, CancelPending, Stop, FirstStart
  <1>4. CASE UserNotifies
    BY <1>1, <1>4 DEF UserNotifies, HandleSettingsChange
  <1>5. CASE GateMoves /\ ~UserNotifies
    <2>1. UNCHANGED <<started, running, quitting>>
      BY <1>5 DEF GateMoves, UserRefused, UserWrites, UserActs, OtherActs
    <2> QED
      BY <1>1, <2>1
  <1>6. CASE Asks \/ World
    BY <1>1, <1>6 DEF Asks, OtherAsks, UserAsks, World, WindowCloses, Quit, QuitCancelled,
                      ModeFails
  <1>7. ASSUME NEW t \in Ids, Fires(t) \/ Attempt(t), ~Tick(t)
        PROVE  FirstStart'
    <2>1. started' = started /\ quitting' = quitting
      BY <1>7 DEF Fires, Attempt, Forgets, ReadsFlags, NotesFlags, StepSkips, StepQueues,
                  StepActs, Selects, Finishes, Exits, Dropped
    <2>2. running' = running \/ running' = FALSE
      BY <1>7 DEF Fires, Attempt, Forgets, ReadsFlags, NotesFlags, StepSkips, StepQueues,
                  StepActs, Selects, Finishes, Exits, Dropped
    <2> QED
      BY <1>1, <2>1, <2>2
  <1>8. ASSUME NEW t \in Ids, Tick(t)
        PROVE  FirstStart'
    <2>1. started' = started /\ quitting' = quitting /\ (~started => running' = running)
      BY <1>8 DEF Tick
    <2> QED
      BY <2>1 DEF FirstStart
  <1> QED
    BY <1>2, <1>3, <1>4, <1>5, <1>6, <1>7, <1>8 DEF Next

\* A step that moves no task forgets no debt.
LEMMA DebtStays ==
    ASSUME DebtCarried, UNCHANGED <<started, running, wakePending, due, task>>
    PROVE  DebtCarried'
  BY DEF DebtCarried, Stuck, Timed, Pays, Attempting, At

\* The methods: what they add to the debt they put into somebody's hands.
LEMMA MethodsCarry ==
    ASSUME DebtInv, Methods \/ UserNotifies
    PROVE  DebtCarried'
  <1>1. task \in [Ids -> Task] /\ timer \in Ids \cup {NoTask} /\ NoTask \in Ids \cup {NoTask}
    BY DEF DebtInv, Inv, CoordinatorTypeOK
  <1>2. Cleared \in [Ids -> Task] /\ Outdated(Cleared) \in [Ids -> Task]
    BY <1>1, ClearedKeeps, KeepsOutdated
  <1>3. ASSUME NEW tasks \in [Ids -> Task], NEW old, started', ScheduleNext(tasks, old, 0, TRUE)
        PROVE  \E t \in Ids : Timed(t)'
    BY <1>3, SpawnTimes, CoordinatorAssumption DEF ScheduleNext
  <1>4. CASE Start
    <2>1. ~running'
      BY <1>4 DEF Start, DebtInv, FirstStart, suspended
    <2> QED
      BY <1>1, <1>3, <1>4, <2>1 DEF Start, DebtCarried
  <1>5. CASE Wake
    BY <1>2, <1>5, SpawnTimes DEF Wake, DebtCarried
  <1>6. CASE CancelPending \/ Stop
    BY <1>6 DEF CancelPending, Stop, DebtCarried
  <1>7. CASE UserNotifies
    <2>1. HandleSettingsChange /\ due' = (due \/ last # desired)
      BY <1>7 DEF UserNotifies
    <2>2. CASE last = desired
      <3>1. (due' => due) /\ UNCHANGED <<started, running, wakePending, task>>
        BY <2>1, <2>2 DEF HandleSettingsChange
      <3> QED
        BY <3>1 DEF DebtInv, DebtCarried, Stuck, Timed, Pays, Attempting, At
    <2>3. CASE last # desired /\ running
      BY <2>1, <2>3 DEF HandleSettingsChange, DebtCarried
    <2>4. CASE last # desired /\ ~running
      BY <1>2, <1>3, <2>1, <2>4 DEF HandleSettingsChange, DebtCarried
    <2> QED
      BY <2>2, <2>3, <2>4
  <1> QED
    BY <1>4, <1>5, <1>6, <1>7 DEF Methods

\* While an attempt is in progress a debt is its own, or noted for its end.
LEMMA DebtOfAttempt ==
    ASSUME Inv, DebtCarried, due, started, NEW t \in Ids, Attempting(t)
    PROVE  running /\ (wakePending \/ At(t, "read") \/ task[t].doomed)
  BY DEF Inv, OneAttempt, RunningAttempt, DebtCarried, Stuck, Pays

\* An attempt that goes on, and stays aborted if it was, keeps what it owes.
LEMMA GoingOnCarries ==
    ASSUME Inv, DebtCarried, NEW t \in Ids, Attempting(t), ~At(t, "read"),
           Attempting(t)', task[t].doomed => task'[t].doomed,
           UNCHANGED <<started, running, wakePending, due>>
    PROVE  DebtCarried'
  BY DebtOfAttempt DEF DebtCarried, Pays

LEMMA AdvanceKeepsDoom ==
    ASSUME CoordinatorTypeOK, NEW t \in Ids, Advance(t)
    PROVE  task'[t].doomed = task[t].doomed
  <1>1. task \in [Ids -> Task]
    BY DEF CoordinatorTypeOK
  <1> DEFINE seen == IF task[t].step < 3 THEN on' \cap {Core} ELSE on' \cap {Core, "tun"}
             step == IF task[t].step < Len(Order) THEN task[t].step + 1 ELSE task[t].step
             at   == IF task[t].step < Len(Order) THEN "step"
                     ELSE IF Core \in seen THEN "select" ELSE "finish"
  <1>2. task' = [task EXCEPT ![t].seen = seen, ![t].step = step, ![t].at = at]
    BY DEF Advance
  <1> HIDE DEF seen, step, at
  <1> QED
    BY <1>1, <1>2 DEF Task

\* Whatever is scheduled at the end of an attempt, the attempt stays aborted.
LEMMA FinishesKeepsDoom ==
    ASSUME Inv, NEW t \in Ids, Finishes(t)
    PROVE  task'[t].at = "exit" /\ (task[t].doomed => task'[t].doomed)
  <1>1. task \in [Ids -> Task] /\ timer \in Ids \cup {NoTask} /\ nextDelay \in 0 .. Backoff
    BY DEF Inv, CoordinatorTypeOK
  <1> DEFINE ended == [task EXCEPT ![t].at = "exit"]
             quietly == [Cleared EXCEPT ![t].at = "exit"]
  <1>2. /\ ended \in [Ids -> Task]
        /\ ended[t].at = "exit"
        /\ ended[t].doomed = task[t].doomed
    <2>1. "exit" \in Stages
      BY DEF Stages
    <2>2. ended \in [Ids -> Task]
      BY <1>1, <2>1, TaskMoves
    <2>3. ended[t].at = "exit" /\ ended[t].doomed = task[t].doomed
      BY <1>1 DEF Task
    <2> QED
      BY <2>2, <2>3
  <1>3. CASE task' = ended
    BY <1>2, <1>3
  <1>4. CASE ScheduleNext(ended, timer, nextDelay, open)
    <2>1. Sleeps(ended, task')
      BY <1>1, <1>2, <1>4, ScheduleNextSleeps
    <2> QED
      BY <1>2, <2>1 DEF Sleeps
  <1>5. CASE task' = quietly
    <2>1. Cleared \in [Ids -> Task]
      BY <1>1, ClearedKeeps
    <2>2. task'[t].at = "exit" /\ task'[t].doomed = Cleared[t].doomed
      BY <1>5, <2>1 DEF Task
    <2>3. task[t].at # "sleeping"
      BY DEF Finishes, At
    <2>4. [task[t] EXCEPT !.doomed = TRUE].doomed
      BY <1>1 DEF Task
    <2>5. task[t].doomed => Cleared[t].doomed
      BY <1>1, <2>3, <2>4 DEF Cleared
    <2> QED
      BY <2>2, <2>5
  <1> HIDE DEF ended, quietly
  <1> QED
    BY <1>3, <1>4, <1>5 DEF Finishes, ended, quietly

LEMMA TasksCarry ==
    ASSUME DebtInv, NEW t \in Ids, Fires(t) \/ Attempt(t)
    PROVE  DebtCarried'
  <1>1. Inv /\ CoordinatorTypeOK /\ DebtCarried /\ OneAttempt
    BY DEF DebtInv, Inv
  <1>2. task \in [Ids -> Task] /\ timer \in Ids \cup {NoTask}
    BY <1>1 DEF CoordinatorTypeOK
  <1>3. Free.at = "free"
    BY DEF Free
  <1> USE DEF coordinator, gate, host, bounds, history
  <1>4. CASE Fires(t) \/ Forgets(t)
    <2>1. /\ \A s \in Ids \ {t} : task'[s] = task[s]
          /\ task'[t].at \in {"fired", "ready"} /\ task[t].at \in {"sleeping", "fired"}
          /\ task'[t].current = task[t].current /\ task'[t].doomed = task[t].doomed
      BY <1>2, <1>4 DEF Fires, Forgets, Goes, At, Task
    <2>2. UNCHANGED <<started, running, wakePending, due>>
      BY <1>4 DEF Fires, Forgets
    <2>3. \A s \in Ids : /\ Attempting(s)' <=> Attempting(s)
                         /\ Timed(s)' <=> Timed(s)
                         /\ Pays(s)' <=> Pays(s)
      BY <2>1 DEF Attempting, Timed, Pays, At
    <2> QED
      BY <1>1, <2>2, <2>3 DEF DebtCarried, Stuck
  <1>5. CASE Tick(t)
    <2>1. UNCHANGED <<started, wakePending, due>> /\ task[t].at = "ready"
      BY <1>5 DEF Tick, At
    <2>2. CASE ~started
      BY <2>1, <2>2 DEF DebtCarried
    <2>3. CASE started /\ (running \/ ~task[t].current)
      <3>1. running' = running /\ task' = [task EXCEPT ![t] = Free]
        BY <1>5, <2>3 DEF Tick
      <3>2. (\A s \in Ids \ {t} : task'[s] = task[s]) /\ task'[t].at = "free"
        BY <1>2, <1>3, <3>1
      <3>3. \A s \in Ids : /\ Attempting(s)' <=> Attempting(s)
                           /\ Pays(s)' <=> Pays(s)
                           /\ Timed(s) /\ ~running => Timed(s)'
        BY <2>1, <2>3, <3>2 DEF Attempting, Timed, Pays, At
      <3> QED
        BY <1>1, <2>1, <3>1, <3>3 DEF DebtCarried, Stuck
    <2>4. CASE started /\ ~running /\ task[t].current
      <3>1. task'[t].at = "read"
        BY <1>2, <1>5, <2>4 DEF Tick, Goes, Task
      <3> QED
        BY <3>1 DEF DebtCarried, Pays, Attempting, At
    <2> QED
      BY <2>2, <2>3, <2>4
  <1>6. CASE ReadsFlags(t)
    <2>1. task'[t].at = "note" /\ task'[t].doomed = task[t].doomed
      BY <1>2, <1>6 DEF ReadsFlags, Task
    <2>2. due' => task[t].doomed
      BY <1>6 DEF ReadsFlags
    <2> QED
      BY <2>1, <2>2 DEF DebtCarried, Pays, Attempting
  <1>7. CASE NotesFlags(t)
    <2>1. task'[t].at \in {"step", "exit"} /\ task'[t].doomed = task[t].doomed
      BY <1>2, <1>7 DEF NotesFlags, Task
    <2>2. Attempting(t) /\ ~At(t, "read") /\ Attempting(t)'
      BY <1>7, <2>1 DEF NotesFlags, At, Attempting
    <2>3. UNCHANGED <<started, running, wakePending, due>>
      BY <1>7 DEF NotesFlags
    <2> QED
      BY <1>1, <2>1, <2>2, <2>3, GoingOnCarries
  <1>8. CASE StepSkips(t) \/ StepActs(t)
    <2>1. Advance(t) /\ UNCHANGED <<started, running, wakePending, due>>
      BY <1>8 DEF StepSkips, StepActs
    <2>2. task'[t].at \in {"step", "select", "finish"} /\ task'[t].doomed = task[t].doomed
      BY <1>1, <2>1, AdvanceMoves, AdvanceKeepsDoom
    <2>3. Attempting(t) /\ ~At(t, "read") /\ Attempting(t)'
      BY <1>8, <2>2 DEF StepSkips, StepActs, At, Attempting
    <2> QED
      BY <1>1, <2>1, <2>2, <2>3, GoingOnCarries
  <1>9. CASE StepQueues(t) \/ Selects(t)
    <2>1. PICK where \in {"line", "finish"} : Goes(t, where)
      BY <1>9 DEF StepQueues, Selects
    <2>2. task'[t].at = where /\ task'[t].doomed = task[t].doomed
      BY <1>2, <2>1 DEF Goes, Task
    <2>3. Attempting(t) /\ ~At(t, "read") /\ Attempting(t)'
      BY <1>9, <2>2 DEF StepQueues, Selects, At, Attempting
    <2>4. UNCHANGED <<started, running, wakePending, due>>
      BY <1>9 DEF StepQueues, Selects
    <2> QED
      BY <1>1, <2>2, <2>3, <2>4, GoingOnCarries
  <1>10. CASE Finishes(t)
    <2>1. task'[t].at = "exit" /\ (task[t].doomed => task'[t].doomed)
      BY <1>1, <1>10, FinishesKeepsDoom
    <2>2. Attempting(t) /\ ~At(t, "read") /\ Attempting(t)'
      BY <1>10, <2>1 DEF Finishes, At, Attempting
    <2>3. UNCHANGED <<started, running, wakePending, due>>
      BY <1>10 DEF Finishes
    <2> QED
      BY <1>1, <2>1, <2>2, <2>3, GoingOnCarries
  <1>11. CASE Exits(t)
    <2> SUFFICES ASSUME due', started' PROVE ~running' /\ \E s \in Ids : Timed(s)'
      BY DEF DebtCarried
    <2>1. Attempting(t) /\ ~At(t, "read")
      BY <1>11 DEF Exits, At, Attempting
    <2>2. started /\ due /\ (wakePending \/ ~task[t].doomed)
      BY <1>11 DEF Exits
    <2>3. wakePending
      BY <1>1, <2>1, <2>2, DebtOfAttempt
    <2>4. ~running' /\ Spawn([Cleared EXCEPT ![t] = Free])
      BY <1>11, <2>2, <2>3 DEF Exits
    <2>5. [Cleared EXCEPT ![t] = Free] \in [Ids -> Task]
      BY <1>2, ClearedKeeps, FreeType
    <2> QED
      BY <2>4, <2>5, SpawnTimes
  <1>12. CASE Dropped(t)
    <2>1. (\A s \in Ids \ {t} : task'[s] = task[s]) /\ task'[t].at = "free"
      BY <1>2, <1>3, <1>12 DEF Dropped
    <2>2. Attempting(t) /\ UNCHANGED <<started, running, wakePending, due>>
      BY <1>12 DEF Dropped, At, Attempting
    <2>3. \A s \in Ids : ~Attempting(s)'
      BY <1>1, <2>1, <2>2 DEF OneAttempt, Attempting
    <2>4. running'
      BY <1>1, <2>2 DEF Inv, RunningAttempt
    <2> QED
      BY <2>3, <2>4 DEF DebtCarried, Stuck
  <1> QED
    BY <1>4, <1>5, <1>6, <1>7, <1>8, <1>9, <1>10, <1>11, <1>12 DEF Attempt

LEMMA DebtStep == ASSUME DebtInv, [Next]_vars PROVE DebtInv'
  <1>1. Inv' /\ FirstStart'
    BY InvStep, FirstStartStep DEF DebtInv
  <1> SUFFICES DebtCarried'
    BY <1>1 DEF DebtInv
  <1>2. DebtCarried
    BY DEF DebtInv
  <1> USE DEF coordinator, gate, host, bounds, history
  <1>3. CASE UNCHANGED vars
    BY <1>2, <1>3, DebtStays DEF vars
  <1>4. CASE GateMoves /\ ~UserNotifies
    <2>1. UNCHANGED <<started, running, wakePending, due, task>>
      BY <1>4 DEF GateMoves, UserRefused, UserWrites, UserActs, OtherActs
    <2> QED
      BY <1>2, <2>1, DebtStays
  <1>5. CASE Asks \/ World
    <2>1. UNCHANGED <<started, running, wakePending, due, task>>
      BY <1>5 DEF Asks, OtherAsks, UserAsks, World, WindowCloses, Quit, QuitCancelled,
                  ModeFails
    <2> QED
      BY <1>2, <2>1, DebtStays
  <1>6. CASE Methods \/ UserNotifies
    BY <1>6, MethodsCarry
  <1>7. ASSUME NEW t \in Ids, Fires(t) \/ Attempt(t) PROVE DebtCarried'
    BY <1>7, TasksCarry
  <1> QED
    BY <1>3, <1>4, <1>5, <1>6, <1>7 DEF Next

\* A wake or a change of intent is never forgotten, for any number of timers
\* aborted late, signals and changes in the middle of an attempt: somebody will
\* make the attempt, unless a dropped one has left the coordinator stuck.
THEOREM DebtIsCarried == Spec => []DebtCarried
  <1>1. Init => DebtInv
    BY InitInv DEF Init, DebtInv, FirstStart, DebtCarried
  <1>2. DebtInv => DebtCarried
    BY DEF DebtInv
  <1> QED
    BY <1>1, <1>2, DebtStep, PTL DEF Spec

=============================================================================
