------------------------ MODULE PrivilegedKernelProofs ------------------------
(* The client of the service, for any number of sessions, lost answers,      *)
(* exits, restarts and relaunches: its types, the lease it relies on, and    *)
(* that its status does not contradict the cores.                            *)
EXTENDS PrivilegedKernel, SequenceTheorems, TLAPS

-----------------------------------------------------------------------------
(* The queue as a sequence. *)

LEMMA FirstInLine ==
    ASSUME NEW S, NEW s \in Seq(S), s # <<>>
    PROVE  /\ 1 \in DOMAIN s /\ Head(s) = s[1] /\ Head(s) \in S
           /\ Tail(s) \in Seq(S)
           /\ \A i \in DOMAIN Tail(s) :
                 i \in Nat \ {0} /\ i + 1 \in DOMAIN s /\ Tail(s)[i] = s[i + 1]
  <1>1. Len(s) \in Nat /\ Len(s) # 0 /\ DOMAIN s = 1..Len(s)
    OBVIOUS
  <1>2. Tail(s) \in Seq(S) /\ Len(Tail(s)) = Len(s) - 1 /\ \A i \in 1..Len(Tail(s)) : Tail(s)[i] = s[i + 1]
    BY HeadTailProperties
  <1>3. DOMAIN Tail(s) = 1..(Len(s) - 1)
    BY <1>2
  <1>4. Head(s) = s[1] /\ s[1] \in S
    BY <1>1
  <1> QED
    BY <1>1, <1>2, <1>3, <1>4

LEMMA LastInLine ==
    ASSUME NEW S, NEW s \in Seq(S), NEW e \in S
    PROVE  /\ Append(s, e) \in Seq(S) /\ Append(s, e) # <<>>
           /\ \A i \in DOMAIN Append(s, e) :
                 /\ i \in Nat \ {0}
                 /\ \/ i \in DOMAIN s /\ Append(s, e)[i] = s[i]
                    \/ Append(s, e)[i] = e /\ \A j \in DOMAIN Append(s, e) : j <= i
           /\ s # <<>> => Head(Append(s, e)) = Head(s)
  <1>1. /\ Append(s, e) \in Seq(S) /\ Len(s) \in Nat
        /\ DOMAIN Append(s, e) = 1..(Len(s) + 1) /\ DOMAIN s = 1..Len(s)
        /\ \A i \in 1..Len(s) : Append(s, e)[i] = s[i]
        /\ Append(s, e)[Len(s) + 1] = e
    OBVIOUS
  <1>2. Append(s, e) # <<>> /\ Head(Append(s, e)) = Append(s, e)[1]
    OBVIOUS
  <1>3. s # <<>> => Len(s) # 0 /\ Head(s) = s[1]
    OBVIOUS
  <1> QED
    BY <1>1, <1>2, <1>3

-----------------------------------------------------------------------------
(* Types. *)

\* A request to start names a session of its own.
LaunchNamed == at = "launch" => wire.sid \in Sessions /\ wire.sid = issued

Typed == GatewayTypeOK /\ LaunchNamed

LEMMA InitTyped == Init => Typed
  <1> SUFFICES ASSUME Init PROVE Typed
    OBVIOUS
  <1>1. line \in Seq(Operation)
    BY DEF Init, Operation
  <1>2. wire \in Exchange /\ wire.sid = None
    BY DEF Init, Exchange, Outcome, Silence, Maybe
  <1>3. 0 \in 0..Streak /\ 0 \in 0..Budget
    BY LimitsAssumption
  <1>4. 0 \in 0..MaxStarts /\ 0 \in 0..MaxTroubles /\ 0 \in 0..MaxExits /\ 0 \in 0..MaxCalls /\ 0 \in 0..MaxQuits
    BY BoundsAssumption
  <1> QED
    BY <1>1, <1>2, <1>3, <1>4 DEF Init, Typed, GatewayTypeOK, LaunchNamed, Maybe

\* What reconcile leaves behind, and the outcomes it has.
Spoken == {"running", "stopped", "stopping", "failed", "conflict"}

LEMMA ReconcileTyped ==
    ASSUME Typed, NEW out, NEW of, NEW ok, Reconciles(out, of, ok)
    PROVE  /\ claim' \in Maybe /\ held' \in Maybe
           /\ blocked' \in BOOLEAN /\ conflict' \in BOOLEAN /\ exited' \in BOOLEAN
           /\ out \in Spoken /\ of \in Maybe
           /\ Trouble \/ UNCHANGED bounds
  BY DEF Reconciles, Unread, NoRecord, Adopts, Unsure, Forgets, ForgetFails, Verifies, memory,
         Typed, GatewayTypeOK, Maybe, Spoken

LEMMA ServiceTyped ==
    ASSUME Typed, ServiceSteps \/ CoreExits \/ ServiceDies
    PROVE  Typed'
  <1> DEFINE R == wire' \in Exchange /\ wire'.sid = wire.sid
             B == troubles' \in 0..MaxTroubles /\ exits' \in 0..MaxExits
                  /\ calls' \in 0..MaxCalls /\ quits' \in 0..MaxQuits
             M == /\ claim' \in Maybe /\ held' \in Maybe
                  /\ blocked' \in BOOLEAN /\ conflict' \in BOOLEAN /\ exited' \in BOOLEAN
             S == /\ up' \in BOOLEAN /\ core' \in Maybe /\ escaped' \in SUBSET Sessions /\ M
                  /\ busy' = None \/ busy' \in Execution
                  /\ late' \in SUBSET Message
  <1>1. ASSUME S, R, B, ServiceKeeps PROVE Typed'
    BY <1>1 DEF Typed, GatewayTypeOK, LaunchNamed, ServiceKeeps, gateway, monitor, history
  <1>2. /\ Spoken \subseteq Outcome /\ "unreachable" \in Outcome /\ None \in Maybe /\ Sessions \subseteq Maybe
        /\ wire \in Exchange /\ claim \in Maybe /\ held \in Maybe /\ core \in Maybe
        /\ core # None => core \in Sessions
        /\ busy # None => busy \in Execution /\ busy.mine \in BOOLEAN /\ busy.sid \in Sessions
    BY DEF Spoken, Outcome, Maybe, Execution, Typed, GatewayTypeOK
  <1>3. wire' = wire => R
    BY <1>2
  <1>4. Trouble \/ UNCHANGED bounds => B
    BY BoundsAssumption DEF Trouble, bounds, Typed, GatewayTypeOK
  <1>5. \A mine \in BOOLEAN, out \in Spoken, of \in Maybe : Replies(mine, out, of) => R
    BY <1>2 DEF Replies, Exchange
  <1>6. /\ up \in BOOLEAN /\ late \subseteq Message /\ (busy = None \/ busy \in Execution)
        /\ escaped \in SUBSET Sessions
        /\ blocked \in BOOLEAN /\ conflict \in BOOLEAN /\ exited \in BOOLEAN
    BY DEF Typed, GatewayTypeOK
  <1>17. UNCHANGED <<claim, memory>> => M
    BY <1>2, <1>6 DEF memory
  <1>18. ASSUME NEW out, NEW of, NEW ok, Reconciles(out, of, ok)
         PROVE  M /\ B /\ out \in Spoken /\ of \in Maybe
    BY <1>4, <1>18, ReconcileTyped
  <1> HIDE DEF R, B, M
  <1>7. ASSUME NEW mine \in BOOLEAN, ServeReconcile(mine) PROVE Typed'
    <2>1. M /\ B /\ R
      BY <1>5, <1>7, <1>18 DEF ServeReconcile
    <2> QED
      BY <2>1, <1>1, <1>2, <1>6, <1>7 DEF ServeReconcile, Request
  <1>8. ASSUME NEW mine \in BOOLEAN, NEW s \in Sessions, ServeStart(s, mine) PROVE Typed'
    <2>1. busy' \in Execution
      BY <1>8 DEF ServeStart, Execution
    <2> QED
      BY <2>1, <1>1, <1>2, <1>3, <1>4, <1>6, <1>8, <1>17 DEF ServeStart, Request
  <1>9. ASSUME NEW mine \in BOOLEAN, NEW s \in Sessions, ServeStop(s, mine) PROVE Typed'
    <2>1. busy' = busy \/ busy' \in Execution
      BY <1>9 DEF ServeStop, Execution
    <2>2. R
      BY <1>9, <1>2, <1>3, <1>5 DEF ServeStop, Spoken
    <2>3. B
      BY <1>9, <1>4 DEF ServeStop
    <2> QED
      BY <2>1, <2>2, <2>3, <1>1, <1>2, <1>6, <1>9, <1>17 DEF ServeStop, Request
  <1>10. CASE Recovers
    <2>1. PICK out \in Outcome, of \in Maybe, ok \in BOOLEAN :
             /\ Reconciles(out, of, ok)
             /\ \/ ok /\ UNCHANGED <<busy, wire>>
                \/ ~ok /\ busy' = None /\ Replies(busy.mine, "conflict", None)
      BY <1>10 DEF Recovers
    <2>2. M /\ B
      BY <2>1, <1>18
    <2>3. R
      BY <1>2, <1>3, <1>5, <1>10, <2>1 DEF Recovers, Spoken
    <2> QED
      BY <2>1, <2>2, <2>3, <1>1, <1>2, <1>6, <1>10 DEF Recovers
  <1>11. CASE Launches
    <2>1. busy' = None \/ busy' \in Execution
      BY <1>11, <1>2 DEF Launches, Starting, Execution
    <2>2. R
      BY <1>11, <1>2, <1>3, <1>5 DEF Launches, Starting, Spoken
    <2> QED
      BY <2>1, <2>2, <1>1, <1>2, <1>4, <1>6, <1>11, <1>17 DEF Launches, Starting
  <1>12. CASE Records \/ RecordFails \/ Clears
    <2>1. R
      BY <1>2, <1>5, <1>12 DEF Records, RecordFails, Clears, Recording, Spoken
    <2>2. M
      BY <1>2, <1>6, <1>12 DEF Records, RecordFails, Clears, Recording, M
    <2> QED
      BY <2>1, <2>2, <1>1, <1>2, <1>4, <1>6, <1>12 DEF Records, RecordFails, Clears, Recording
  <1>14. CASE ServiceStarts
    <2>1. M /\ B
      BY <1>14, <1>18 DEF ServiceStarts
    <2> QED
      BY <2>1, <1>1, <1>2, <1>3, <1>6, <1>14 DEF ServiceStarts, pipe
  <1>15. CASE CoreExits
    <2>1. B
      BY <1>15, BoundsAssumption DEF CoreExits, B, Typed, GatewayTypeOK
    <2> QED
      BY <2>1, <1>1, <1>2, <1>3, <1>6, <1>15, <1>17 DEF CoreExits, pipe
  <1>16. CASE ServiceDies
    <2>1. R
      BY <1>16, <1>2, <1>3 DEF ServiceDies, R, Exchange
    <2>2. M
      BY <1>2, <1>16 DEF ServiceDies, Verifies, M
    <2>3. escaped' \in SUBSET Sessions
      BY <1>2, <1>16 DEF ServiceDies
    <2> QED
      BY <2>1, <2>2, <2>3, <1>1, <1>2, <1>4, <1>6, <1>16 DEF ServiceDies
  <1> QED
    BY <1>7, <1>8, <1>9, <1>10, <1>11, <1>12, <1>14, <1>15, <1>16 DEF ServiceSteps

LEMMA PipeTyped ==
    ASSUME Typed, Unreachable \/ Breaks \/ TimesOut
    PROVE  Typed'
  <1>1. wire' \in Exchange /\ wire'.sid = wire.sid
    BY DEF Typed, GatewayTypeOK, Unreachable, Breaks, TimesOut, Exchange, Outcome
  <1>2. busy' = None \/ busy' \in Execution
    BY DEF Typed, GatewayTypeOK, Unreachable, Breaks, TimesOut, Execution, Taken, service
  <1>3. late' \subseteq Message
    BY DEF Typed, GatewayTypeOK, Unreachable, Breaks, TimesOut, Message, Exchange, Pending
  <1>4. troubles' \in 0..MaxTroubles /\ UNCHANGED <<exits, calls, quits, up, core, escaped, claim, memory>>
    BY BoundsAssumption DEF Typed, GatewayTypeOK, Unreachable, Breaks, TimesOut, Trouble, bounds, service
  <1>5. ServiceKeeps
    BY DEF Unreachable, Breaks, TimesOut
  <1> QED
    BY <1>1, <1>2, <1>3, <1>4, <1>5
       DEF Typed, GatewayTypeOK, LaunchNamed, ServiceKeeps, gateway, monitor, history, memory

\* How the steps of the gateway end: with a request, with a result, or short
\* of either.
LEMMA AskTyped ==
    ASSUME NEW op \in {"start", "stop", "reconcile"}, NEW s \in Maybe,
           NEW step \in {"asked", "stale", "launch", "relaunch", "readying", "cleanup"},
           Ask(op, s, step)
    PROVE  /\ wire' \in Exchange /\ wire'.sid = s /\ wire'.op = op /\ wire'.out = "none"
           /\ at' = step /\ UNCHANGED <<line, mon, quit>>
  BY DEF Ask, Exchange, Outcome, Maybe

LEMMA ReturnTyped ==
    ASSUME Typed, line # <<>>, NEW result \in {"idle", "gone", "live", "probe"}, Returns(result)
    PROVE  /\ wire' \in Exchange /\ at' = "begin" /\ line' \in Seq(Operation)
           /\ mon' \in {"idle", "called", "live", "probe", "gone", "recover"}
           /\ quit' \in {"no", "fenced", "stopped", "unstopped"}
  <1>1. wire' \in Exchange
    BY DEF Returns, Silence, Exchange, Outcome, Maybe
  <1>2. line' \in Seq(Operation)
    BY FirstInLine DEF Returns, Typed, GatewayTypeOK
  <1> QED
    BY <1>1, <1>2 DEF Returns, Typed, GatewayTypeOK

\* What a step of the gateway has to respect.
StepTyped ==
    /\ wire' \in Exchange
    /\ at' \in {"begin", "asked", "stale", "launch", "relaunch", "ready", "readying", "cleanup"}
    /\ line' \in Seq(Operation)
    /\ mon' \in {"idle", "called", "live", "probe", "gone", "recover"}
    /\ quit' \in {"no", "fenced", "stopped", "unstopped"}
    /\ at' = "launch" => wire'.sid \in Sessions /\ wire'.sid = issued'

LEMMA AskSteps ==
    ASSUME Typed, NEW op \in {"start", "stop", "reconcile"}, NEW s \in Maybe,
           NEW step \in {"asked", "stale", "relaunch", "readying", "cleanup"},
           Ask(op, s, step)
    PROVE  StepTyped
  BY AskTyped DEF StepTyped, Typed, GatewayTypeOK

LEMMA ReturnSteps ==
    ASSUME Typed, line # <<>>, NEW result \in {"idle", "gone", "live", "probe"}, Returns(result)
    PROVE  StepTyped
  BY ReturnTyped DEF StepTyped

LEMMA ReadySteps ==
    ASSUME Typed, at' = "ready", wire' = Silence, UNCHANGED <<line, mon, quit>>
    PROVE  StepTyped
  BY DEF StepTyped, Typed, GatewayTypeOK, Silence, Exchange, Outcome, Maybe

Statuses == {"stopped", "starting", "running", "stopping", "failed"}

LEMMA FailTyped ==
    ASSUME Typed, line # <<>>, NEW own \in Maybe, Fails(own)
    PROVE  /\ StepTyped /\ owned' = own /\ phase' \in Statuses /\ issued' \in 0..MaxStarts
          
  <1>1. CASE own = None
    BY <1>1, ReturnSteps DEF Fails, Typed, GatewayTypeOK, Statuses
  <1>2. CASE own # None
    BY <1>2, AskSteps DEF Fails, Typed, GatewayTypeOK, Statuses
  <1> QED
    BY <1>1, <1>2

LEMMA RequestTyped ==
    ASSUME Typed, line # <<>>, NEW own \in Maybe, Requests(own)
    PROVE  /\ StepTyped /\ owned' = own /\ phase' \in Statuses /\ issued' \in 0..MaxStarts
          
  <1>1. CASE own = None /\ issued < MaxStarts
    <2>1. issued' = issued + 1 /\ issued \in 0..MaxStarts
      BY <1>1 DEF Requests, Typed, GatewayTypeOK
    <2>2. issued' \in Sessions /\ issued' \in 0..MaxStarts
      BY <1>1, <2>1, BoundsAssumption DEF Sessions
    <2>3. Ask("start", issued', "launch") /\ owned' = own /\ phase' = phase
      BY <1>1 DEF Requests
    <2>4. StepTyped
      BY <2>2, <2>3, AskTyped DEF StepTyped, Typed, GatewayTypeOK, Maybe
    <2> QED
      BY <2>2, <2>3, <2>4 DEF Typed, GatewayTypeOK, Statuses
  <1>2. CASE ~(own = None /\ issued < MaxStarts)
    BY <1>2, FailTyped DEF Requests
  <1> QED
    BY <1>1, <1>2

LEMMA GatewayTyped == ASSUME Typed, GatewaySteps PROVE Typed'
  <1> DEFINE Rest == /\ owned' \in Maybe /\ phase' \in Statuses
                     /\ issued' \in 0..MaxStarts /\ strays' \in SUBSET Sessions /\ due' \in BOOLEAN
             Kept == UNCHANGED <<service, late, streak, restarts, deferred, exits, calls, quits>>
                     /\ troubles' \in 0..MaxTroubles
  <1>1. ASSUME Rest, StepTyped, Kept PROVE Typed'
    BY <1>1 DEF Typed, GatewayTypeOK, LaunchNamed, StepTyped, Statuses, service, memory
  <1>2. Stays => Kept
    BY DEF Stays, bounds, Typed, GatewayTypeOK
  <1>3. /\ owned \in Maybe /\ None \in Maybe /\ wire.of \in Maybe /\ wire.sid \in Maybe
        /\ core # None => core \in Sessions
        /\ phase \in Statuses /\ issued \in 0..MaxStarts
        /\ strays \in SUBSET Sessions /\ due \in BOOLEAN
        /\ OwnedAfter \in Maybe /\ OwnedAfterStop \in Maybe
        /\ at = "launch" => wire.sid \in Sessions
    BY DEF Typed, GatewayTypeOK, LaunchNamed, Statuses, Exchange, Maybe, OwnedAfter, OwnedAfterStop
  <1>4. \A outs : Settles(outs) => strays' \in SUBSET Sessions
    BY <1>3 DEF Settles
  <1>5. \A op, step : Doing(op, step) => line # <<>>
    BY DEF Doing
  <1> USE DEF Got, history, Statuses
  <1> HIDE DEF Kept
  <1>6. CASE InitAsks
    BY <1>1, <1>2, <1>3, <1>5, <1>6, AskSteps DEF InitAsks
  <1>7. CASE InitAsked
    <2>1. StepTyped
      BY <1>3, <1>5, <1>7, AskSteps, ReturnSteps DEF InitAsked
    <2> QED
      BY <2>1, <1>1, <1>2, <1>3, <1>4, <1>7 DEF InitAsked
  <1>8. CASE InitStopped
    BY <1>1, <1>2, <1>3, <1>4, <1>5, <1>8, ReturnSteps DEF InitStopped
  <1>9. CASE StartBegins
    <2>1. StepTyped
      BY <1>3, <1>5, <1>9, AskSteps, ReturnSteps DEF StartBegins
    <2> QED
      BY <2>1, <1>1, <1>2, <1>3, <1>9 DEF StartBegins
  <1>10. CASE StartRetries
    BY <1>1, <1>2, <1>3, <1>10, AskSteps DEF StartRetries
  <1>11. CASE StartAsked
    <2>1. StepTyped /\ owned' \in Maybe /\ phase' \in Statuses /\ issued' \in 0..MaxStarts
      <3>1. CASE wire.out = "running"
        BY <1>3, <1>11, <3>1, AskSteps DEF StartAsked
      <3>2. CASE wire.out \in {"stopped", "failed"}
        BY <1>3, <1>5, <1>11, <3>2, RequestTyped DEF StartAsked
      <3>3. CASE wire.out \notin {"running", "stopped", "failed"}
        BY <1>3, <1>5, <1>11, <3>3, FailTyped DEF StartAsked
      <3> QED
        BY <3>1, <3>2, <3>3
    <2> QED
      BY <2>1, <1>1, <1>2, <1>3, <1>4, <1>11 DEF StartAsked
  <1>12. CASE StaleStopped
    <2>1. StepTyped /\ owned' \in Maybe /\ phase' \in Statuses /\ issued' \in 0..MaxStarts
      BY <1>3, <1>5, <1>12, RequestTyped, FailTyped DEF StaleStopped
    <2> QED
      BY <2>1, <1>1, <1>2, <1>3, <1>4, <1>12 DEF StaleStopped
  <1>13. CASE Launched
    <2>1. StepTyped /\ owned' \in Maybe /\ phase' \in Statuses /\ issued' \in 0..MaxStarts
      BY <1>3, <1>5, <1>13, ReadySteps, FailTyped DEF Launched
    <2>2. strays' \in SUBSET Sessions
      BY <1>3, <1>13 DEF Launched, Doing
    <2> QED
      BY <2>1, <2>2, <1>1, <1>2, <1>3, <1>13 DEF Launched
  <1>14. CASE LaunchUnclear
    BY <1>1, <1>2, <1>3, <1>14, AskSteps DEF LaunchUnclear, Doing
  <1>15. CASE Relaunches
    <2>1. StepTyped /\ owned' \in Maybe /\ phase' \in Statuses /\ issued' \in 0..MaxStarts
      BY <1>3, <1>5, <1>15, ReadySteps, RequestTyped DEF Relaunches
    <2> QED
      BY <2>1, <1>1, <1>2, <1>3, <1>4, <1>15 DEF Relaunches
  <1>16. CASE Ready
    BY <1>1, <1>2, <1>3, <1>5, <1>16, ReturnSteps DEF Ready
  <1>17. CASE NotReady
    BY <1>1, <1>2, <1>3, <1>17, AskSteps DEF NotReady
  <1>18. CASE ReadyTimesOut
    <2>1. StepTyped /\ owned' \in Maybe /\ phase' \in Statuses /\ issued' \in 0..MaxStarts
      BY <1>3, <1>5, <1>18, FailTyped DEF ReadyTimesOut
    <2>2. Kept
      BY <1>18, BoundsAssumption DEF ReadyTimesOut, Kept, Trouble, bounds, Typed, GatewayTypeOK
    <2> QED
      BY <2>1, <2>2, <1>1, <1>3, <1>18 DEF ReadyTimesOut
  <1>19. CASE Aborted
    <2>1. StepTyped /\ owned' \in Maybe /\ phase' \in Statuses /\ issued' \in 0..MaxStarts
      BY <1>3, <1>5, <1>19, FailTyped DEF Aborted
    <2> QED
      BY <2>1, <1>1, <1>2, <1>3, <1>19 DEF Aborted
  <1>20. CASE ReadyAsked
    <2>1. StepTyped /\ owned' \in Maybe /\ phase' \in Statuses /\ issued' \in 0..MaxStarts
      BY <1>3, <1>5, <1>20, ReadySteps, FailTyped DEF ReadyAsked
    <2> QED
      BY <2>1, <1>1, <1>2, <1>3, <1>4, <1>20 DEF ReadyAsked
  <1>21. CASE StartFailed
    BY <1>1, <1>2, <1>3, <1>4, <1>5, <1>21, ReturnSteps DEF StartFailed
  <1>22. CASE StopBegins
    <2>1. StepTyped
      BY <1>3, <1>5, <1>22, AskSteps, ReturnSteps DEF StopBegins
    <2> QED
      BY <2>1, <1>1, <1>2, <1>3, <1>22 DEF StopBegins
  <1>23. CASE StopAnswered
    BY <1>1, <1>2, <1>3, <1>4, <1>5, <1>23, ReturnSteps DEF StopAnswered
  <1>24. CASE PollAsks
    BY <1>1, <1>2, <1>3, <1>24, AskSteps DEF PollAsks
  <1>25. CASE PollGone
    <2>1. StepTyped
      BY <1>5, <1>25, ReturnSteps DEF PollGone
    <2>2. strays' \in SUBSET Sessions
      <3>1. CASE Believed /\ core # None
        BY <1>3, <1>25, <3>1 DEF PollGone
      <3>2. CASE ~(Believed /\ core # None)
        BY <1>4, <1>25, <3>2, Zenon DEF PollGone
      <3> QED
        BY <3>1, <3>2
    <2>3. due' \in BOOLEAN
      BY <1>3, <1>25 DEF PollGone, Believed
    <2> QED
      BY <2>1, <2>2, <2>3, <1>1, <1>2, <1>3, <1>25 DEF PollGone
  <1>26. CASE PollAnswered
    <2>1. StepTyped
      BY <1>5, <1>26, ReturnSteps DEF PollAnswered
    <2>2. strays' \in SUBSET Sessions
      BY <1>3, <1>4, <1>26 DEF PollAnswered
    <2> QED
      BY <2>1, <2>2, <1>1, <1>2, <1>3, <1>26 DEF PollAnswered
  <1>27. CASE DeclaresLost
    <2>1. StepTyped
      BY <1>5, <1>27, ReturnSteps DEF DeclaresLost
    <2>2. strays' \in SUBSET Sessions /\ owned' \in Maybe /\ due' \in BOOLEAN /\ phase' \in Statuses
      <3>1. CASE Believed
        BY <1>3, <1>27, <3>1 DEF DeclaresLost
      <3>2. CASE ~Believed
        BY <1>3, <1>27, <3>2 DEF DeclaresLost
      <3> QED
        BY <3>1, <3>2
    <2> QED
      BY <2>1, <2>2, <1>1, <1>2, <1>3, <1>27 DEF DeclaresLost
  <1> QED
    BY <1>6, <1>7, <1>8, <1>9, <1>10, <1>11, <1>12, <1>13, <1>14, <1>15, <1>16, <1>17, <1>18, <1>19,
       <1>20, <1>21, <1>22, <1>23, <1>24, <1>25, <1>26, <1>27 DEF GatewaySteps

LEMMA JoinTyped ==
    ASSUME Typed,
           NEW who \in {"user", "monitor", "quit"}, NEW op \in {"start", "stop", "poll", "lost"},
           Joins(who, op)
    PROVE  line' \in Seq(Operation)
  <1>1. [by |-> who, op |-> op] \in Operation
    BY DEF Operation
  <1> QED
    BY <1>1, LastInLine DEF Joins, Typed, GatewayTypeOK

LEMMA MonitorTyped == ASSUME Typed, MonitorSteps \/ WindowPasses PROVE Typed'
  <1>1. line' \in Seq(Operation)
    BY JoinTyped DEF MonitorSteps, Ticks, SeesLive, Probes, SeesGone, Pauses, Defers, Restarts, WindowPasses,
                     Typed, GatewayTypeOK
  <1>2. streak' \in 0..Streak
    <2>1. Streak \in Nat \ {0} /\ streak \in 0..Streak
      BY LimitsAssumption DEF Typed, GatewayTypeOK
    <2>2. (streak + 1) % Streak \in 0..Streak /\ 0 \in 0..Streak
      BY <2>1
    <2> QED
      BY <2>1, <2>2 DEF MonitorSteps, Ticks, SeesLive, Probes, SeesGone, Pauses, Defers, Restarts, WindowPasses
  <1>3. restarts' \in 0..Budget
    <2>1. Budget \in Nat /\ restarts \in 0..Budget
      BY LimitsAssumption DEF Typed, GatewayTypeOK
    <2> QED
      BY <2>1 DEF MonitorSteps, Ticks, SeesLive, Probes, SeesGone, Pauses, Defers, Restarts, WindowPasses
  <1>4. /\ mon' \in {"idle", "called", "live", "probe", "gone", "recover"}
        /\ deferred' \in BOOLEAN /\ due' \in BOOLEAN
    BY DEF MonitorSteps, Ticks, SeesLive, Probes, SeesGone, Pauses, Defers, Restarts, WindowPasses,
           Quitting, Typed, GatewayTypeOK
  <1>5. MonitorKeeps
    BY DEF MonitorSteps, Ticks, SeesLive, Probes, SeesGone, Pauses, Defers, Restarts, WindowPasses
  <1> QED
    BY <1>1, <1>2, <1>3, <1>4, <1>5
       DEF Typed, GatewayTypeOK, LaunchNamed, MonitorKeeps, service, memory, pipe, bounds

LEMMA UserTyped ==
    ASSUME Typed, Calls("start") \/ Calls("stop") \/ Quits \/ QuitStops \/ QuitCancelled
    PROVE  Typed'
  <1>1. line' \in Seq(Operation)
    BY JoinTyped DEF Calls, Quits, QuitStops, QuitCancelled, Typed, GatewayTypeOK
  <1>2. calls' \in 0..MaxCalls /\ quits' \in 0..MaxQuits /\ UNCHANGED <<troubles, exits>>
    BY BoundsAssumption DEF Calls, Quits, QuitStops, QuitCancelled, bounds, Typed, GatewayTypeOK
  <1>3. quit' \in {"no", "fenced", "stopped", "unstopped"}
    BY DEF Calls, Quits, QuitStops, QuitCancelled, Typed, GatewayTypeOK
  <1>4. UNCHANGED <<service, pipe, phase, owned, at, monitor, history>>
    BY DEF Calls, Quits, QuitStops, QuitCancelled, QuitKeeps
  <1> QED
    BY <1>1, <1>2, <1>3, <1>4 DEF Typed, GatewayTypeOK, LaunchNamed, service, memory, pipe, monitor, history

LEMMA EndTyped == ASSUME Typed, Dies \/ Exits PROVE Typed'
  <1>1. wire' \in Exchange /\ line' \in Seq(Operation) /\ at' = "begin"
    <2>1. Silence \in Exchange
      BY DEF Silence, Exchange, Outcome, Maybe
    <2>2. <<[by |-> "boot", op |-> "init"]>> \in Seq(Operation)
      BY DEF Operation
    <2> QED
      BY <2>1, <2>2 DEF Dies, Exits, Ends
  <1>2. late' \in SUBSET Message
    BY DEF Dies, Exits, Ends, Typed, GatewayTypeOK, Message, Exchange, Pending
  <1>3. busy' = None \/ busy' \in Execution
    BY DEF Dies, Exits, Ends, Typed, GatewayTypeOK, Execution, Taken
  <1>4. strays' \in SUBSET Sessions /\ None \in Maybe
    BY BoundsAssumption DEF Dies, Exits, Ends, Typed, GatewayTypeOK, Sessions, Maybe
  <1>5. 0 \in 0..Streak /\ 0 \in 0..Budget
    BY LimitsAssumption
  <1>6. troubles' \in 0..MaxTroubles /\ UNCHANGED <<exits, calls, quits>>
    BY BoundsAssumption DEF Dies, Exits, Trouble, bounds, Typed, GatewayTypeOK
  <1>7. Ends
    BY DEF Dies, Exits
  <1> QED
    BY <1>1, <1>2, <1>3, <1>4, <1>5, <1>6, <1>7 DEF Ends, Typed, GatewayTypeOK, LaunchNamed, memory

LEMMA StepsTyped == Typed /\ [Next]_vars => Typed'
  <1> SUFFICES ASSUME Typed, [Next]_vars PROVE Typed'
    OBVIOUS
  <1>1. CASE UNCHANGED vars
    BY <1>1 DEF vars, service, memory, pipe, gateway, monitor, history, bounds, Typed, GatewayTypeOK,
                 LaunchNamed
  <1>2. CASE Next
    BY <1>2, ServiceTyped, PipeTyped, GatewayTyped, MonitorTyped, UserTyped, EndTyped DEF Next
  <1> QED
    BY <1>1, <1>2

\* Every variable of the gateway, of the client, of the monitor and of the
\* service keeps its type.
THEOREM GatewayTypeCorrect == Spec => []GatewayTypeOK
  <1>1. Typed => GatewayTypeOK
    BY DEF Typed
  <1> QED
    BY <1>1, InitTyped, StepsTyped, PTL DEF Spec

-----------------------------------------------------------------------------
(* The service. *)

ServiceFacts ==
    /\ core # None => (core = claim /\ core = held) \/ Recording
    /\ busy # None => up
    /\ busy # None /\ busy.mine => late = {}
    /\ Recording => core \in {None, busy.sid}
    /\ busy # None /\ busy.op = "clear" => core = None
    /\ ~up => core = None

GatewayOrUser ==
    \/ GatewaySteps \/ MonitorSteps \/ WindowPasses
    \/ Calls("start") \/ Calls("stop") \/ Quits \/ QuitStops \/ QuitCancelled

LEMMA ServiceLeftAlone == GatewayOrUser => UNCHANGED <<service, late>>
  <1>1. GatewaySteps => UNCHANGED <<service, late>>
    BY DEF GatewaySteps, Stays, InitAsks, InitAsked, InitStopped, StartBegins, StartRetries, StartAsked,
           StaleStopped, Launched, LaunchUnclear, Relaunches, Ready, NotReady, ReadyTimesOut, Aborted,
           ReadyAsked, StartFailed, StopBegins, StopAnswered, PollAsks, PollGone, PollAnswered, DeclaresLost
  <1>2. MonitorSteps \/ WindowPasses => UNCHANGED <<service, late>>
    BY DEF MonitorSteps, Ticks, SeesLive, Probes, SeesGone, Pauses, Defers, Restarts, WindowPasses,
           MonitorKeeps, pipe
  <1>3. Calls("start") \/ Calls("stop") \/ Quits \/ QuitStops \/ QuitCancelled => UNCHANGED <<service, late>>
    BY DEF Calls, Quits, QuitStops, QuitCancelled, QuitKeeps, pipe
  <1> QED
    BY <1>1, <1>2, <1>3 DEF GatewayOrUser

\* A request nobody waits for any more is executed like any other.
HandOver == Unreachable \/ Breaks \/ TimesOut \/ Dies \/ Exits

LEMMA HandsOver ==
    ASSUME Typed, HandOver
    PROVE  /\ UNCHANGED <<up, core, escaped, claim, held>>
           /\ \/ busy' = busy
              \/ /\ busy # None /\ busy' # None /\ busy' \in Execution
                 /\ busy.mine /\ busy'.mine = FALSE
                 /\ busy'.op = busy.op /\ busy'.sid = busy.sid
           /\ busy' # None /\ busy'.mine => late' = late
  <1>1. UNCHANGED <<up, core, escaped, claim, held>>
    BY DEF HandOver, Breaks, TimesOut, Unreachable, Dies, Exits, Ends, service, memory
  <1>2. \/ busy' = busy /\ (late' = late \/ ~Taken)
        \/ Taken /\ busy' = [busy EXCEPT !.mine = FALSE]
    BY DEF HandOver, Breaks, TimesOut, Unreachable, Dies, Exits, Ends, service
  <1>3. ASSUME Taken, busy' = [busy EXCEPT !.mine = FALSE]
        PROVE  /\ busy # None /\ busy' # None /\ busy' \in Execution
               /\ busy.mine /\ busy'.mine = FALSE
               /\ busy'.op = busy.op /\ busy'.sid = busy.sid
    <2>1. busy # None /\ busy.mine /\ busy \in Execution
      BY <1>3 DEF Taken, Typed, GatewayTypeOK
    <2>2. busy' \in Execution /\ busy'.mine = FALSE /\ busy'.op = busy.op /\ busy'.sid = busy.sid
      BY <1>3, <2>1 DEF Execution
    <2> QED
      BY <2>1, <2>2, NoneAssumption
  <1> QED
    BY <1>1, <1>2, <1>3 DEF Taken

\* What a request is while the service executes it.
LEMMA Executed ==
    ASSUME Typed, busy # None
    PROVE  /\ busy \in Execution /\ busy.op \in {"start", "record", "clear"}
           /\ busy.sid \in Sessions /\ busy.mine \in BOOLEAN
           /\ [busy EXCEPT !.op = "record"] # None
           /\ [busy EXCEPT !.op = "record"].op = "record"
           /\ [busy EXCEPT !.op = "record"].sid = busy.sid
           /\ [busy EXCEPT !.op = "record"].mine = busy.mine
  <1>1. busy \in Execution
    BY DEF Typed, GatewayTypeOK
  <1>2. [busy EXCEPT !.op = "record"] \in Execution
    BY <1>1 DEF Execution
  <1> QED
    BY <1>1, <1>2, NoneAssumption DEF Execution

LEMMA Executions ==
    ASSUME NEW op \in {"start", "clear"}, NEW s \in Sessions, NEW mine \in BOOLEAN
    PROVE  [op |-> op, sid |-> s, mine |-> mine] # None
  <1>1. [op |-> op, sid |-> s, mine |-> mine] \in Execution
    BY DEF Execution
  <1> QED
    BY <1>1, NoneAssumption

\* A core that is recorded and remembered stays so through a reconcile, and what
\* is said of it is true.
LEMMA ReconcileTrue ==
    ASSUME Typed, core # None => core = claim /\ core = held,
           NEW out, NEW of, NEW ok, Reconciles(out, of, ok)
    PROVE  /\ core # None => core = claim' /\ core = held'
           /\ claim' = claim \/ (claim' = None /\ core = None)
           /\ out = "running" => of # None /\ of = core
           /\ out = "stopped" => core = None
  BY DEF Reconciles, Unread, NoRecord, Adopts, Unsure, Forgets, ForgetFails, Verifies, memory

LEMMA ServiceFactsKept == ASSUME Typed, ServiceFacts, [Next]_vars PROVE ServiceFacts'
  <1> USE DEF Recording
  <1>0. /\ None \notin Sessions /\ core \in Sessions \cup {None} /\ claim \in Sessions \cup {None}
        /\ held \in Sessions \cup {None}
    BY NoneAssumption DEF Typed, GatewayTypeOK, Maybe
  <1>1. CASE UNCHANGED <<service, late>>
    BY <1>1 DEF ServiceFacts, service, memory
  <1>2. CASE HandOver
    BY <1>2, HandsOver DEF ServiceFacts
  <1>3. ASSUME NEW mine \in BOOLEAN, ServeReconcile(mine) PROVE ServiceFacts'
    <2>1. busy = None /\ up /\ UNCHANGED <<up, core, busy>>
      BY <1>3 DEF ServeReconcile, Request
    <2>2. core # None => core = claim' /\ core = held'
      BY <1>3, <2>1, ReconcileTrue DEF ServeReconcile, ServiceFacts
    <2> QED
      BY <2>1, <2>2 DEF ServiceFacts
  <1>4. ASSUME NEW mine \in BOOLEAN, NEW s \in Sessions, ServeStart(s, mine) PROVE ServiceFacts'
    BY <1>4, <1>0, Executions DEF ServeStart, Request, ServiceFacts, memory
  <1>5. ASSUME NEW mine \in BOOLEAN, NEW s \in Sessions, ServeStop(s, mine) PROVE ServiceFacts'
    BY <1>5, <1>0, Executions DEF ServeStop, Request, Refuses, ServiceFacts, memory
  <1>6. CASE Recovers
    <2>1. /\ busy # None /\ busy.op = "start" /\ (busy' = busy \/ busy' = None)
          /\ UNCHANGED <<up, core, late>>
      BY <1>6 DEF Recovers
    <2>2. core # None => core = claim' /\ core = held'
      BY <1>6, <2>1, ReconcileTrue DEF Recovers, ServiceFacts
    <2> QED
      BY <2>1, <2>2 DEF ServiceFacts
  <1>7. CASE Launches
    BY <1>7, <1>0, Executed DEF Launches, Starting, ServiceFacts, memory
  <1>8. CASE Records \/ RecordFails \/ Clears
    BY <1>8, <1>0, Executed DEF Records, RecordFails, Clears, ServiceFacts
  <1>9. CASE CoreExits \/ ServiceDies
    BY <1>9, <1>0 DEF CoreExits, ServiceDies, pipe, ServiceFacts, memory
  <1>11. CASE ServiceStarts
    BY <1>11 DEF ServiceStarts, pipe, ServiceFacts
  <1>10. CASE UNCHANGED vars
    BY <1>1, <1>10 DEF vars, pipe
  <1> QED
    BY <1>1, <1>2, <1>3, <1>4, <1>5, <1>6, <1>7, <1>8, <1>9, <1>10, <1>11, ServiceLeftAlone
       DEF Next, ServiceSteps, HandOver, GatewayOrUser

-----------------------------------------------------------------------------
(* The lease: the service as its client sees it is an instance of the abstract *)
(* service that ServiceManager implements.                                     *)

Running == IF core = None THEN {} ELSE {core}
Claimed == IF claim = None THEN None ELSE [sid |-> claim, pid |-> claim]

LEMMA LeaseSteps == ASSUME Typed, ServiceFacts, [Next]_vars PROVE [Lease!Next]_(Lease!vars)
  <1> USE DEF Lease!Next, Lease!Truthful
  <1>0. None \notin Sessions /\ core \in Sessions \cup {None} /\ claim \in Sessions \cup {None}
    BY NoneAssumption DEF Typed, GatewayTypeOK, Maybe
  <1>1. ASSUME UNCHANGED <<core, claim>> PROVE Lease!Next
    BY <1>1 DEF Lease!Answers
  <1>2. ASSUME core' = None, UNCHANGED claim PROVE Lease!Next
    BY <1>1, <1>2 DEF Lease!Ended
  <1>3. ASSUME core = None, UNCHANGED core, claim' = None PROVE Lease!Next
    <2>1. CASE Claimed = None
      BY <1>3, <2>1 DEF Lease!Answers, Claimed
    <2>2. CASE Claimed # None
      BY <1>3, <2>2 DEF Lease!Revoke, Claimed
    <2> QED
      BY <2>1, <2>2
  <1>4. ASSUME NEW s \in Sessions, core = None, core' = s, UNCHANGED claim PROVE Lease!Next
    BY <1>0, <1>4 DEF Lease!Launch
  <1>5. ASSUME NEW s \in Sessions, core \in {None, s}, UNCHANGED core, claim' = s PROVE Lease!Next
    BY <1>0, <1>5 DEF Lease!Grant
  <1>6. CASE GatewayOrUser \/ HandOver \/ UNCHANGED vars
    BY <1>1, <1>6, ServiceLeftAlone, HandsOver DEF vars, service
  <1>7. ASSUME NEW mine \in BOOLEAN, ServeReconcile(mine) PROVE Lease!Next
    BY <1>1, <1>3, <1>7, ReconcileTrue DEF ServeReconcile, Request, ServiceFacts, Recording
  <1>8. ASSUME NEW mine \in BOOLEAN, NEW s \in Sessions, ServeStart(s, mine) \/ ServeStop(s, mine) PROVE Lease!Next
    BY <1>1, <1>2, <1>8 DEF ServeStart, ServeStop
  <1>9. CASE Recovers
    BY <1>1, <1>3, <1>9, ReconcileTrue DEF Recovers, ServiceFacts, Recording
  <1>10. CASE Launches
    BY <1>0, <1>1, <1>4, <1>10, Executed DEF Launches, Starting, ServiceFacts, Recording
  <1>11. CASE Records
    BY <1>5, <1>11, Executed DEF Records, Recording, ServiceFacts
  <1>15. CASE RecordFails
    BY <1>2, <1>15 DEF RecordFails
  <1>12. CASE Clears
    BY <1>1, <1>3, <1>12 DEF Clears, ServiceFacts
  <1>13. CASE CoreExits \/ ServiceDies
    BY <1>1, <1>2, <1>13 DEF CoreExits, ServiceDies
  <1>14. CASE ServiceStarts
    BY <1>1, <1>3, <1>14, ReconcileTrue DEF ServiceStarts, ServiceFacts
  <1> QED
    BY <1>15, <1>6, <1>7, <1>8, <1>9, <1>10, <1>11, <1>12, <1>13, <1>14
       DEF Next, ServiceSteps, HandOver, GatewayOrUser

\* What the desktop assumes of the service is what the service promises: one
\* core, and a claim that is never given up while its core lives.
THEOREM LeaseKept == Spec => ServiceKeepsLease
  <1>1. Init => Lease!Init /\ ServiceFacts
    BY DEF Init, Lease!Init, ServiceFacts
  <1>2. Typed /\ ServiceFacts /\ [Next]_vars => ServiceFacts'
    BY ServiceFactsKept
  <1>3. Typed /\ ServiceFacts /\ [Next]_vars => [Lease!Next]_(Lease!vars)
    BY LeaseSteps
  <1> QED
    BY <1>1, <1>2, <1>3, InitTyped, StepsTyped, PTL DEF Spec, ServiceKeepsLease, Lease!Spec

-----------------------------------------------------------------------------
(* The invariant. *)

Pollings == {"poll", "lost"}

\* What may stand in the queue: the first operation of a process at its head,
\* and behind the stop of a quit nothing that starts a core.
Orderly(l, q, p) ==
    /\ \A i \in DOMAIN l :
          /\ l[i].op = "init" <=> l[i].by = "boot"
          /\ l[i].by = "boot" => i = 1 /\ p = "stopped"
          /\ l[i].by = "quit" => q = "fenced" /\ l[i].op = "stop"
          /\ q \in {"stopped", "unstopped"} => l[i].op \in Pollings
    /\ \A i, j \in DOMAIN l :
          i < j /\ l[i].by = "quit" => l[j].op \in Pollings /\ l[j].by # "quit"
    /\ q = "stopped" => p = "stopped"

LineFacts == Orderly(line, quit, phase)

\* Where an operation is, and what it waits for.
StepFacts ==
    /\ wire.op = "none" <=> at \in {"begin", "ready"}
    /\ wire.op = "start" <=> at = "launch"
    /\ at # "begin" => line # <<>>
    /\ at \in {"launch", "ready"} => Head(line).op = "start"
    /\ at # "begin" /\ Head(line).op = "start" => phase = "starting"
    /\ at = "launch" => owned = None
    /\ strays \subseteq 1..issued
    /\ core # None => core <= issued
    /\ busy # None /\ busy.mine =>
          /\ Pending /\ wire.sid = busy.sid
          /\ wire.op = IF busy.op = "clear" THEN "stop" ELSE "start"

Sure  == wire.out \in {"running", "stopped", "stopping", "failed", "conflict"}
Given == wire.out \in {"unreachable", "timeout"}

\* A start nobody waits for can still come to a core.
Foreign(s) ==
    \/ [op |-> "start", sid |-> s] \in late
    \/ busy # None /\ ~busy.mine /\ busy.op \in {"start", "record"} /\ busy.sid = s

NoForeign == \A s \in Sessions : ~Foreign(s)

StrayFacts ==
    /\ \A s \in Sessions :
          Foreign(s) => s \in strays \/ (at = "launch" /\ s = wire.sid /\ Given)
    /\ Sure \/ phase = "running" \/ at = "ready" => NoForeign

\* The core of a start that is under way.
Coming ==
    /\ at = "launch" /\ core = wire.sid
    /\ wire.out = "running" \/ Given \/ (busy # None /\ busy.mine /\ busy.op = "record")

OwnFacts ==
    /\ wire.out = "running" => core \in {None, wire.of} /\ wire.of # None
    /\ wire.out = "running" /\ at = "launch" => wire.of = wire.sid
    /\ wire.out = "stopped" => core = None
    /\ at = "ready" => core \in {None, owned}
    /\ core # None /\ core \notin strays => core = owned \/ Coming
    /\ phase = "running" => core \in {None, owned}
    /\ phase = "stopped" => core \in strays \cup {None}

Inv == Typed /\ ServiceFacts /\ LineFacts /\ StepFacts /\ StrayFacts /\ OwnFacts

-----------------------------------------------------------------------------
(* The service keeps it. *)

\* Who waits for a reply, and what a reply leaves behind.
LEMMA Answered ==
    ASSUME Inv, NEW out \in Spoken, NEW of,
           NEW mine \in BOOLEAN, mine => Pending, Replies(mine, out, of)
    PROVE  /\ wire'.op = wire.op /\ wire'.sid = wire.sid
           /\ mine => wire'.out = out /\ wire'.of = of /\ ~Sure /\ ~Given
           /\ ~mine => wire' = wire
  BY DEF Inv, Typed, GatewayTypeOK, Exchange, Replies, Pending, Sure, Given, Spoken

\* No start is left to be executed but those that were.
LEMMA ForeignOnly ==
    ASSUME Inv, ServiceSteps \/ CoreExits \/ ServiceDies
    PROVE  /\ \A s \in Sessions : Foreign(s)' => Foreign(s)
           /\ wire' # wire => Pending /\ (Sure' => NoForeign)
           /\ wire'.op = wire.op /\ wire'.sid = wire.sid
  <1> DEFINE P == /\ \A s \in Sessions : Foreign(s)' => Foreign(s)
                  /\ wire' # wire => Pending /\ (Sure' => NoForeign)
                  /\ wire'.op = wire.op /\ wire'.sid = wire.sid
  <1>1. ASSUME NEW mine \in BOOLEAN, NEW out \in Spoken, NEW of,
               Replies(mine, out, of), mine => Pending /\ NoForeign
        PROVE  /\ wire' # wire => Pending /\ (Sure' => NoForeign)
               /\ wire'.op = wire.op /\ wire'.sid = wire.sid
    BY <1>1, Answered
  <1>2. busy # None /\ busy.mine => Pending /\ NoForeign
    BY DEF Inv, StepFacts, ServiceFacts, NoForeign, Foreign
  <1>3. \A m : Request(m, TRUE) => Pending /\ NoForeign
    BY DEF Request, NoForeign, Foreign
  <1>4. busy # None => busy.mine \in BOOLEAN
    BY Executed DEF Inv
  <1>5. ASSUME NEW mine \in BOOLEAN, ServeReconcile(mine) PROVE P
    <2>1. \A s \in Sessions : Foreign(s)' => Foreign(s)
      BY <1>5 DEF ServeReconcile, Request, Foreign
    <2>2. PICK out \in Spoken, of \in Maybe : Replies(mine, out, of)
      BY <1>5, ReconcileTyped DEF ServeReconcile, Inv
    <2>3. mine => Pending /\ NoForeign
      BY <1>3, <1>5 DEF ServeReconcile
    <2> QED
      BY <2>1, <2>2, <2>3, <1>1
  <1>6. ASSUME NEW mine \in BOOLEAN, NEW s \in Sessions, ServeStart(s, mine) PROVE P
    BY <1>6 DEF ServeStart, Request, Foreign
  <1>7. ASSUME NEW mine \in BOOLEAN, NEW s \in Sessions, ServeStop(s, mine) PROVE P
    <2>1. \A t \in Sessions : Foreign(t)' => Foreign(t)
      BY <1>7 DEF ServeStop, Request, Foreign
    <2> QED
      BY <2>1, <1>1, <1>3, <1>7 DEF ServeStop, Spoken
  <1>8. CASE Recovers
    <2>1. \A s \in Sessions : Foreign(s)' => Foreign(s)
      BY <1>8 DEF Recovers, Foreign
    <2> QED
      BY <2>1, <1>1, <1>2, <1>4, <1>8 DEF Recovers, Spoken
  <1>9. CASE Launches
    <2>1. \A s \in Sessions : Foreign(s)' => Foreign(s)
      BY <1>9, Executed DEF Launches, Starting, Foreign, Inv
    <2> QED
      BY <2>1, <1>1, <1>2, <1>4, <1>9 DEF Launches, Starting, Spoken
  <1>10. CASE Records \/ RecordFails \/ Clears
    <2>1. \A s \in Sessions : Foreign(s)' => Foreign(s)
      BY <1>10 DEF Records, RecordFails, Recording, Clears, Foreign
    <2> QED
      BY <2>1, <1>1, <1>2, <1>4, <1>10 DEF Records, RecordFails, Recording, Clears, Spoken
  <1>11. CASE ServiceStarts \/ CoreExits
    BY <1>11 DEF ServiceStarts, CoreExits, pipe, Foreign
  <1>12. CASE ServiceDies
    <2>1. \A s \in Sessions : ~Foreign(s)'
      BY <1>12 DEF ServiceDies, Foreign
    <2>2. wire' # wire => Pending /\ ~Sure'
      BY <1>12 DEF ServiceDies, Sure, Inv, Typed, GatewayTypeOK, Exchange
    <2>3. wire'.op = wire.op /\ wire'.sid = wire.sid
      BY <1>12 DEF ServiceDies, Inv, Typed, GatewayTypeOK, Exchange
    <2> QED
      BY <2>1, <2>2, <2>3
  <1> QED
    BY <1>5, <1>6, <1>7, <1>8, <1>9, <1>10, <1>11, <1>12 DEF ServiceSteps

\* What a step of the service does not touch.
LEMMA ServiceTouches ==
    ASSUME ServiceSteps \/ CoreExits \/ ServiceDies
    PROVE  UNCHANGED <<phase, owned, line, at, quit, issued, strays>>
  BY DEF ServiceSteps, ServeReconcile, ServeStart, ServeStop, Recovers, Launches, Records, RecordFails,
         Clears, ServiceStarts, CoreExits, ServiceDies, ServiceKeeps, gateway, history

\* A core appears by a launch alone.
LEMMA CoreAppears ==
    ASSUME Inv, ServiceSteps \/ CoreExits \/ ServiceDies
    PROVE  \/ core' = None \/ core' = core
           \/ /\ Launches /\ wire' = wire
              /\ busy # None /\ core' = busy.sid /\ core' \in Sessions
              /\ busy' # None /\ busy'.op = "record" /\ busy'.mine = busy.mine
              /\ IF busy.mine THEN at = "launch" /\ wire.sid = core' ELSE Foreign(core')
  <1>1. CASE Launches
    <2>1. busy # None /\ busy.op = "start"
      BY <1>1 DEF Launches, Starting
    <2>2. busy.mine \in BOOLEAN /\ busy.sid \in Sessions
      BY <2>1, Executed DEF Inv
    <2>3. busy.mine => at = "launch" /\ wire.sid = busy.sid
      BY <2>1 DEF Inv, StepFacts
    <2>4. ~busy.mine => Foreign(busy.sid)
      BY <2>1 DEF Foreign
    <2> QED
      BY <1>1, <2>1, <2>2, <2>3, <2>4, Executed DEF Launches, Starting, Inv
  <1>2. CASE ~Launches
    BY <1>2 DEF ServiceSteps, ServeReconcile, ServeStart, ServeStop, Recovers, Records, RecordFails, Clears,
                ServiceStarts, CoreExits, ServiceDies
  <1> QED
    BY <1>1, <1>2

LEMMA ServiceStep ==
    ASSUME Inv, ServiceSteps \/ CoreExits \/ ServiceDies
    PROVE  StepFacts'
  <1>1. UNCHANGED <<phase, owned, line, at, issued, strays>> /\ wire'.op = wire.op /\ wire'.sid = wire.sid
    BY ServiceTouches, ForeignOnly
  <1>2. core' # None => core' <= issued
    <2>1. at = "launch" => wire.sid = issued
      BY DEF Inv, Typed, LaunchNamed
    <2>2. \A s \in Sessions : Foreign(s) => s <= issued
      BY <2>1, BoundsAssumption DEF Inv, StrayFacts, StepFacts, Sessions, Typed, GatewayTypeOK
    <2>3. \A s \in Sessions : s = issued => s <= issued
      BY BoundsAssumption DEF Sessions
    <2> QED
      BY <2>1, <2>2, <2>3, CoreAppears DEF Inv, StepFacts
  <1> DEFINE Mine == busy' # None /\ busy'.mine =>
                        /\ Pending' /\ wire'.sid = busy'.sid
                        /\ wire'.op = IF busy'.op = "clear" THEN "stop" ELSE "start"
  <1>3. UNCHANGED <<wire, busy>> => Mine
    BY DEF Inv, StepFacts, Pending
  <1>4. busy' = None => Mine
    OBVIOUS
  <1>5. ASSUME NEW mine \in BOOLEAN, ServeReconcile(mine) PROVE Mine
    BY <1>4, <1>5 DEF ServeReconcile, Request
  <1>6. ASSUME NEW mine \in BOOLEAN, NEW s \in Sessions, ServeStart(s, mine) PROVE Mine
    <2>1. busy'.mine = mine /\ busy'.sid = s /\ busy'.op = "start" /\ wire' = wire
      BY <1>6 DEF ServeStart
    <2>2. mine => Pending /\ wire.op = "start" /\ wire.sid = s
      BY <1>6 DEF ServeStart, Request
    <2> QED
      BY <2>1, <2>2 DEF Pending
  <1>7. ASSUME NEW mine \in BOOLEAN, NEW s \in Sessions, ServeStop(s, mine) PROVE Mine
    <2>1. CASE busy' = busy
      BY <1>4, <1>7, <2>1 DEF ServeStop, Request
    <2>2. CASE busy' # busy
      <3>1. busy'.mine = mine /\ busy'.sid = s /\ busy'.op = "clear" /\ wire' = wire
        BY <1>7, <2>2 DEF ServeStop
      <3>2. mine => Pending /\ wire.op = "stop" /\ wire.sid = s
        BY <1>7 DEF ServeStop, Request
      <3> QED
        BY <3>1, <3>2 DEF Pending
    <2> QED
      BY <2>1, <2>2
  <1>8. ASSUME Recovers PROVE Mine
    BY <1>3, <1>4, <1>8 DEF Recovers
  <1>9. ASSUME Launches PROVE Mine
    <2>1. CASE busy' = None
      BY <1>4, <2>1
    <2>2. CASE busy' # None
      BY <1>9, <2>2, Executed DEF Launches, Starting, Inv, StepFacts, Pending
    <2> QED
      BY <2>1, <2>2
  <1>10. ASSUME Records \/ RecordFails \/ Clears \/ ServiceDies PROVE Mine
    BY <1>4, <1>10 DEF Records, RecordFails, Clears, ServiceDies
  <1>11. ASSUME ServiceStarts \/ CoreExits PROVE Mine
    BY <1>3, <1>11 DEF ServiceStarts, CoreExits, pipe
  <1>12. Mine
    BY <1>5, <1>6, <1>7, <1>8, <1>9, <1>10, <1>11 DEF ServiceSteps
  <1> QED
    BY <1>1, <1>2, <1>12 DEF Inv, StepFacts

LEMMA ServiceStray ==
    ASSUME Inv, ServiceSteps \/ CoreExits \/ ServiceDies
    PROVE  StrayFacts'
  <1>1. UNCHANGED <<phase, at, strays>> /\ wire'.sid = wire.sid
    BY ServiceTouches, ForeignOnly
  <1>2. ASSUME NEW s \in Sessions, Foreign(s)'
        PROVE  s \in strays \/ (at = "launch" /\ s = wire.sid /\ Given')
    <2>1. Foreign(s)
      BY <1>2, ForeignOnly
    <2>2. Given => Given'
      BY ForeignOnly DEF Pending, Given
    <2> QED
      BY <2>1, <2>2 DEF Inv, StrayFacts
  <1>3. Sure' \/ phase = "running" \/ at = "ready" => NoForeign
    BY ForeignOnly DEF Inv, StrayFacts, Sure
  <1>4. NoForeign => NoForeign'
    BY ForeignOnly DEF NoForeign
  <1> QED
    BY <1>1, <1>2, <1>3, <1>4 DEF StrayFacts

\* A reply about the core is true.
LEMMA RepliesTrue ==
    ASSUME Inv, ServiceSteps \/ CoreExits \/ ServiceDies, wire' # wire
    PROVE  /\ wire'.out = "running" => core' \in {None, wire'.of} /\ wire'.of # None
           /\ wire'.out = "running" /\ at = "launch" => wire'.of = wire.sid
           /\ wire'.out = "stopped" => core' = None
           /\ busy' # None => ~busy'.mine
  <1> DEFINE Told == /\ wire'.out = "running" => core' \in {None, wire'.of} /\ wire'.of # None
                     /\ wire'.out = "running" /\ at = "launch" => wire'.of = wire.sid
                     /\ wire'.out = "stopped" => core' = None
                     /\ busy' # None => ~busy'.mine
  <1>0. /\ None \notin Sessions /\ core \in Sessions \cup {None} /\ claim \in Sessions \cup {None}
        /\ wire.op = "start" <=> at = "launch"
    BY NoneAssumption DEF Inv, Typed, GatewayTypeOK, Maybe, StepFacts
  <1>1. ASSUME NEW mine \in BOOLEAN, ServeReconcile(mine) PROVE Told
    <2>1. mine /\ Pending /\ wire.op = "reconcile" /\ busy = None /\ busy' = busy /\ core' = core
      BY <1>1 DEF ServeReconcile, Request, Replies
    <2>2. core # None => core = claim /\ core = held
      BY <2>1 DEF Inv, ServiceFacts, Recording
    <2>3. PICK out, of, ok : Reconciles(out, of, ok) /\ Replies(mine, out, of)
      BY <1>1 DEF ServeReconcile
    <2>4. /\ out \in Spoken
          /\ out = "running" => of # None /\ of = core
          /\ out = "stopped" => core = None
      BY <2>2, <2>3, ReconcileTyped, ReconcileTrue DEF Inv
    <2>5. wire'.out = out /\ wire'.of = of
      BY <2>1, <2>3, <2>4, Answered
    <2> QED
      BY <1>0, <2>1, <2>4, <2>5
  <1>2. ASSUME NEW mine \in BOOLEAN, NEW s \in Sessions, ServeStart(s, mine) PROVE FALSE
    BY <1>2 DEF ServeStart
  <1>3. ASSUME NEW mine \in BOOLEAN, NEW s \in Sessions, ServeStop(s, mine) PROVE Told
    <2>1. mine /\ Pending /\ wire.op = "stop" /\ busy = None /\ busy' = busy /\ core' = core
      BY <1>3 DEF ServeStop, Request, Replies
    <2>2. core # None => core = held
      BY <2>1 DEF Inv, ServiceFacts, Recording
    <2> QED
      BY <1>0, <1>3, <2>1, <2>2, Answered DEF ServeStop, Spoken
  <1>4. ASSUME Recovers \/ Launches \/ Records \/ RecordFails \/ Clears PROVE Told
    <2>1. busy # None /\ busy.mine /\ busy' = None
      BY <1>4 DEF Recovers, Launches, Starting, Records, RecordFails, Recording, Clears, Replies
    <2>2. Pending /\ wire.sid = busy.sid /\ busy.sid \in Sessions
      BY <2>1, Executed DEF Inv, StepFacts
    <2>3. busy.op = "record" => core \in {None, busy.sid}
      BY <2>1 DEF Inv, ServiceFacts, Recording
    <2>4. busy.op = "clear" => core = None
      BY <2>1 DEF Inv, ServiceFacts
    <2>5. CASE Recovers \/ Launches
      BY <1>0, <2>1, <2>2, <2>5, Answered DEF Recovers, Launches, Spoken
    <2>6. CASE Records \/ RecordFails
      BY <1>0, <2>1, <2>2, <2>3, <2>6, Answered DEF Records, RecordFails, Recording, Spoken
    <2>7. CASE Clears
      BY <1>0, <2>1, <2>2, <2>4, <2>7, Answered DEF Clears, Spoken
    <2> QED
      BY <1>4, <2>5, <2>6, <2>7
  <1>5. ASSUME ServiceStarts \/ CoreExits PROVE Told
    BY <1>5 DEF ServiceStarts, CoreExits, pipe
  <1>6. ASSUME ServiceDies PROVE Told
    BY <1>6 DEF ServiceDies, Inv, Typed, GatewayTypeOK, Exchange
  <1> QED
    BY <1>1, <1>2, <1>3, <1>4, <1>5, <1>6 DEF ServiceSteps

LEMMA ServiceOwn ==
    ASSUME Inv, ServiceSteps \/ CoreExits \/ ServiceDies
    PROVE  OwnFacts'
  <1>1. UNCHANGED <<phase, owned, line, at, strays>> /\ wire'.op = wire.op /\ wire'.sid = wire.sid
    BY ServiceTouches, ForeignOnly
  <1>2. at = "launch" => phase = "starting"
    BY DEF Inv, StepFacts
  <1>3. ASSUME core' # None, core' # core
        PROVE  /\ wire' = wire /\ phase # "running" /\ at # "ready" /\ ~Sure
               /\ core' \in strays \/ Coming'
    <2>1. /\ wire' = wire /\ busy # None /\ core' = busy.sid /\ core' \in Sessions
          /\ busy' # None /\ busy'.op = "record" /\ busy'.mine = busy.mine
          /\ IF busy.mine THEN at = "launch" /\ wire.sid = core' ELSE Foreign(core')
      BY <1>3, CoreAppears
    <2>2. CASE busy.mine
      <3>1. Pending
        BY <2>1, <2>2 DEF Inv, StepFacts
      <3>2. Coming'
        BY <1>1, <2>1, <2>2 DEF Coming
      <3> QED
        BY <1>2, <2>1, <2>2, <3>1, <3>2 DEF Pending, Sure
    <2>3. CASE ~busy.mine
      <3>1. phase # "running" /\ at # "ready" /\ ~Sure
        BY <2>1, <2>3 DEF Inv, StrayFacts, NoForeign
      <3>2. core' \in strays \/ (at = "launch" /\ core' = wire.sid /\ Given)
        BY <2>1, <2>3 DEF Inv, StrayFacts
      <3> QED
        BY <1>1, <2>1, <3>1, <3>2 DEF Coming, Given
    <2> QED
      BY <2>2, <2>3
  <1>4. core' = core /\ Coming => Coming'
    <2> SUFFICES ASSUME core' = core, Coming PROVE Coming'
      OBVIOUS
    <2>1. wire' = wire \/ Pending
      BY ForeignOnly
    <2>2. CASE wire.out = "running" \/ Given
      BY <1>1, <2>1, <2>2 DEF Coming, Pending, Given
    <2>3. CASE busy # None /\ busy.mine /\ busy.op = "record"
      <3>1. CASE Records
        <4>1. wire'.out = "running"
          BY <2>3, <3>1 DEF Records, Replies, Inv, Typed, GatewayTypeOK, Exchange
        <4> QED
          BY <1>1, <4>1 DEF Coming
      <3>2. CASE ServiceDies
        <4>1. wire'.out = "unreachable"
          BY <2>3, <3>2 DEF ServiceDies, Inv, StepFacts, Typed, GatewayTypeOK, Exchange
        <4> QED
          BY <1>1, <4>1 DEF Coming, Given
      <3>4. CASE RecordFails
        BY <3>4, NoneAssumption DEF RecordFails, Coming, Inv, Typed, LaunchNamed
      <3>3. CASE ~Records /\ ~RecordFails /\ ~ServiceDies
        <4>1. busy' = busy
          BY <2>3, <3>3 DEF ServiceSteps, ServeReconcile, ServeStart, ServeStop, Request, Recovers, Launches,
                            Starting, Clears, ServiceStarts, CoreExits
        <4> QED
          BY <1>1, <2>3, <4>1 DEF Coming
      <3> QED
        BY <3>1, <3>2, <3>3, <3>4
    <2> QED
      BY <2>2, <2>3 DEF Coming
  <1>5. core' = None \/ core' = core \/ (core' # None /\ core' # core)
    OBVIOUS
  <1>6. /\ wire'.out = "running" => core' \in {None, wire'.of} /\ wire'.of # None
        /\ wire'.out = "running" /\ at = "launch" => wire'.of = wire.sid
        /\ wire'.out = "stopped" => core' = None
    <2>1. CASE wire' # wire
      BY <2>1, RepliesTrue
    <2>2. CASE wire' = wire
      BY <1>3, <1>5, <2>2 DEF Inv, OwnFacts, Sure
    <2> QED
      BY <2>1, <2>2
  <1>7. at = "ready" => core' \in {None, owned}
    BY <1>3, <1>5 DEF Inv, OwnFacts
  <1>8. core' # None /\ core' \notin strays => core' = owned \/ Coming'
    BY <1>3, <1>4, <1>5 DEF Inv, OwnFacts
  <1>9. phase = "running" => core' \in {None, owned}
    BY <1>3, <1>5 DEF Inv, OwnFacts
  <1>10. phase = "stopped" => core' \in strays \cup {None}
    BY <1>1, <1>2, <1>3, <1>5 DEF Inv, OwnFacts, Coming
  <1> QED
    BY <1>1, <1>6, <1>7, <1>8, <1>9, <1>10 DEF OwnFacts

LEMMA ServiceKeepsInv ==
    ASSUME Inv, ServiceSteps \/ CoreExits \/ ServiceDies
    PROVE  LineFacts' /\ StepFacts' /\ StrayFacts' /\ OwnFacts'
  <1>1. LineFacts'
    BY ServiceTouches DEF Inv, LineFacts, Orderly
  <1> QED
    BY <1>1, ServiceStep, ServiceStray, ServiceOwn

-----------------------------------------------------------------------------
(* So does the pipe, whoever gives up on a request. *)

LEMMA PipeKeepsInv ==
    ASSUME Inv, Unreachable \/ Breaks \/ TimesOut
    PROVE  LineFacts' /\ StepFacts' /\ StrayFacts' /\ OwnFacts'
  <1>1. /\ UNCHANGED <<phase, owned, line, at, quit, issued, strays>>
        /\ wire'.op = wire.op /\ wire'.sid = wire.sid /\ Given' /\ Pending /\ wire'.out \notin {"running", "stopped"}
    BY DEF Unreachable, Breaks, TimesOut, ServiceKeeps, gateway, history, Given,
           Inv, Typed, GatewayTypeOK, Exchange
  <1>2. /\ core' = core
        /\ \/ busy' = busy
           \/ /\ busy # None /\ busy' # None /\ busy.mine /\ busy'.mine = FALSE
              /\ busy'.op = busy.op /\ busy'.sid = busy.sid
        /\ busy' # None /\ busy'.mine => late' = late
    BY HandsOver DEF HandOver, Inv
  <1>3. busy' # None => ~busy'.mine
    BY DEF Unreachable, Breaks, TimesOut, Taken, Inv, Typed, GatewayTypeOK, Execution, ServiceFacts, service
  <1>4. LineFacts'
    BY <1>1 DEF Inv, LineFacts, Orderly
  <1>5. StepFacts'
    BY <1>1, <1>2, <1>3 DEF Inv, StepFacts
  <1>6. \A s \in Sessions : Foreign(s)' => Foreign(s) \/ (at = "launch" /\ s = wire.sid)
    <2> SUFFICES ASSUME NEW s \in Sessions, Foreign(s)' PROVE Foreign(s) \/ (at = "launch" /\ s = wire.sid)
      OBVIOUS
    <2>1. CASE [op |-> "start", sid |-> s] \in late' /\ [op |-> "start", sid |-> s] \notin late
      <3>1. [op |-> "start", sid |-> s] = [op |-> wire.op, sid |-> wire.sid]
        BY <2>1 DEF Unreachable, Breaks, TimesOut
      <3>2. wire.op = "start" /\ wire.sid = s
        BY <3>1
      <3> QED
        BY <3>2 DEF Inv, StepFacts
    <2>2. CASE busy' # None /\ ~busy'.mine /\ busy'.op \in {"start", "record"} /\ busy'.sid = s /\ busy' # busy
      BY <1>2, <2>2 DEF Inv, StepFacts
    <2> QED
      BY <2>1, <2>2 DEF Foreign
  <1>7. StrayFacts'
    <2>1. \A s \in Sessions : Foreign(s)' => s \in strays \/ (at = "launch" /\ s = wire.sid)
      BY <1>6 DEF Inv, StrayFacts
    <2>2. ~Sure'
      BY <1>1 DEF Sure, Given
    <2>3. phase = "running" \/ at = "ready" => NoForeign /\ at # "launch"
      BY DEF Inv, StrayFacts, StepFacts
    <2>4. phase = "running" \/ at = "ready" => NoForeign'
      BY <1>6, <2>3 DEF NoForeign
    <2> QED
      BY <1>1, <2>1, <2>2, <2>4 DEF StrayFacts
  <1>8. OwnFacts'
    <2>1. Coming => Coming'
      BY <1>1, <1>2 DEF Coming
    <2> QED
      BY <1>1, <1>2, <2>1 DEF Inv, OwnFacts
  <1> QED
    BY <1>4, <1>5, <1>7, <1>8

-----------------------------------------------------------------------------
(* The queue stays in order. *)

LEMMA OrderlyTail ==
    ASSUME NEW l \in Seq(Operation), l # <<>>, NEW q, NEW p, NEW r, Orderly(l, q, p),
           NEW k, k = IF Head(l).by # "quit" THEN q ELSE IF r = "stopped" THEN "stopped" ELSE "unstopped",
           k = "stopped" => r = "stopped"
    PROVE  Orderly(Tail(l), k, r)
  <1>1. /\ 1 \in DOMAIN l /\ Head(l) = l[1]
        /\ \A i \in DOMAIN Tail(l) : i \in Nat \ {0} /\ i + 1 \in DOMAIN l /\ Tail(l)[i] = l[i + 1]
    BY FirstInLine
  <1>2. ASSUME NEW i \in DOMAIN Tail(l)
        PROVE  /\ Tail(l)[i].by # "boot"
               /\ Tail(l)[i].op = "init" <=> Tail(l)[i].by = "boot"
               /\ Tail(l)[i].by = "quit" => k = "fenced" /\ Tail(l)[i].op = "stop"
               /\ k \in {"stopped", "unstopped"} => Tail(l)[i].op \in Pollings
    <2>1. i \in Nat \ {0} /\ i + 1 \in DOMAIN l /\ Tail(l)[i] = l[i + 1] /\ i + 1 # 1 /\ 1 < i + 1
      BY <1>1
    <2>2. l[i + 1].by # "boot" /\ (l[i + 1].op = "init" <=> l[i + 1].by = "boot")
      BY <2>1 DEF Orderly
    <2>3. CASE Head(l).by # "quit"
      BY <2>1, <2>2, <2>3 DEF Orderly
    <2>4. CASE Head(l).by = "quit"
      BY <1>1, <2>1, <2>2, <2>4 DEF Orderly
    <2> QED
      BY <2>3, <2>4
  <1>3. ASSUME NEW i \in DOMAIN Tail(l), NEW j \in DOMAIN Tail(l), i < j, Tail(l)[i].by = "quit"
        PROVE  Tail(l)[j].op \in Pollings /\ Tail(l)[j].by # "quit"
    <2>1. i + 1 < j + 1 /\ i + 1 \in DOMAIN l /\ j + 1 \in DOMAIN l /\ Tail(l)[i] = l[i + 1] /\ Tail(l)[j] = l[j + 1]
      BY <1>1, <1>3
    <2> QED
      BY <1>3, <2>1 DEF Orderly
  <1> QED
    BY <1>2, <1>3 DEF Orderly

LEMMA OrderlyAppend ==
    ASSUME NEW l \in Seq(Operation), NEW q, NEW p, NEW e \in Operation, Orderly(l, q, p),
           e.by # "boot", e.op # "init",
           e.by = "quit" => q = "fenced" /\ e.op = "stop",
           e.op \notin Pollings => q \notin {"stopped", "unstopped"},
           e.op \notin Pollings \/ e.by = "quit" => \A i \in DOMAIN l : l[i].by # "quit"
    PROVE  Orderly(Append(l, e), q, p)
  <1>1. \A i \in DOMAIN Append(l, e) :
           /\ i \in Nat \ {0}
           /\ \/ i \in DOMAIN l /\ Append(l, e)[i] = l[i]
              \/ Append(l, e)[i] = e /\ \A j \in DOMAIN Append(l, e) : j <= i
    BY LastInLine
  <1>2. ASSUME NEW i \in DOMAIN Append(l, e), NEW j \in DOMAIN Append(l, e), i < j, Append(l, e)[i].by = "quit"
        PROVE  Append(l, e)[j].op \in Pollings /\ Append(l, e)[j].by # "quit"
    <2>1. i \in DOMAIN l /\ Append(l, e)[i] = l[i]
      BY <1>1, <1>2
    <2>2. CASE j \in DOMAIN l /\ Append(l, e)[j] = l[j]
      BY <1>2, <2>1, <2>2 DEF Orderly
    <2>3. CASE Append(l, e)[j] = e
      BY <1>2, <2>1, <2>3
    <2> QED
      BY <1>1, <2>2, <2>3
  <1> QED
    BY <1>1, <1>2 DEF Orderly

\* What the operation at the head says about status and quit.
LEMMA HeadFacts ==
    ASSUME Inv, line # <<>>
    PROVE  /\ Head(line).op = "init" => phase = "stopped" /\ Head(line).by = "boot"
           /\ Head(line).op # "init" => \A i \in DOMAIN line : line[i].by # "boot"
           /\ Head(line).by = "quit" => Head(line).op = "stop"
           /\ quit \in {"stopped", "unstopped"} => Head(line).op \in Pollings
           /\ quit = "stopped" => phase = "stopped"
  <1>1. 1 \in DOMAIN line /\ Head(line) = line[1]
    BY FirstInLine DEF Inv, Typed, GatewayTypeOK
  <1>2. Head(line).op # "init" => line[1].by # "boot"
    BY <1>1 DEF Inv, LineFacts, Orderly
  <1> QED
    BY <1>1, <1>2 DEF Inv, LineFacts, Orderly

LEMMA GatewayLine ==
    ASSUME Inv, GatewaySteps
    PROVE  LineFacts' /\ line # <<>>
  <1>1. line # <<>>
    BY DEF GatewaySteps, InitAsks, InitAsked, InitStopped, StartBegins, StartRetries, StartAsked,
           StaleStopped, Launched, LaunchUnclear, Relaunches, Ready, NotReady, ReadyTimesOut, Aborted,
           ReadyAsked, StartFailed, StopBegins, StopAnswered, PollAsks, PollGone, PollAnswered, DeclaresLost,
           Got, Doing
  <1>2. Head(line).op = "init" => phase' = "stopped"
    <2> SUFFICES ASSUME Head(line).op = "init" PROVE phase' = "stopped"
      OBVIOUS
    <2>1. phase = "stopped"
      BY <1>1, HeadFacts
    <2> QED
      BY <2>1
         DEF GatewaySteps, InitAsks, InitAsked, InitStopped, StartBegins, StartRetries, StartAsked,
             StaleStopped, Launched, LaunchUnclear, Relaunches, Ready, NotReady, ReadyTimesOut, Aborted,
             ReadyAsked, StartFailed, StopBegins, StopAnswered, PollAsks, PollGone, PollAnswered, DeclaresLost,
             Got, Doing
  <1>3. quit = "stopped" => phase' = "stopped"
    <2> SUFFICES ASSUME quit = "stopped" PROVE phase' = "stopped"
      OBVIOUS
    <2>1. phase = "stopped" /\ Head(line).op \in Pollings
      BY <1>1, HeadFacts
    <2> QED
      BY <2>1
         DEF GatewaySteps, InitAsks, InitAsked, InitStopped, StartBegins, StartRetries, StartAsked,
             StaleStopped, Launched, LaunchUnclear, Relaunches, Ready, NotReady, ReadyTimesOut, Aborted,
             ReadyAsked, StartFailed, StopBegins, StopAnswered, PollAsks, PollGone, PollAnswered, DeclaresLost,
             Got, Doing, Believed, Pollings
  <1>4. (line' = line /\ quit' = quit) \/ \E result : Returns(result)
    BY Zenon DEF GatewaySteps, InitAsks, InitAsked, InitStopped, StartBegins, StartRetries, StartAsked,
           StaleStopped, Launched, LaunchUnclear, Relaunches, Ready, NotReady, ReadyTimesOut, Aborted,
           ReadyAsked, StartFailed, StopBegins, StopAnswered, PollAsks, PollGone, PollAnswered, DeclaresLost,
           Ask, Fails, Requests
  <1>5. CASE line' = line /\ quit' = quit
    <2>1. \A i \in DOMAIN line : line[i].by = "boot" => phase' = "stopped"
      BY <1>1, <1>2, HeadFacts
    <2> QED
      BY <1>1, <1>3, <1>5, <2>1 DEF Inv, LineFacts, Orderly
  <1>6. CASE \E result : Returns(result)
    <2>1. /\ line' = Tail(line)
          /\ quit' = IF Head(line).by # "quit" THEN quit
                     ELSE IF phase' = "stopped" THEN "stopped" ELSE "unstopped"
      BY <1>6 DEF Returns
    <2>2. line \in Seq(Operation) /\ Orderly(line, quit, phase)
      BY DEF Inv, Typed, GatewayTypeOK, LineFacts
    <2>3. Orderly(Tail(line), quit', phase')
      BY <1>1, <1>3, <2>1, <2>2, OrderlyTail
    <2> QED
      BY <1>1, <2>1, <2>3 DEF LineFacts
  <1> QED
    BY <1>4, <1>5, <1>6

-----------------------------------------------------------------------------
(* Where a step of the gateway leaves its operation. *)

\* Nobody works for the gateway while it takes a step.
LEMMA GatewayAlone ==
    ASSUME Inv, GatewaySteps
    PROVE  /\ ~Pending /\ (busy # None => ~busy.mine)
           /\ UNCHANGED <<up, core, claim, held, busy, late>>
           /\ \A s \in Sessions : Foreign(s)' <=> Foreign(s)
  <1>1. ~Pending
    BY DEF GatewaySteps, InitAsks, InitAsked, InitStopped, StartBegins, StartRetries, StartAsked,
           StaleStopped, Launched, LaunchUnclear, Relaunches, Ready, NotReady, ReadyTimesOut, Aborted,
           ReadyAsked, StartFailed, StopBegins, StopAnswered, PollAsks, PollGone, PollAnswered, DeclaresLost,
           Got, Doing, Pending, Inv, StepFacts
  <1>2. UNCHANGED <<up, core, claim, held, busy, late>>
    BY ServiceLeftAlone DEF GatewayOrUser, service, memory
  <1> QED
    BY <1>1, <1>2 DEF Inv, StepFacts, Foreign

Ended ==
    /\ wire'.out = "none"
    /\ wire'.op = "none" <=> at' \in {"begin", "ready"}
    /\ wire'.op = "start" <=> at' = "launch"
    /\ at' # "begin" => line' = line
    /\ at' \in {"launch", "ready"} => Head(line).op = "start"
    /\ at' # "begin" /\ Head(line).op = "start" => phase' = "starting"
    /\ at' = "launch" => owned' = None
    /\ issued' \in {issued, issued + 1}

LEMMA AskEnds ==
    ASSUME NEW op \in {"stop", "reconcile"}, NEW s,
           NEW step \in {"asked", "stale", "relaunch", "readying", "cleanup"},
           Ask(op, s, step), issued' = issued, Head(line).op = "start" => phase' = "starting"
    PROVE  Ended /\ at' \notin {"launch", "ready"}
  BY DEF Ask, Ended

LEMMA ReturnEnds ==
    ASSUME NEW result, Returns(result), issued' = issued
    PROVE  Ended /\ at' \notin {"launch", "ready"}
  BY DEF Returns, Ended, Silence

LEMMA ReadyEnds ==
    ASSUME at' = "ready", wire' = Silence, UNCHANGED <<line, issued>>, phase' = "starting", Head(line).op = "start"
    PROVE  Ended
  BY DEF Ended, Silence

LEMMA FailEnds ==
    ASSUME Inv, NEW own, Fails(own), phase = "starting"
    PROVE  /\ Ended /\ at' \notin {"launch", "ready"} /\ owned' = own
           /\ phase' \in {"starting", "failed"} /\ UNCHANGED issued
  <1>1. CASE own = None
    BY <1>1, ReturnEnds DEF Fails
  <1>2. CASE own # None
    <2>1. Ask("stop", own, "cleanup") /\ phase' = phase /\ owned' = own /\ UNCHANGED issued
      BY <1>2 DEF Fails
    <2> QED
      BY <2>1, AskEnds
  <1> QED
    BY <1>1, <1>2

LEMMA RequestEnds ==
    ASSUME Inv, NEW own, Requests(own), phase = "starting", Head(line).op = "start"
    PROVE  /\ Ended /\ at' # "ready" /\ owned' = own
           /\ phase' \in {"starting", "failed"}
  <1>1. CASE own = None /\ issued < MaxStarts
    <2>1. /\ issued' = issued + 1 /\ owned' = own
          /\ Ask("start", issued', "launch") /\ phase' = phase
      BY <1>1 DEF Requests
    <2> QED
      BY <1>1, <2>1 DEF Ask, Ended
  <1>2. CASE ~(own = None /\ issued < MaxStarts)
    BY <1>2, FailEnds DEF Requests
  <1> QED
    BY <1>1, <1>2

\* What a step of the gateway must leave true of the core.
Accounted ==
    /\ Ended
    /\ Sure \/ strays \subseteq strays'
    /\ at = "launch" /\ Given => wire.sid \in strays'
    /\ \A s \in strays' : s \in strays \/ s = core \/ (at = "launch" /\ s = wire.sid)
    /\ core # None /\ core \notin strays' => core = owned'
    /\ at' = "ready" => core \in {None, owned'} /\ NoForeign
    /\ phase' = "running" => NoForeign /\ core \in {None, owned'}
    /\ phase' = "stopped" => core \in strays' \cup {None}

LEMMA AccountedKeeps ==
    ASSUME Inv, GatewaySteps, Accounted
    PROVE  StepFacts' /\ StrayFacts' /\ OwnFacts'
  <1>1. /\ ~Pending /\ (busy # None => ~busy.mine)
        /\ UNCHANGED <<core, busy, late>>
        /\ \A s \in Sessions : Foreign(s)' <=> Foreign(s)
    BY GatewayAlone
  <1>2. issued \in Nat /\ issued' \in {issued, issued + 1}
    BY BoundsAssumption DEF Accounted, Ended, Inv, Typed, GatewayTypeOK
  <1>3. core # None => core \in 1..issued /\ core <= issued'
    BY <1>2, BoundsAssumption DEF Inv, StepFacts, Typed, GatewayTypeOK, Maybe, Sessions
  <1>4. strays' \subseteq 1..issued'
    <2>1. core # None => core \in 1..issued'
      BY <1>2, <1>3
    <2>2. strays \subseteq 1..issued'
      BY <1>2 DEF Inv, StepFacts
    <2>3. at = "launch" => wire.sid \in 1..issued'
      BY <1>2, BoundsAssumption DEF Inv, Typed, LaunchNamed, Sessions
    <2>4. core \in strays' => core # None
      BY NoneAssumption, StepsTyped DEF Inv, Typed, GatewayTypeOK, Next
    <2> QED
      BY <2>1, <2>2, <2>3, <2>4 DEF Accounted
  <1>5. StepFacts'
    BY <1>1, <1>3, <1>4, GatewayLine DEF Accounted, Ended, StepFacts
  <1>6. StrayFacts'
    <2>1. ~Sure' /\ ~Given'
      BY DEF Accounted, Ended, Sure, Given
    <2>2. ASSUME NEW s \in Sessions, Foreign(s)' PROVE s \in strays'
      BY <1>1, <2>2 DEF Accounted, Inv, StrayFacts, NoForeign
    <2>3. phase' = "running" \/ at' = "ready" => NoForeign'
      BY <1>1 DEF Accounted, NoForeign
    <2> QED
      BY <2>1, <2>2, <2>3 DEF StrayFacts
  <1>7. OwnFacts'
    BY <1>1 DEF Accounted, Ended, OwnFacts
  <1> QED
    BY <1>5, <1>6, <1>7

\* What the answer that has come says about the core.
LEMMA AnswerFacts ==
    ASSUME Inv
    PROVE  /\ at # "launch" /\ core # None /\ core \notin strays => core = owned
           /\ wire.out = "running" => core \in {None, wire.of}
           /\ wire.out = "running" /\ at = "launch" => wire.of = wire.sid
           /\ wire.out = "stopped" => core = None
           /\ Sure => NoForeign
           /\ phase = "running" => NoForeign /\ core \in {None, owned}
           /\ phase = "stopped" => core \in strays \cup {None}
           /\ at = "ready" => NoForeign /\ core \in {None, owned}
           /\ at # "begin" /\ Head(line).op = "start" => phase = "starting"
           /\ Head(line).op = "init" /\ line # <<>> => phase = "stopped"
  BY HeadFacts DEF Inv, OwnFacts, StrayFacts, StepFacts, Coming

LEMMA InitAccounted ==
    ASSUME Inv, InitAsks \/ InitAsked \/ InitStopped
    PROVE  Accounted
  <1> USE AnswerFacts DEF Accounted, Got, Doing, Sure, Given
  <1>1. CASE InitAsks
    <2>1. Ended /\ at' \notin {"launch", "ready"}
      BY <1>1, AskEnds DEF InitAsks, history
    <2> QED
      BY <1>1, <2>1 DEF InitAsks, history
  <1>2. CASE InitAsked
    <2>1. Ended /\ at' \notin {"launch", "ready"}
      BY <1>2, AskEnds, ReturnEnds DEF InitAsked
    <2>2. strays' = IF wire.out = "stopped" THEN {} ELSE strays
      BY <1>2 DEF InitAsked, Settles
    <2> QED
      BY <1>2, <2>1, <2>2 DEF InitAsked, OwnedAfter
  <1>3. CASE InitStopped
    <2>1. Ended /\ at' \notin {"launch", "ready"}
      BY <1>3, ReturnEnds DEF InitStopped
    <2>2. strays' = IF wire.out = "stopped" THEN {} ELSE strays
      BY <1>3 DEF InitStopped, Settles
    <2> QED
      BY <1>3, <2>1, <2>2 DEF InitStopped, OwnedAfterStop
  <1> QED
    BY <1>1, <1>2, <1>3

LEMMA StartAccounted ==
    ASSUME Inv,
           \/ StartBegins \/ StartRetries \/ StartAsked \/ StaleStopped \/ Launched \/ LaunchUnclear
           \/ Relaunches \/ Ready \/ NotReady \/ ReadyTimesOut \/ Aborted \/ ReadyAsked \/ StartFailed
    PROVE  Accounted
  <1> USE AnswerFacts DEF Got, Doing, Sure, Given
  <1>1. CASE StartBegins
    <2>1. Ended /\ at' \notin {"launch", "ready"}
      BY <1>1, AskEnds, ReturnEnds DEF StartBegins
    <2> QED
      BY <1>1, <2>1 DEF StartBegins, Accounted
  <1>2. CASE StartRetries \/ NotReady
    <2>1. Ended /\ at' \notin {"launch", "ready"}
      BY <1>2, AskEnds DEF StartRetries, NotReady, history
    <2> QED
      BY <1>2, <2>1 DEF StartRetries, NotReady, history, Accounted
  <1>3. CASE StartAsked
    <2>1. phase = "starting" /\ Head(line).op = "start" /\ at = "asked"
      BY <1>3 DEF StartAsked
    <2>2. strays' = IF wire.out \in {"running", "stopped"} THEN {} ELSE strays
      BY <1>3 DEF StartAsked, Settles
    <2>3. CASE wire.out = "running"
      <3>1. Ended /\ at' \notin {"launch", "ready"}
        BY <1>3, <2>1, <2>3, AskEnds DEF StartAsked
      <3> QED
        BY <1>3, <2>1, <2>2, <2>3, <3>1 DEF StartAsked, Accounted
    <2>4. CASE wire.out \in {"stopped", "failed"}
      <3>1. Requests(OwnedAfter)
        BY <1>3, <2>4 DEF StartAsked
      <3> QED
        BY <2>1, <2>2, <2>4, <3>1, RequestEnds DEF OwnedAfter, Accounted
    <2>5. CASE wire.out \notin {"running", "stopped", "failed"}
      <3>1. Fails(owned)
        BY <1>3, <2>5 DEF StartAsked
      <3> QED
        BY <2>1, <2>2, <2>5, <3>1, FailEnds DEF Accounted
    <2> QED
      BY <2>3, <2>4, <2>5
  <1>4. CASE StaleStopped
    <2>1. phase = "starting" /\ Head(line).op = "start" /\ at = "stale"
      BY <1>4 DEF StaleStopped
    <2>2. strays' = IF wire.out = "stopped" THEN {} ELSE strays
      BY <1>4 DEF StaleStopped, Settles
    <2>3. IF wire.out = "stopped" THEN Requests(None) ELSE Fails(owned)
      BY <1>4 DEF StaleStopped
    <2> QED
      BY <2>1, <2>2, <2>3, RequestEnds, FailEnds DEF Accounted
  <1>5. CASE Launched
    <2>1. phase = "starting" /\ Head(line).op = "start" /\ at = "launch" /\ wire.out # "none"
      BY <1>5 DEF Launched
    <2>2. CASE wire.out = "running"
      <3>1. Ended
        BY <1>5, <2>1, <2>2, ReadyEnds DEF Launched
      <3> QED
        BY <1>5, <2>1, <2>2, <3>1 DEF Launched, Accounted
    <2>3. CASE wire.out # "running"
      <3>1. Fails(owned) /\ strays' = IF Given THEN strays \cup {wire.sid} ELSE strays
        BY <1>5, <2>3 DEF Launched
      <3>2. core # None /\ core \notin strays => core = owned \/ (core = wire.sid /\ Given)
        BY <2>1, <2>3 DEF Inv, OwnFacts, Coming, StepFacts, Pending
      <3> QED
        BY <2>1, <2>3, <3>1, <3>2, FailEnds DEF Accounted
    <2> QED
      BY <2>2, <2>3
  <1>6. CASE LaunchUnclear
    <2>1. phase = "starting" /\ Head(line).op = "start" /\ at = "launch" /\ Given
      BY <1>6 DEF LaunchUnclear
    <2>2. core # None /\ core \notin strays => core = owned \/ core = wire.sid
      BY DEF Inv, OwnFacts, Coming
    <2>3. Ended /\ at' \notin {"launch", "ready"}
      BY <1>6, <2>1, AskEnds DEF LaunchUnclear
    <2> QED
      BY <1>6, <2>1, <2>2, <2>3 DEF LaunchUnclear, Accounted
  <1>7. CASE Relaunches
    <2>1. phase = "starting" /\ Head(line).op = "start" /\ at = "relaunch"
      BY <1>7 DEF Relaunches
    <2>2. strays' = IF wire.out \in {"running", "stopped"} THEN {} ELSE strays
      BY <1>7 DEF Relaunches, Settles
    <2>3. CASE wire.out = "running"
      <3>1. Ended
        BY <1>7, <2>1, <2>3, ReadyEnds DEF Relaunches
      <3> QED
        BY <1>7, <2>1, <2>2, <2>3, <3>1 DEF Relaunches, Accounted
    <2>4. CASE wire.out # "running"
      <3>1. Requests(OwnedAfter)
        BY <1>7, <2>4 DEF Relaunches
      <3> QED
        BY <2>1, <2>2, <2>4, <3>1, RequestEnds DEF OwnedAfter, Accounted
    <2> QED
      BY <2>3, <2>4
  <1>8. CASE Ready
    <2>1. Ended /\ at' \notin {"launch", "ready"}
      BY <1>8, ReturnEnds DEF Ready, history
    <2> QED
      BY <1>8, <2>1 DEF Ready, history, Accounted
  <1>9. CASE ReadyTimesOut \/ Aborted
    <2>1. phase = "starting" /\ Fails(owned) /\ strays' = strays /\ at = "ready"
      BY <1>9 DEF ReadyTimesOut, Aborted
    <2> QED
      BY <2>1, FailEnds DEF Accounted
  <1>10. CASE ReadyAsked
    <2>1. phase = "starting" /\ Head(line).op = "start" /\ at = "readying"
      BY <1>10 DEF ReadyAsked
    <2>2. strays' = IF wire.out \in {"running", "stopped"} THEN {} ELSE strays
      BY <1>10 DEF ReadyAsked, Settles
    <2>3. CASE wire.out = "running"
      <3>1. Ended
        BY <1>10, <2>1, <2>3, ReadyEnds DEF ReadyAsked
      <3> QED
        BY <1>10, <2>1, <2>2, <2>3, <3>1 DEF ReadyAsked, Accounted
    <2>4. CASE wire.out # "running"
      <3>1. Fails(OwnedAfter)
        BY <1>10, <2>4 DEF ReadyAsked
      <3> QED
        BY <2>1, <2>2, <2>4, <3>1, FailEnds DEF OwnedAfter, Accounted
    <2> QED
      BY <2>3, <2>4
  <1>11. CASE StartFailed
    <2>1. Ended /\ at' \notin {"launch", "ready"}
      BY <1>11, ReturnEnds DEF StartFailed
    <2>2. strays' = IF wire.out = "stopped" THEN {} ELSE strays
      BY <1>11 DEF StartFailed, Settles
    <2> QED
      BY <1>11, <2>1, <2>2 DEF StartFailed, OwnedAfterStop, Accounted
  <1> QED
    BY <1>1, <1>2, <1>3, <1>4, <1>5, <1>6, <1>7, <1>8, <1>9, <1>10, <1>11

LEMMA StopAccounted == ASSUME Inv, StopBegins \/ StopAnswered PROVE Accounted
  <1> USE AnswerFacts DEF Got, Doing, Sure, Given
  <1>1. CASE StopBegins
    <2>1. Ended /\ at' \notin {"launch", "ready"}
      BY <1>1, AskEnds, ReturnEnds DEF StopBegins
    <2> QED
      BY <1>1, <2>1 DEF StopBegins, Accounted
  <1>2. CASE StopAnswered
    <2>1. Ended /\ at' \notin {"launch", "ready"}
      BY <1>2, ReturnEnds DEF StopAnswered
    <2>2. strays' = IF wire.out = "stopped" THEN {} ELSE strays
      BY <1>2 DEF StopAnswered, Settles
    <2> QED
      BY <1>2, <2>1, <2>2 DEF StopAnswered, OwnedAfterStop, Accounted
  <1> QED
    BY <1>1, <1>2

LEMMA PollAccounted ==
    ASSUME Inv, PollAsks \/ PollGone \/ PollAnswered \/ DeclaresLost
    PROVE  Accounted
  <1> USE AnswerFacts DEF Got, Doing, Sure, Given
  <1>1. CASE PollAsks
    <2>1. Ended /\ at' \notin {"launch", "ready"}
      BY <1>1, AskEnds DEF PollAsks, history
    <2> QED
      BY <1>1, <2>1 DEF PollAsks, history, Accounted
  <1>2. CASE PollGone
    <2>1. Ended /\ at' \notin {"launch", "ready"}
      BY <1>2, ReturnEnds DEF PollGone
    <2>2. CASE Believed /\ core # None
      BY <1>2, <2>1, <2>2 DEF PollGone, Accounted
    <2>3. CASE Believed /\ core = None
      BY <1>2, <2>1, <2>3 DEF PollGone, Settles, Accounted
    <2>4. CASE ~Believed
      <3>1. strays' = IF wire.out = "stopped" THEN {} ELSE strays
        BY <1>2, <2>4 DEF PollGone, Settles
      <3> QED
        BY <1>2, <2>1, <2>4, <3>1 DEF PollGone, OwnedAfter, Dead, Believed, Accounted
    <2> QED
      BY <2>2, <2>3, <2>4
  <1>3. CASE PollAnswered
    <2>1. Ended /\ at' \notin {"launch", "ready"}
      <3>1. \E result : Returns(result) /\ issued' = issued
        BY <1>3 DEF PollAnswered
      <3> QED
        BY <3>1, ReturnEnds
    <2>2. strays' = IF phase # "stopped" /\ wire.out = "running" THEN {} ELSE strays
      BY <1>3 DEF PollAnswered, Settles
    <2> QED
      BY <1>3, <2>1, <2>2 DEF PollAnswered, OwnedAfter, Dead, Accounted
  <1>4. CASE DeclaresLost
    <2>1. Ended /\ at' \notin {"launch", "ready"}
      BY <1>4, ReturnEnds DEF DeclaresLost
    <2>2. CASE Believed
      BY <1>4, <2>1, <2>2 DEF DeclaresLost, Accounted
    <2>3. CASE ~Believed
      BY <1>4, <2>1, <2>3 DEF DeclaresLost, Believed, Accounted
    <2> QED
      BY <2>2, <2>3
  <1> QED
    BY <1>1, <1>2, <1>3, <1>4

LEMMA GatewayKeepsInv ==
    ASSUME Inv, GatewaySteps
    PROVE  LineFacts' /\ StepFacts' /\ StrayFacts' /\ OwnFacts'
  <1>1. Accounted
    BY InitAccounted, StartAccounted, StopAccounted, PollAccounted DEF GatewaySteps
  <1> QED
    BY <1>1, AccountedKeeps, GatewayLine

-----------------------------------------------------------------------------
(* The monitor, the user, the quit, and the end of the process. *)

LEMMA AsideKeepsInv ==
    ASSUME Inv, MonitorSteps \/ WindowPasses \/ Calls("start") \/ Calls("stop")
                \/ Quits \/ QuitStops \/ QuitCancelled
    PROVE  LineFacts' /\ StepFacts' /\ StrayFacts' /\ OwnFacts'
  <1>1. UNCHANGED <<up, core, claim, held, busy, wire, late, phase, owned, at, issued, strays>>
    BY DEF MonitorSteps, Ticks, SeesLive, Probes, SeesGone, Pauses, Defers, Restarts, WindowPasses,
           MonitorKeeps, Calls, Quits, QuitStops, QuitCancelled, QuitKeeps, service, memory, pipe, history
  <1>2. \/ line' = line
        \/ \E who \in {"user", "monitor", "quit"}, op \in {"start", "stop", "poll", "lost"} : Joins(who, op)
    BY DEF MonitorSteps, Ticks, SeesLive, Probes, SeesGone, Pauses, Defers, Restarts, WindowPasses,
           Calls, Quits, QuitStops, QuitCancelled
  <1>3. line \in Seq(Operation) /\ Orderly(line, quit, phase)
    BY DEF Inv, Typed, GatewayTypeOK, LineFacts
  <1>4. line # <<>> => line' # <<>> /\ Head(line') = Head(line)
    <2>1. CASE line' = line
      BY <2>1
    <2>2. ASSUME NEW who \in {"user", "monitor", "quit"}, NEW op \in {"start", "stop", "poll", "lost"}, Joins(who, op)
          PROVE  line # <<>> => line' # <<>> /\ Head(line') = Head(line)
      <3>1. [by |-> who, op |-> op] \in Operation
        BY DEF Operation
      <3> QED
        BY <1>3, <2>2, <3>1, LastInLine DEF Joins
    <2> QED
      BY <1>2, <2>1, <2>2
  <1>5. StepFacts'
    BY <1>1, <1>4 DEF Inv, StepFacts, Pending
  <1>6. StrayFacts'
    BY <1>1 DEF Inv, StrayFacts, NoForeign, Foreign, Sure, Given
  <1>7. OwnFacts'
    BY <1>1 DEF Inv, OwnFacts, Coming, Given
  <1>8. ASSUME NEW who \in {"user", "monitor"}, NEW op \in {"start", "stop", "poll", "lost"}, Joins(who, op),
               quit' = quit, op \in Pollings \/ ~Quitting
        PROVE  LineFacts'
    <2>1. [by |-> who, op |-> op] \in Operation
      BY DEF Operation
    <2>2. ~Quitting => \A i \in DOMAIN line : line[i].by # "quit"
      BY <1>3 DEF Orderly, Quitting
    <2>3. Orderly(Append(line, [by |-> who, op |-> op]), quit, phase)
      BY <1>3, <1>8, <2>1, <2>2, OrderlyAppend DEF Quitting, Pollings
    <2> QED
      BY <1>1, <1>8, <2>3 DEF LineFacts, Joins
  <1>9. ASSUME MonitorSteps \/ WindowPasses PROVE LineFacts'
    <2>1. quit' = quit
      BY <1>9 DEF MonitorSteps, Ticks, SeesLive, Probes, SeesGone, Pauses, Defers, Restarts, WindowPasses, MonitorKeeps
    <2>2. line' = line \/ Joins("monitor", "poll") \/ Joins("monitor", "lost") \/ (Joins("monitor", "start") /\ ~Quitting)
      BY <1>9 DEF MonitorSteps, Ticks, SeesLive, Probes, SeesGone, Pauses, Defers, Restarts, WindowPasses
    <2>3. line' = line => LineFacts'
      BY <1>1, <1>3, <2>1 DEF LineFacts
    <2> QED
      BY <1>8, <2>1, <2>2, <2>3 DEF Pollings
  <1>10. ASSUME Calls("start") \/ Calls("stop") PROVE LineFacts'
    BY <1>8, <1>10 DEF Calls
  <1>11. ASSUME Quits PROVE LineFacts'
    <2>1. quit = "no" /\ quit' = "fenced" /\ line' = line
      BY <1>11 DEF Quits
    <2> QED
      BY <1>1, <1>3, <2>1 DEF LineFacts, Orderly
  <1>12. ASSUME QuitStops PROVE LineFacts'
    <2>1. /\ quit = "fenced" /\ quit' = quit /\ Joins("quit", "stop")
          /\ \A i \in DOMAIN line : line[i].by # "quit"
      BY <1>12 DEF QuitStops, InLine, bounds
    <2>2. [by |-> "quit", op |-> "stop"] \in Operation
      BY DEF Operation
    <2>3. Orderly(Append(line, [by |-> "quit", op |-> "stop"]), quit, phase)
      BY <1>3, <2>1, <2>2, OrderlyAppend DEF Pollings
    <2> QED
      BY <1>1, <2>1, <2>3 DEF LineFacts, Joins
  <1>13. ASSUME QuitCancelled PROVE LineFacts'
    <2>1. /\ quit = "fenced" /\ quit' = "no" /\ line' = line
          /\ \A i \in DOMAIN line : line[i].by # "quit"
      BY <1>13 DEF QuitCancelled, InLine
    <2> QED
      BY <1>1, <1>3, <2>1 DEF LineFacts, Orderly
  <1> QED
    BY <1>5, <1>6, <1>7, <1>9, <1>10, <1>11, <1>12, <1>13

LEMMA EndKeepsInv ==
    ASSUME Inv, Dies \/ Exits
    PROVE  LineFacts' /\ StepFacts' /\ StrayFacts' /\ OwnFacts'
  <1>1. /\ phase' = "stopped" /\ owned' = None /\ at' = "begin" /\ quit' = "no"
        /\ line' = <<[by |-> "boot", op |-> "init"]>>
        /\ wire'.op = "none" /\ wire'.out = "none"
        /\ strays' = 1..issued /\ issued' = issued
        /\ late' \subseteq late \cup {[op |-> wire.op, sid |-> wire.sid]}
    BY DEF Dies, Exits, Ends, Silence
  <1>2. /\ core' = core
        /\ \/ busy' = busy
           \/ /\ busy # None /\ busy' # None /\ busy.mine /\ busy'.mine = FALSE
              /\ busy'.op = busy.op /\ busy'.sid = busy.sid
    BY HandsOver DEF HandOver, Inv
  <1>3. busy' # None => ~busy'.mine
    BY DEF Dies, Exits, Ends, Taken, Inv, Typed, GatewayTypeOK, Execution
  <1>4. LineFacts'
    <2>1. DOMAIN line' = {1} /\ line'[1] = [by |-> "boot", op |-> "init"]
      BY <1>1
    <2> QED
      BY <1>1, <2>1 DEF LineFacts, Orderly
  <1>5. issued \in Nat /\ (core # None => core \in 1..issued)
    BY BoundsAssumption DEF Inv, StepFacts, Typed, GatewayTypeOK, Maybe, Sessions
  <1>6. StepFacts'
    BY <1>1, <1>2, <1>3, <1>5 DEF StepFacts
  <1>7. ASSUME NEW s \in Sessions, Foreign(s)' PROVE s \in 1..issued
    <2>1. Foreign(s) => s \in 1..issued
      BY DEF Inv, StrayFacts, StepFacts, Typed, LaunchNamed, Sessions
    <2>2. CASE [op |-> "start", sid |-> s] \in late' /\ [op |-> "start", sid |-> s] \notin late
      <3>1. [op |-> "start", sid |-> s] = [op |-> wire.op, sid |-> wire.sid]
        BY <1>1, <2>2
      <3>2. wire.op = "start" /\ wire.sid = s
        BY <3>1
      <3> QED
        BY <1>5, <3>2 DEF Inv, StepFacts, Typed, LaunchNamed, Sessions
    <2>3. CASE busy' # None /\ ~busy'.mine /\ busy'.op \in {"start", "record"} /\ busy'.sid = s /\ busy' # busy
      <3>1. wire.op = "start" /\ wire.sid = s
        BY <1>2, <2>3 DEF Inv, StepFacts
      <3> QED
        BY <1>5, <3>1 DEF Inv, StepFacts, Typed, LaunchNamed, Sessions
    <2> QED
      BY <1>7, <2>1, <2>2, <2>3 DEF Foreign
  <1>8. StrayFacts'
    BY <1>1, <1>7 DEF StrayFacts, Sure
  <1>9. OwnFacts'
    BY <1>1, <1>2, <1>5 DEF OwnFacts
  <1> QED
    BY <1>4, <1>6, <1>8, <1>9

-----------------------------------------------------------------------------
(* The theorems. *)

LEMMA InitInv == Init => Inv
  <1> SUFFICES ASSUME Init PROVE Inv
    OBVIOUS
  <1>1. line = <<[by |-> "boot", op |-> "init"]>> /\ DOMAIN line = {1} /\ line[1] = [by |-> "boot", op |-> "init"]
    BY DEF Init
  <1>2. LineFacts
    BY <1>1 DEF Init, LineFacts, Orderly
  <1> QED
    BY <1>2, InitTyped
       DEF Init, Inv, ServiceFacts, StepFacts, StrayFacts, NoForeign, Foreign, OwnFacts, Silence, Sure

LEMMA InvKept == Inv /\ [Next]_vars => Inv'
  <1> SUFFICES ASSUME Inv, [Next]_vars PROVE Inv'
    OBVIOUS
  <1>1. Typed' /\ ServiceFacts'
    BY StepsTyped, ServiceFactsKept DEF Inv
  <1>2. CASE UNCHANGED vars
    BY <1>1, <1>2
       DEF vars, service, pipe, gateway, history, Inv, LineFacts, StepFacts, Pending, StrayFacts, NoForeign,
           Foreign, OwnFacts, Coming, Sure, Given
  <1>3. CASE Next
    BY <1>1, <1>3, ServiceKeepsInv, PipeKeepsInv, GatewayKeepsInv, AsideKeepsInv, EndKeepsInv DEF Inv, Next
  <1> QED
    BY <1>2, <1>3

\* The conjunction of all these facts holds of every state of the gateway, the
\* pipe and the service.
THEOREM Invariance == Spec => []Inv
  BY InitInv, InvKept, PTL DEF Spec

\* A status "stopped" is true of the core the service answers for: there is none but
\* one whose start the client never heard the end of, and none at all once the
\* service has answered about it.
THEOREM StoppedIsTrue == Spec => []StoppedIsStopped
  <1>1. Inv => StoppedIsStopped
    BY DEF Inv, OwnFacts, StoppedIsStopped
  <1> QED
    BY <1>1, Invariance, PTL

\* The core that runs behind a status "running" is the one a stop would end.
THEOREM RunningIsStoppable == Spec => []RunningIsOwned
  <1>1. Inv => RunningIsOwned
    BY DEF Inv, OwnFacts, RunningIsOwned
  <1> QED
    BY <1>1, Invariance, PTL

\* Between the stop of a quit and the end of the process no core comes up.
THEOREM QuitIsFinal == Spec => []QuitLeavesNoCore
  <1>1. Inv => QuitLeavesNoCore
    BY DEF Inv, OwnFacts, LineFacts, Orderly, QuitLeavesNoCore
  <1> QED
    BY <1>1, Invariance, PTL

-----------------------------------------------------------------------------
(* An exit that was noticed is not forgotten. *)

\* The monitor polls, and waits for the one operation it has in the queue.
MonitorInLine ==
    /\ \A i \in DOMAIN line :
          /\ line[i].op \in Pollings => line[i].by = "monitor"
          /\ line[i].by = "monitor" => mon = "called"
    /\ \A i, j \in DOMAIN line : line[i].by = "monitor" /\ line[j].by = "monitor" => i = j

StopUnderWay == at # "begin" /\ Head(line).op = "stop" => phase = "stopping"

NoticeInv == Inv /\ NoticeKept /\ MonitorInLine /\ StopUnderWay

LEMMA NoticeStays ==
    ASSUME NoticeInv, UNCHANGED <<line, at, phase, mon, deferred, due>>
    PROVE  NoticeKept' /\ MonitorInLine' /\ StopUnderWay'
  BY DEF NoticeInv, NoticeKept, MonitorInLine, StopUnderWay

LEMMA MonitorTail ==
    ASSUME NoticeInv, line # <<>>, NEW result, Returns(result)
    PROVE  MonitorInLine'
  <1>1. /\ line' = Tail(line)
        /\ mon' = IF Head(line).by = "monitor" THEN result ELSE mon
    BY DEF Returns
  <1>2. line \in Seq(Operation) /\ MonitorInLine
    BY DEF NoticeInv, Inv, Typed, GatewayTypeOK
  <1>3. /\ 1 \in DOMAIN line /\ Head(line) = line[1]
        /\ \A i \in DOMAIN Tail(line) :
              i \in Nat \ {0} /\ i + 1 \in DOMAIN line /\ Tail(line)[i] = line[i + 1]
    BY <1>2, FirstInLine
  <1>4. ASSUME NEW i \in DOMAIN line'
        PROVE  /\ line'[i].op \in Pollings => line'[i].by = "monitor"
               /\ line'[i].by = "monitor" => mon' = "called"
    <2>1. i + 1 \in DOMAIN line /\ line'[i] = line[i + 1] /\ i + 1 # 1
      BY <1>1, <1>3
    <2>2. line[i + 1].by = "monitor" => line[1].by # "monitor"
      BY <1>2, <1>3, <2>1 DEF MonitorInLine
    <2> QED
      BY <1>1, <1>2, <1>3, <2>1, <2>2 DEF MonitorInLine
  <1>5. ASSUME NEW i \in DOMAIN line', NEW j \in DOMAIN line',
               line'[i].by = "monitor", line'[j].by = "monitor"
        PROVE  i = j
    <2>1. /\ i \in Nat /\ i + 1 \in DOMAIN line /\ line'[i] = line[i + 1]
          /\ j \in Nat /\ j + 1 \in DOMAIN line /\ line'[j] = line[j + 1]
      BY <1>1, <1>3
    <2>2. i + 1 = j + 1
      BY <1>2, <1>5, <2>1 DEF MonitorInLine
    <2> QED
      BY <2>1, <2>2
  <1> QED
    BY <1>4, <1>5 DEF MonitorInLine

\* An operation that joins leaves who waits, and for what, as it was.
LEMMA MonitorAppend ==
    ASSUME NoticeInv, NEW who \in {"user", "monitor", "quit"},
           NEW op \in {"start", "stop", "poll", "lost"}, Joins(who, op),
           IF who = "monitor" THEN mon # "called" /\ mon' = "called"
           ELSE mon' = mon /\ op \notin Pollings,
           UNCHANGED <<at, phase>>
    PROVE  MonitorInLine' /\ StopUnderWay'
  <1> DEFINE e == [by |-> who, op |-> op]
  <1>1. line \in Seq(Operation) /\ MonitorInLine /\ StopUnderWay /\ (at # "begin" => line # <<>>)
    BY DEF NoticeInv, Inv, Typed, GatewayTypeOK, StepFacts
  <1>2. e \in Operation /\ line' = Append(line, e)
    BY DEF Operation, Joins
  <1>3. e.by = who /\ e.op = op
    OBVIOUS
  <1> HIDE DEF e
  <1>4. /\ \A i \in DOMAIN line' :
              /\ i \in Nat \ {0}
              /\ \/ i \in DOMAIN line /\ line'[i] = line[i]
                 \/ line'[i] = e /\ \A j \in DOMAIN line' : j <= i
        /\ line # <<>> => Head(line') = Head(line)
    BY <1>1, <1>2, LastInLine
  <1>5. who = "monitor" => \A i \in DOMAIN line : line[i].by # "monitor"
    BY <1>1 DEF MonitorInLine
  <1>6. ASSUME NEW i \in DOMAIN line'
        PROVE  /\ line'[i].op \in Pollings => line'[i].by = "monitor"
               /\ line'[i].by = "monitor" => mon' = "called"
    BY <1>1, <1>3, <1>4, <1>5, <1>6 DEF MonitorInLine
  <1>7. ASSUME NEW i \in DOMAIN line', NEW j \in DOMAIN line',
               line'[i].by = "monitor", line'[j].by = "monitor"
        PROVE  i = j
    <2>2. CASE i \in DOMAIN line /\ line'[i] = line[i] /\ j \in DOMAIN line /\ line'[j] = line[j]
      BY <1>1, <1>7, <2>2 DEF MonitorInLine
    <2>3. i \in DOMAIN line /\ line'[i] = line[i] => who # "monitor"
      BY <1>5, <1>7
    <2>4. j \in DOMAIN line /\ line'[j] = line[j] => who # "monitor"
      BY <1>5, <1>7
    <2>5. line'[i] = e \/ line'[j] = e => who = "monitor"
      BY <1>3, <1>7
    <2>1. CASE (\A k \in DOMAIN line' : k <= i) /\ (\A k \in DOMAIN line' : k <= j)
      <3>1. i <= j /\ j <= i /\ i \in Nat /\ j \in Nat
        BY <1>4, <2>1
      <3> QED
        BY <3>1
    <2> QED
      BY <1>4, <2>1, <2>2, <2>3, <2>4, <2>5
  <1> QED
    BY <1>1, <1>4, <1>6, <1>7 DEF MonitorInLine, StopUnderWay

\* What stands at the head of the queue says of a notice.
LEMMA NoticeAtHead ==
    ASSUME NoticeInv, line # <<>>
    PROVE  /\ Head(line).op \in Pollings => Head(line).by = "monitor"
           /\ Head(line).by = "monitor" => ~due
           /\ Head(line).op = "init" => ~due
           /\ at # "begin" /\ Head(line).op \in {"start", "stop"} => ~due
  <1>1. Inv /\ NoticeKept /\ MonitorInLine /\ StopUnderWay
    BY DEF NoticeInv
  <1>2. 1 \in DOMAIN line /\ Head(line) = line[1]
    BY <1>1, FirstInLine DEF Inv, Typed, GatewayTypeOK
  <1>3. Head(line).op = "init" => phase = "stopped"
    BY <1>1, HeadFacts
  <1>4. at # "begin" /\ Head(line).op = "start" => phase = "starting"
    BY <1>1 DEF Inv, StepFacts
  <1> QED
    BY <1>1, <1>2, <1>3, <1>4 DEF NoticeKept, MonitorInLine, StopUnderWay

LEMMA NoticeGateway ==
    ASSUME NoticeInv, GatewaySteps
    PROVE  NoticeKept' /\ MonitorInLine' /\ StopUnderWay'
  <1>1. line # <<>>
    BY GatewayLine DEF NoticeInv
  <1>2. (line' = line /\ mon' = mon) \/ \E result : Returns(result)
    BY Zenon DEF GatewaySteps, InitAsks, InitAsked, InitStopped, StartBegins, StartRetries, StartAsked,
           StaleStopped, Launched, LaunchUnclear, Relaunches, Ready, NotReady, ReadyTimesOut, Aborted,
           ReadyAsked, StartFailed, StopBegins, StopAnswered, PollAsks, PollGone, PollAnswered, DeclaresLost,
           Ask, Fails, Requests
  <1>3. MonitorInLine'
    BY <1>1, <1>2, MonitorTail DEF NoticeInv, MonitorInLine
  <1>4. StopUnderWay'
    <2>1. CASE Head(line).op = "stop"
      <3>1. StopBegins \/ StopAnswered
        BY <2>1 DEF GatewaySteps, InitAsks, InitAsked, InitStopped, StartBegins, StartRetries, StartAsked,
           StaleStopped, Launched, LaunchUnclear, Relaunches, Ready, NotReady, ReadyTimesOut, Aborted,
           ReadyAsked, StartFailed, PollAsks, PollGone, PollAnswered, DeclaresLost, Got, Doing
      <3> QED
        BY <3>1 DEF StopBegins, StopAnswered, StopUnderWay, Returns, Ask
    <2>2. CASE Head(line).op # "stop"
      <3>1. at' = "begin" \/ line' = line
        BY <1>2 DEF Returns
      <3> QED
        BY <2>2, <3>1 DEF StopUnderWay
    <2> QED
      BY <2>1, <2>2
  <1> SUFFICES NoticeKept'
    BY <1>3, <1>4
  <1>5. ASSUME ~due, due' = due PROVE NoticeKept'
    BY <1>5 DEF NoticeKept
  <1>6. CASE PollGone \/ DeclaresLost
    <2>1. Head(line).by = "monitor" /\ ~due
      BY <1>1, <1>6, NoticeAtHead DEF PollGone, DeclaresLost, Got, Doing, Pollings
    <2>2. CASE Believed
      <3>1. phase' = "failed" /\ Returns("gone")
        BY <1>6, <2>2 DEF PollGone, DeclaresLost
      <3> QED
        BY <2>1, <3>1 DEF Returns, NoticeKept
    <2>3. CASE ~Believed
      <3>1. ~due'
        BY <1>6, <2>1, <2>3 DEF PollGone, DeclaresLost
      <3> QED
        BY <3>1 DEF NoticeKept
    <2> QED
      BY <2>2, <2>3
  <1>7. CASE PollAsks \/ PollAnswered
    <2>1. ~due
      BY <1>1, <1>7, NoticeAtHead DEF PollAsks, PollAnswered, Got, Doing, Pollings
    <2>2. due' = due
      BY <1>7 DEF PollAsks, PollAnswered, history
    <2> QED
      BY <1>5, <2>1, <2>2
  <1>8. CASE StartBegins \/ StopBegins
    <2>1. due' = FALSE \/ (due' = due /\ Head(line).by = "monitor")
      BY <1>8 DEF StartBegins, StopBegins
    <2> QED
      BY <1>1, <1>5, <2>1, NoticeAtHead DEF NoticeKept
  <1>9. CASE InitAsks \/ InitAsked \/ InitStopped
    <2>1. Head(line).op = "init" /\ due' = due
      BY <1>9 DEF InitAsks, InitAsked, InitStopped, Got, Doing, history
    <2> QED
      BY <1>1, <1>5, <2>1, NoticeAtHead
  <1>10. CASE \/ StartRetries \/ StartAsked \/ StaleStopped \/ Launched \/ LaunchUnclear \/ Relaunches
              \/ Ready \/ NotReady \/ ReadyTimesOut \/ Aborted \/ ReadyAsked \/ StartFailed \/ StopAnswered
    <2>1. at # "begin" /\ Head(line).op \in {"start", "stop"}
      BY <1>10 DEF StartRetries, StartAsked, StaleStopped, Launched, LaunchUnclear, Relaunches,
           Ready, NotReady, ReadyTimesOut, Aborted, ReadyAsked, StartFailed, StopAnswered, Got, Doing
    <2>2. due' = due
      BY <1>10 DEF StartRetries, StartAsked, StaleStopped, Launched, LaunchUnclear, Relaunches,
           Ready, NotReady, ReadyTimesOut, Aborted, ReadyAsked, StartFailed, StopAnswered, history
    <2> QED
      BY <1>1, <1>5, <2>1, <2>2, NoticeAtHead
  <1> QED
    BY <1>6, <1>7, <1>8, <1>9, <1>10 DEF GatewaySteps

LEMMA NoticeMonitor ==
    ASSUME NoticeInv, MonitorSteps \/ WindowPasses
    PROVE  NoticeKept' /\ MonitorInLine' /\ StopUnderWay'
  <1>1. NoticeKept /\ MonitorInLine /\ StopUnderWay /\ UNCHANGED <<phase, at>>
    BY DEF NoticeInv, MonitorSteps, Ticks, SeesLive, Probes, SeesGone, Pauses, Defers, Restarts,
           WindowPasses, MonitorKeeps
  <1>2. NoticeKept'
    <2>1. CASE Ticks
      <3>1. mon = "idle"
        BY <2>1 DEF Ticks
      <3>2. CASE deferred
        <4>1. /\ mon' = IF phase = "failed" THEN "recover" ELSE "idle"
              /\ due' = (due /\ phase = "failed")
          BY <2>1, <3>2 DEF Ticks
        <4> QED
          BY <1>1, <4>1 DEF NoticeKept
      <3>3. CASE ~deferred
        <4>1. due' = due
          BY <2>1, <3>3 DEF Ticks
        <4> QED
          BY <1>1, <3>1, <3>3, <4>1 DEF NoticeKept
      <3> QED
        BY <3>2, <3>3
    <2>2. CASE SeesLive \/ Probes
      <3>1. mon \in {"live", "probe"} /\ due' = due
        BY <2>2 DEF SeesLive, Probes
      <3> QED
        BY <1>1, <3>1 DEF NoticeKept
    <2>3. CASE SeesGone
      BY <1>1, <2>3 DEF SeesGone, NoticeKept
    <2>4. CASE Pauses \/ Restarts
      BY <2>4 DEF Pauses, Restarts, NoticeKept
    <2>5. CASE Defers
      BY <1>1, <2>5 DEF Defers, NoticeKept
    <2>6. CASE WindowPasses
      BY <1>1, <2>6 DEF WindowPasses, NoticeKept
    <2> QED
      BY <2>1, <2>2, <2>3, <2>4, <2>5, <2>6 DEF MonitorSteps
  <1>3. \/ line' = line /\ (mon = "called" => mon' = "called")
        \/ /\ mon # "called" /\ mon' = "called"
           /\ \E op \in {"start", "poll", "lost"} : Joins("monitor", op)
    BY DEF MonitorSteps, Ticks, SeesLive, Probes, SeesGone, Pauses, Defers, Restarts, WindowPasses
  <1>4. CASE line' = line /\ (mon = "called" => mon' = "called")
    BY <1>1, <1>2, <1>4 DEF MonitorInLine, StopUnderWay
  <1>5. ASSUME mon # "called", mon' = "called", NEW op \in {"start", "poll", "lost"}, Joins("monitor", op)
        PROVE  MonitorInLine' /\ StopUnderWay'
    BY <1>1, <1>5, MonitorAppend
  <1> QED
    BY <1>2, <1>3, <1>4, <1>5

LEMMA NoticeUser ==
    ASSUME NoticeInv, Calls("start") \/ Calls("stop") \/ Quits \/ QuitStops \/ QuitCancelled
    PROVE  NoticeKept' /\ MonitorInLine' /\ StopUnderWay'
  <1>1. UNCHANGED <<phase, at, mon, deferred, due>>
    BY DEF Calls, Quits, QuitStops, QuitCancelled, QuitKeeps, monitor, history
  <1>2. \/ line' = line
        \/ \E who \in {"user", "quit"}, op \in {"start", "stop"} : Joins(who, op)
    BY DEF Calls, Quits, QuitStops, QuitCancelled
  <1>3. CASE line' = line
    BY <1>1, <1>3, NoticeStays
  <1>4. ASSUME NEW who \in {"user", "quit"}, NEW op \in {"start", "stop"}, Joins(who, op)
        PROVE  NoticeKept' /\ MonitorInLine' /\ StopUnderWay'
    <2>1. MonitorInLine' /\ StopUnderWay'
      BY <1>1, <1>4, MonitorAppend DEF Pollings
    <2> QED
      BY <1>1, <2>1 DEF NoticeInv, NoticeKept
  <1> QED
    BY <1>2, <1>3, <1>4

LEMMA NoticeStep == NoticeInv /\ [Next]_vars => NoticeInv'
  <1> SUFFICES ASSUME NoticeInv, [Next]_vars PROVE NoticeInv'
    OBVIOUS
  <1>1. Inv'
    BY InvKept DEF NoticeInv
  <1> SUFFICES NoticeKept' /\ MonitorInLine' /\ StopUnderWay'
    BY <1>1 DEF NoticeInv
  <1>2. CASE UNCHANGED vars
    BY <1>2, NoticeStays DEF vars, gateway, monitor, history
  <1>3. CASE ServiceSteps \/ CoreExits \/ ServiceDies \/ Unreachable \/ Breaks \/ TimesOut
    <2>1. UNCHANGED <<line, at, phase, mon, deferred, due>>
      BY <1>3 DEF ServiceSteps, ServeReconcile, ServeStart, ServeStop, Recovers, Launches, Records,
         RecordFails, Clears, ServiceStarts, CoreExits, ServiceDies, Unreachable, Breaks, TimesOut, ServiceKeeps,
         gateway, monitor, history
    <2> QED
      BY <2>1, NoticeStays
  <1>4. CASE Dies \/ Exits
    <2>1. /\ line' = <<[by |-> "boot", op |-> "init"]>> /\ at' = "begin" /\ due' = FALSE
      BY <1>4 DEF Dies, Exits, Ends
    <2>2. DOMAIN line' = {1} /\ line'[1] = [by |-> "boot", op |-> "init"]
      BY <2>1
    <2> QED
      BY <2>1, <2>2 DEF NoticeKept, MonitorInLine, StopUnderWay, Pollings
  <1> QED
    BY <1>2, <1>3, <1>4, NoticeGateway, NoticeMonitor, NoticeUser DEF Next

\* An exit that the monitor has noticed is never forgotten, through any number of
\* quits that begin and are cancelled, lost answers and operations in the queue:
\* the status says "failed" and the monitor has the recovery, or a later tick has.
THEOREM NoticeIsKept == Spec => []NoticeKept
  <1>1. Init => NoticeInv
    <2> SUFFICES ASSUME Init PROVE NoticeInv
      OBVIOUS
    <2>1. DOMAIN line = {1} /\ line[1] = [by |-> "boot", op |-> "init"]
      BY DEF Init
    <2> QED
      BY <2>1, InitInv DEF Init, NoticeInv, NoticeKept, MonitorInLine, StopUnderWay, Pollings
  <1>2. NoticeInv => NoticeKept
    BY DEF NoticeInv
  <1> QED
    BY <1>1, <1>2, NoticeStep, PTL DEF Spec
=============================================================================
