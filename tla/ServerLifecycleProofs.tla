------------------------- MODULE ServerLifecycleProofs -------------------------
(***************************************************************************)
(* The order of a shutdown for any number of requests and signals: the     *)
(* cache outlives the handlers, and exit status 0 is honest.  The argument *)
(* is LifeInv, which ties what was stopped and closed to the place of the  *)
(* main goroutine.                                                         *)
(***************************************************************************)
EXTENDS ServerLifecycle, TLAPS

\* Every step of the process keeps the types of its state.
LEMMA TypeStep ==
  ASSUME TypeOK, [Next]_lifeVars
  PROVE  TypeOK'
<1> USE SignalsAssumption DEF TypeOK
<1>1. CASE Signal
  BY <1>1 DEF Signal
<1>2. CASE FirstSignal
  BY <1>2 DEF FirstSignal
<1>3. ASSUME NEW how \in {"exit0", "exit1"}, Exit(how)
      PROVE  /\ process' \in {"up", "exit0", "exit1"}
             /\ request' \in [Request -> {"none", "active", "answered", "cancelled", "cut"}]
             /\ refresh' \in [Request -> {"none", "active", "ended", "cut"}]
  BY <1>3 DEF Exit
<1>4. CASE SecondSignal
  BY <1>3, <1>4 DEF SecondSignal
<1>5. CASE Listen
  BY <1>5 DEF Listen
<1>6. CASE ListenFails
  BY <1>6 DEF ListenFails
<1>7. CASE Main
  <2>1. CASE RunFails
    BY <1>3, <2>1 DEF RunFails
  <2>2. CASE ContextDone
    BY <2>2 DEF ContextDone
  <2>3. CASE ShutdownDone
    BY <2>3 DEF ShutdownDone
  <2>4. CASE ShutdownTimeout
    BY <1>3, <2>4 DEF ShutdownTimeout
  <2>5. CASE CloseCache
    BY <2>5 DEF CloseCache
  <2>6. CASE ReturnFromMain
    BY <1>3, <2>6 DEF ReturnFromMain
  <2> QED
    BY <1>7, <2>1, <2>2, <2>3, <2>4, <2>5, <2>6 DEF Main
<1>8. ASSUME NEW r \in Request, Begin(r) \/ Answer(r) \/ Cancel(r) \/ RefreshEnds(r)
      PROVE  TypeOK'
  <2>1. CASE Begin(r)
    BY <2>1 DEF Begin
  <2>2. CASE Answer(r)
    BY <2>2 DEF Answer
  <2>3. CASE Cancel(r)
    BY <2>3 DEF Cancel
  <2>4. CASE RefreshEnds(r)
    BY <2>4 DEF RefreshEnds
  <2> QED
    BY <1>8, <2>1, <2>2, <2>3, <2>4
<1>9. CASE UNCHANGED lifeVars
  BY <1>9 DEF lifeVars
<1>10. CASE Setup
  <2>1. CASE SetupIPFilter
    BY <2>1 DEF SetupIPFilter
  <2>2. CASE SetupCache
    BY <2>2 DEF SetupCache
  <2>3. CASE SetupConfig
    BY <2>3 DEF SetupConfig
  <2>4. CASE SetupFails
    BY <1>3, <2>4 DEF SetupFails
  <2>5. CASE Run
    BY <2>5 DEF Run
  <2> QED
    BY <1>10, <2>1, <2>2, <2>3, <2>4, <2>5 DEF Setup
<1> QED
  BY <1>1, <1>2, <1>4, <1>5, <1>6, <1>7, <1>8, <1>9, <1>10 DEF Next

\* The end of the process makes no request active, and cuts off none that was
\* over.
LEMMA ExitCuts ==
  ASSUME TypeOK, NEW how, Exit(how)
  PROVE  \A r \in Request :
           /\ request'[r] # "active"
           /\ request[r] # "active" => request'[r] = request[r]
BY DEF Exit, TypeOK

\* Shutdown closes the listener before it waits, so no handler begins after
\* the last one it waited for, and the deferred Close comes later still.
LEMMA ShutdownOrderStep ==
  ASSUME LifeInv, TypeOK', [Next]_lifeVars
  PROVE  ShutdownOrder'
<1> USE DEF LifeInv, TypeOK, ShutdownOrder
<1>1. CASE Signal
  BY <1>1 DEF Signal
<1>2. CASE FirstSignal
  BY <1>2 DEF FirstSignal
<1>3. CASE SecondSignal
  BY <1>3, ExitCuts DEF SecondSignal
<1>4. CASE Listen
  BY <1>4 DEF Listen
<1>5. CASE ListenFails
  BY <1>5 DEF ListenFails
<1>6. CASE Main
  <2>1. CASE RunFails
    BY <2>1, ExitCuts DEF RunFails
  <2>2. CASE ContextDone
    BY <2>2 DEF ContextDone
  <2>3. CASE ShutdownDone
    BY <2>3 DEF ShutdownDone
  <2>4. CASE ShutdownTimeout
    BY <2>4, ExitCuts DEF ShutdownTimeout
  <2>5. CASE CloseCache
    BY <2>5 DEF CloseCache
  <2>6. CASE ReturnFromMain
    BY <2>6, ExitCuts DEF ReturnFromMain
  <2> QED
    BY <1>6, <2>1, <2>2, <2>3, <2>4, <2>5, <2>6 DEF Main
<1>7. ASSUME NEW r \in Request, Begin(r) \/ Answer(r) \/ Cancel(r) \/ RefreshEnds(r)
      PROVE  ShutdownOrder'
  <2>1. CASE Begin(r)
    BY <2>1 DEF Begin
  <2>2. CASE Answer(r)
    BY <2>2 DEF Answer
  <2>3. CASE Cancel(r)
    BY <2>3 DEF Cancel
  <2>4. CASE RefreshEnds(r)
    BY <2>4 DEF RefreshEnds
  <2> QED
    BY <1>7, <2>1, <2>2, <2>3, <2>4
<1>8. CASE UNCHANGED lifeVars
  BY <1>8 DEF lifeVars
<1>9. CASE Setup
  <2>1. CASE SetupIPFilter
    BY <2>1 DEF SetupIPFilter
  <2>2. CASE SetupCache
    BY <2>2 DEF SetupCache
  <2>3. CASE SetupConfig
    BY <2>3 DEF SetupConfig
  <2>4. CASE SetupFails
    BY <2>4, ExitCuts DEF SetupFails
  <2>5. CASE Run
    BY <2>5 DEF Run
  <2> QED
    BY <1>9, <2>1, <2>2, <2>3, <2>4, <2>5 DEF Setup
<1> QED
  BY <1>1, <1>2, <1>3, <1>4, <1>5, <1>6, <1>7, <1>8, <1>9 DEF Next

\* Status 0 is reached from the end of main only, where no request is active
\* and so none is cut off.
LEMMA ExitJustifiedStep ==
  ASSUME LifeInv, TypeOK', [Next]_lifeVars
  PROVE  ExitJustified'
<1> USE DEF LifeInv, TypeOK, ExitJustified, Up
<1>1. CASE Signal
  BY <1>1, SignalsAssumption DEF Signal
<1>2. CASE FirstSignal
  BY <1>2 DEF FirstSignal
<1>3. CASE SecondSignal
  BY <1>3 DEF SecondSignal, Exit
<1>4. CASE Listen
  BY <1>4 DEF Listen
<1>5. CASE ListenFails
  BY <1>5 DEF ListenFails
<1>6. CASE Main
  <2>1. CASE RunFails
    BY <2>1 DEF RunFails, Exit
  <2>2. CASE ContextDone
    BY <2>2 DEF ContextDone
  <2>3. CASE ShutdownDone
    BY <2>3 DEF ShutdownDone
  <2>4. CASE ShutdownTimeout
    BY <2>4 DEF ShutdownTimeout, Exit
  <2>5. CASE CloseCache
    BY <2>5 DEF CloseCache
  <2>6. CASE ReturnFromMain
    <3>1. \A r \in Request : request[r] # "active"
      BY <2>6 DEF ReturnFromMain, ShutdownOrder
    <3>2. \A r \in Request : request'[r] = request[r]
      BY <2>6, <3>1, ExitCuts DEF ReturnFromMain
    <3> QED
      BY <2>6, <3>2 DEF ReturnFromMain
  <2> QED
    BY <1>6, <2>1, <2>2, <2>3, <2>4, <2>5, <2>6 DEF Main
<1>7. ASSUME NEW r \in Request, Begin(r) \/ Answer(r) \/ Cancel(r) \/ RefreshEnds(r)
      PROVE  ExitJustified'
  <2>1. CASE Begin(r)
    BY <2>1 DEF Begin
  <2>2. CASE Answer(r)
    BY <2>2 DEF Answer
  <2>3. CASE Cancel(r)
    BY <2>3 DEF Cancel
  <2>4. CASE RefreshEnds(r)
    BY <2>4 DEF RefreshEnds
  <2> QED
    BY <1>7, <2>1, <2>2, <2>3, <2>4
<1>8. CASE UNCHANGED lifeVars
  BY <1>8 DEF lifeVars
<1>9. CASE Setup
  <2>1. CASE SetupIPFilter
    BY <2>1 DEF SetupIPFilter
  <2>2. CASE SetupCache
    BY <2>2 DEF SetupCache
  <2>3. CASE SetupConfig
    BY <2>3 DEF SetupConfig
  <2>4. CASE SetupFails
    BY <2>4 DEF SetupFails, Exit
  <2>5. CASE Run
    BY <2>5 DEF Run
  <2> QED
    BY <1>9, <2>1, <2>2, <2>3, <2>4, <2>5 DEF Setup
<1> QED
  BY <1>1, <1>2, <1>3, <1>4, <1>5, <1>6, <1>7, <1>8, <1>9 DEF Next

\* What was stopped, closed and cut off agrees with where main is (Run,
\* Shutdown and the deferred Close in main.go and server.go).
THEOREM LifecycleCorrect == Spec => []LifeInv
<1>1. Init => LifeInv
  <2> SUFFICES ASSUME Init PROVE LifeInv
    OBVIOUS
  <2> USE DEF Init
  <2>1. TypeOK
    <3>1. 0 \in 0..1 /\ 0 \in 0..MaxSignals
      BY SignalsAssumption
    <3> QED
      BY <3>1, Zenon DEF TypeOK
  <2>2. ShutdownOrder
    BY DEF ShutdownOrder
  <2>3. ExitJustified
    BY DEF ExitJustified
  <2> QED
    BY <2>1, <2>2, <2>3 DEF LifeInv
<1>2. LifeInv /\ [Next]_lifeVars => LifeInv'
  BY TypeStep, ShutdownOrderStep, ExitJustifiedStep DEF LifeInv
<1> QED
  BY <1>1, <1>2, PTL DEF Spec

\* main closes the cache after the last handler is done with it.
THEOREM CacheOutlivesHandlers == Spec => []HandlersFinishFirst
<1>1. LifeInv => HandlersFinishFirst
  BY DEF LifeInv, ShutdownOrder, HandlersFinishFirst
<1> QED
  BY <1>1, LifecycleCorrect, PTL

\* Exit status 0 means that the process was asked to stop, cut off no client
\* and closed its cache.
THEOREM ExitIsHonest == Spec => []CleanExit
<1>1. LifeInv => CleanExit
  BY SignalsAssumption DEF LifeInv, TypeOK, ShutdownOrder, ExitJustified, CleanExit
<1> QED
  BY <1>1, LifecycleCorrect, PTL

==============================================================================
