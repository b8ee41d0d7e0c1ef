--------------------------- MODULE RuntimeProofs ---------------------------
(***************************************************************************)
(* Proofs about Runtime for every number of posters, callback contexts,    *)
(* queue depth and number of runs.                                         *)
(*                                                                         *)
(* The order of the argument: the types; where the owner thread can be     *)
(* while start(), stop() and destroy() are where they are (LifeInv); that  *)
(* callback_refs counts the pinned callbacks, and so no callback outlives  *)
(* the drain in owner_cleanup (CallbackRefs, CallbacksLive); that          *)
(* command_refs counts the pinned posters and the latch of stop() stays    *)
(* set while the queue is torn down (RefsCountPosters, GateInv); and that  *)
(* an accepted command stays in the queue until it is answered (Resolved). *)
(*                                                                         *)
(* What is about posters is proved under DrainBeforeRestart: without it    *)
(* the run RuntimeStalePost refutes RefsCountPosters.                      *)
(***************************************************************************)
EXTENDS Runtime, TLAPS, FiniteSetTheorems

-----------------------------------------------------------------------------
(* Types                                                                   *)

\* The runtime that runtime_create returns is well typed.
LEMMA TypeInit == Init => TypeOK
<1>1. Init => BooleansOK
  BY Zenon DEF Init, BooleansOK
<1>2. Init => ValuesOK
  BY RuntimeAssumption
  DEF Init, ValuesOK, AppPcs, OwnerPcs, Flags, PostPcs, CbPcs
<1>3. QED
  BY <1>1, <1>2 DEF TypeOK

\* No step of the application, the owner, a poster or a callback stores
\* anything but TRUE or FALSE in a flag of the runtime.
LEMMA BooleansNext == BooleansOK /\ [Next]_vars => BooleansOK'
<1> SUFFICES ASSUME BooleansOK, [Next]_vars
             PROVE  BooleansOK'
  OBVIOUS
<1> USE DEF BooleansOK, vars, appVars, gateVars, queueVars, deviceVars,
            pinVars, statusVars
<1>1. CASE StartClearEvents
  BY ZenonT(60), <1>1 DEF StartClearEvents
<1>2. CASE PrepareRefs
  BY ZenonT(60), <1>2 DEF PrepareRefs
<1>3. CASE PrepareLatch
  BY ZenonT(60), <1>3 DEF PrepareLatch
<1>4. CASE PrepareQuiescing
  BY ZenonT(60), <1>4 DEF PrepareQuiescing
<1>5. CASE CreateThread
  BY ZenonT(60), <1>5 DEF CreateThread
<1>6. CASE StartReady
  BY ZenonT(60), <1>6 DEF StartReady
<1>7. CASE StartReadyTimeout
  BY ZenonT(60), <1>7 DEF StartReadyTimeout
<1>8. CASE StartExit
  BY ZenonT(60), <1>8 DEF StartExit
<1>9. CASE StopBegin
  BY ZenonT(60), <1>9 DEF StopBegin
<1>10. CASE AppLatch
  BY ZenonT(60), <1>10 DEF AppLatch
<1>11. CASE AppQuiesce
  BY ZenonT(60), <1>11 DEF AppQuiesce
<1>12. CASE StopExit
  BY ZenonT(60), <1>12 DEF StopExit
<1>13. CASE StopExitTimeout
  BY ZenonT(60), <1>13 DEF StopExitTimeout
<1>14. CASE Destroy
  BY ZenonT(60), <1>14 DEF Destroy
<1>15. CASE OwnerInitCtx
  BY ZenonT(60), <1>15 DEF OwnerInitCtx
<1>16. CASE OwnerInitDevices
  BY ZenonT(60), <1>16 DEF OwnerInitDevices
<1>17. CASE OwnerInitMaster
  BY ZenonT(60), <1>17 DEF OwnerInitMaster
<1>18. CASE OwnerInitDone
  BY ZenonT(60), <1>18 DEF OwnerInitDone
<1>19. CASE OpenCheck
  BY ZenonT(60), <1>19 DEF OpenCheck
<1>20. CASE OpenStore
  BY ZenonT(60), <1>20 DEF OpenStore
<1>21. CASE OpenRecheck
  BY ZenonT(60), <1>21 DEF OpenRecheck
<1>22. CASE OwnerReady
  BY ZenonT(60), <1>22 DEF OwnerReady
<1>23. CASE OwnerWake
  <2>1. runtime_error' \in BOOLEAN
    BY ZenonT(60), <1>23 DEF OwnerWake
  <2>2. UNCHANGED <<appVars, init_ok, queueVars, gateVars, deviceVars, pinVars>>
    BY ZenonT(60), <1>23 DEF OwnerWake
  <2>3. QED
    BY ZenonT(60), <2>1, <2>2
<1>24. CASE DispatchOne
  BY ZenonT(60), <1>24 DEF DispatchOne
<1>25. CASE DispatchEnd
  BY ZenonT(60), <1>25 DEF DispatchEnd
<1>26. CASE CleanupLatch
  BY ZenonT(60), <1>26 DEF CleanupLatch
<1>27. CASE CleanupQuiesce
  BY ZenonT(60), <1>27 DEF CleanupQuiesce
<1>28. CASE CleanupCommandsIdle
  BY ZenonT(60), <1>28 DEF CleanupCommandsIdle
<1>29. CASE RetireOne
  BY ZenonT(60), <1>29 DEF RetireOne
<1>30. CASE DeleteQueue
  BY ZenonT(60), <1>30 DEF DeleteQueue
<1>31. CASE CanQuiesce
  BY ZenonT(60), <1>31 DEF CanQuiesce
<1>32. CASE DestroyObjects
  BY ZenonT(60), <1>32 DEF DestroyObjects
<1>33. CASE OwnerExit
  BY ZenonT(60), <1>33 DEF OwnerExit
<1>34. ASSUME NEW p \in Posters, PostBegin(p)
      PROVE  BooleansOK'
  BY ZenonT(60), <1>34 DEF PostBegin, PostGoto
<1>35. ASSUME NEW p \in Posters, CheckLatch(p)
      PROVE  BooleansOK'
  BY ZenonT(60), <1>35 DEF CheckLatch, PostGoto
<1>36. ASSUME NEW p \in Posters, CheckQuiescing(p)
      PROVE  BooleansOK'
  BY ZenonT(60), <1>36 DEF CheckQuiescing, PostGoto
<1>37. ASSUME NEW p \in Posters, PostPin(p)
      PROVE  BooleansOK'
  BY ZenonT(60), <1>37 DEF PostPin, PostGoto
<1>38. ASSUME NEW p \in Posters, RecheckLatch(p)
      PROVE  BooleansOK'
  BY ZenonT(60), <1>38 DEF RecheckLatch, PostGoto
<1>39. ASSUME NEW p \in Posters, RecheckQuiescing(p)
      PROVE  BooleansOK'
  BY ZenonT(60), <1>39 DEF RecheckQuiescing, PostGoto
<1>40. ASSUME NEW p \in Posters, LoadMq(p)
      PROVE  BooleansOK'
  BY ZenonT(60), <1>40 DEF LoadMq, PostGoto
<1>41. ASSUME NEW p \in Posters, MqSend(p)
      PROVE  BooleansOK'
  BY ZenonT(60), <1>41 DEF MqSend, PostGoto
<1>42. ASSUME NEW p \in Posters, Signal(p)
      PROVE  BooleansOK'
  BY ZenonT(60), <1>42 DEF Signal, PostGoto
<1>43. ASSUME NEW p \in Posters, Unpin(p)
      PROVE  BooleansOK'
  BY ZenonT(60), <1>43 DEF Unpin, PostGoto
<1>44. ASSUME NEW p \in Posters, Answered(p)
      PROVE  BooleansOK'
  BY ZenonT(60), <1>44 DEF Answered, PostGoto
<1>45. ASSUME NEW c \in Callbacks, CanCallbackEnter(c)
      PROVE  BooleansOK'
  BY ZenonT(60), <1>45 DEF CanCallbackEnter, CallbackGoto
<1>46. ASSUME NEW c \in Callbacks, CanCallbackPin(c)
      PROVE  BooleansOK'
  BY ZenonT(60), <1>46 DEF CanCallbackPin, CallbackGoto
<1>47. ASSUME NEW c \in Callbacks, TimerCallbackEnter(c)
      PROVE  BooleansOK'
  BY ZenonT(60), <1>47 DEF TimerCallbackEnter, CallbackGoto
<1>48. ASSUME NEW c \in Callbacks, CallbackRecheck(c)
      PROVE  BooleansOK'
  BY ZenonT(60), <1>48 DEF CallbackRecheck, CallbackGoto
<1>49. ASSUME NEW c \in Callbacks, CallbackSend(c)
      PROVE  BooleansOK'
  BY ZenonT(60), <1>49 DEF CallbackSend, CallbackGoto
<1>50. ASSUME NEW c \in Callbacks, CallbackRelease(c)
      PROVE  BooleansOK'
  BY ZenonT(60), <1>50 DEF CallbackRelease, CallbackGoto
<1>51. CASE UNCHANGED vars
  BY ZenonT(60), <1>51
<1>52. QED
    BY <1>1, <1>2, <1>3, <1>4, <1>5, <1>6, <1>7, <1>8, <1>9, <1>10, <1>11,
     <1>12, <1>13, <1>14, <1>15, <1>16, <1>17, <1>18, <1>19, <1>20, <1>21,
     <1>22, <1>23, <1>24, <1>25, <1>26, <1>27, <1>28, <1>29, <1>30, <1>31,
     <1>32, <1>33, <1>34, <1>35, <1>36, <1>37, <1>38, <1>39, <1>40, <1>41,
     <1>42, <1>43, <1>44, <1>45, <1>46, <1>47, <1>48, <1>49, <1>50, <1>51
  DEF Next, AppNext, AppCall, OwnerNext, PostStep, CanStep, TimerStep, Destroyed, Callbacks

\* Every step keeps the program counters, the queue and the counters in
\* their sets; the queue stays within QueueDepth because mq_send refuses
\* a full queue.
LEMMA ValuesNext == ValuesOK /\ [Next]_vars => ValuesOK'
<1> SUFFICES ASSUME ValuesOK, [Next]_vars
             PROVE  ValuesOK'
  OBVIOUS
<1> USE RuntimeAssumption
    DEF ValuesOK, AppPcs, InitPcs, OpenPcs, LoopPcs, FiniPcs, FailPcs, OwnerPcs,
        PinnedPcs, PostPcs, CbPcs, Flags, Callbacks, vars, appVars, gateVars,
        queueVars, deviceVars, pinVars, statusVars
<1>1. CASE StartClearEvents
  BY <1>1 DEF StartClearEvents
<1>2. CASE PrepareRefs
  BY <1>2 DEF PrepareRefs
<1>3. CASE PrepareLatch
  BY <1>3 DEF PrepareLatch
<1>4. CASE PrepareQuiescing
  BY <1>4 DEF PrepareQuiescing
<1>5. CASE CreateThread
  BY <1>5 DEF CreateThread
<1>6. CASE StartReady
  BY <1>6 DEF StartReady
<1>7. CASE StartReadyTimeout
  BY <1>7 DEF StartReadyTimeout
<1>8. CASE StartExit
  BY <1>8 DEF StartExit
<1>9. CASE StopBegin
  BY <1>9 DEF StopBegin
<1>10. CASE AppLatch
  BY <1>10 DEF AppLatch
<1>11. CASE AppQuiesce
  BY <1>11 DEF AppQuiesce
<1>12. CASE StopExit
  BY <1>12 DEF StopExit
<1>13. CASE StopExitTimeout
  BY <1>13 DEF StopExitTimeout
<1>14. CASE Destroy
  BY <1>14 DEF Destroy
<1>15. CASE OwnerInitCtx
  BY <1>15 DEF OwnerInitCtx
<1>16. CASE OwnerInitDevices
  BY <1>16 DEF OwnerInitDevices
<1>17. CASE OwnerInitMaster
  BY <1>17 DEF OwnerInitMaster
<1>18. CASE OwnerInitDone
  BY <1>18 DEF OwnerInitDone
<1>19. CASE OpenCheck
  BY <1>19 DEF OpenCheck
<1>20. CASE OpenStore
  BY <1>20 DEF OpenStore
<1>21. CASE OpenRecheck
  BY <1>21 DEF OpenRecheck
<1>22. CASE OwnerReady
  BY <1>22 DEF OwnerReady
<1>23. CASE OwnerWake
  <2>1. event' \subseteq Flags
    BY <1>23, ZenonT(60) DEF OwnerWake, OWNER_MASK
  <2>2. QED
    BY <1>23, <2>1 DEF OwnerWake
<1>24. CASE DispatchOne
  BY <1>24 DEF DispatchOne
<1>25. CASE DispatchEnd
  BY <1>25 DEF DispatchEnd
<1>26. CASE CleanupLatch
  BY <1>26 DEF CleanupLatch
<1>27. CASE CleanupQuiesce
  BY <1>27 DEF CleanupQuiesce
<1>28. CASE CleanupCommandsIdle
  BY <1>28 DEF CleanupCommandsIdle
<1>29. CASE RetireOne
  BY <1>29 DEF RetireOne
<1>30. CASE DeleteQueue
  BY <1>30 DEF DeleteQueue
<1>31. CASE CanQuiesce
  BY <1>31 DEF CanQuiesce
<1>32. CASE DestroyObjects
  BY <1>32 DEF DestroyObjects
<1>33. CASE OwnerExit
  BY <1>33 DEF OwnerExit
<1>34. ASSUME NEW p \in Posters, PostBegin(p)
      PROVE  ValuesOK'
  BY <1>34 DEF PostBegin, PostGoto
<1>35. ASSUME NEW p \in Posters, CheckLatch(p)
      PROVE  ValuesOK'
  BY <1>35 DEF CheckLatch, PostGoto
<1>36. ASSUME NEW p \in Posters, CheckQuiescing(p)
      PROVE  ValuesOK'
  BY <1>36 DEF CheckQuiescing, PostGoto
<1>37. ASSUME NEW p \in Posters, PostPin(p)
      PROVE  ValuesOK'
  BY <1>37 DEF PostPin, PostGoto
<1>38. ASSUME NEW p \in Posters, RecheckLatch(p)
      PROVE  ValuesOK'
  BY <1>38 DEF RecheckLatch, PostGoto
<1>39. ASSUME NEW p \in Posters, RecheckQuiescing(p)
      PROVE  ValuesOK'
  BY <1>39 DEF RecheckQuiescing, PostGoto
<1>40. ASSUME NEW p \in Posters, LoadMq(p)
      PROVE  ValuesOK'
  BY <1>40 DEF LoadMq, PostGoto
<1>41. ASSUME NEW p \in Posters, MqSend(p)
      PROVE  ValuesOK'
  <2>1. CASE post'[p] = "signal"
    BY <1>41, <2>1 DEF MqSend, PostGoto
  <2>2. CASE post'[p] = "unpin"
    BY <1>41, <2>2 DEF MqSend, PostGoto
  <2>3. QED
    BY <1>41, <2>1, <2>2 DEF MqSend, PostGoto
<1>42. ASSUME NEW p \in Posters, Signal(p)
      PROVE  ValuesOK'
  BY <1>42 DEF Signal, PostGoto
<1>43. ASSUME NEW p \in Posters, Unpin(p)
      PROVE  ValuesOK'
  BY <1>43 DEF Unpin, PostGoto
<1>44. ASSUME NEW p \in Posters, Answered(p)
      PROVE  ValuesOK'
  BY <1>44 DEF Answered, PostGoto
<1>45. ASSUME NEW c \in Callbacks, CanCallbackEnter(c)
      PROVE  ValuesOK'
  BY <1>45 DEF CanCallbackEnter, CallbackGoto
<1>46. ASSUME NEW c \in Callbacks, CanCallbackPin(c)
      PROVE  ValuesOK'
  BY <1>46 DEF CanCallbackPin, CallbackGoto
<1>47. ASSUME NEW c \in Callbacks, TimerCallbackEnter(c)
      PROVE  ValuesOK'
  BY <1>47 DEF TimerCallbackEnter, CallbackGoto
<1>48. ASSUME NEW c \in Callbacks, CallbackRecheck(c)
      PROVE  ValuesOK'
  BY <1>48 DEF CallbackRecheck, CallbackGoto
<1>49. ASSUME NEW c \in Callbacks, CallbackSend(c)
      PROVE  ValuesOK'
  BY <1>49 DEF CallbackSend, CallbackGoto
<1>50. ASSUME NEW c \in Callbacks, CallbackRelease(c)
      PROVE  ValuesOK'
  BY <1>50 DEF CallbackRelease, CallbackGoto
<1>51. CASE UNCHANGED vars
  BY <1>51
<1>52. QED
    BY <1>1, <1>2, <1>3, <1>4, <1>5, <1>6, <1>7, <1>8, <1>9, <1>10, <1>11,
     <1>12, <1>13, <1>14, <1>15, <1>16, <1>17, <1>18, <1>19, <1>20, <1>21,
     <1>22, <1>23, <1>24, <1>25, <1>26, <1>27, <1>28, <1>29, <1>30, <1>31,
     <1>32, <1>33, <1>34, <1>35, <1>36, <1>37, <1>38, <1>39, <1>40, <1>41,
     <1>42, <1>43, <1>44, <1>45, <1>46, <1>47, <1>48, <1>49, <1>50, <1>51
  DEF Next, AppNext, AppCall, OwnerNext, PostStep, CanStep, TimerStep, Destroyed

\* The runtime is well typed in every state of every run: in particular
\* the command queue never exceeds its depth.
THEOREM TypeCorrect == Spec => []TypeOK
  BY TypeInit, BooleansNext, ValuesNext, PTL DEF Spec, TypeOK

-----------------------------------------------------------------------------
(* The inductive invariant                                                 *)

\* The application is in start(), before the thread exists.
PreparingPcs == {"prepare_refs", "prepare_latch", "prepare_quiescing",
                 "create_thread"}
\* The application is in start() or stop() and the thread handle exists.
CallingPcs == {"wait_ready", "wait_exit_start", "timeout_latch",
               "timeout_quiesce", "stop_latch", "stop_quiesce", "wait_exit"}

\* The owner_thread handle covers every state in which the owner runs:
\* EXIT is not yet posted while it runs, start() only prepares a runtime
\* without an owner, and destroy() only frees such a runtime.
Presence ==
    /\ owner # "none" => owner_thread /\ "EXIT" \notin event
    /\ app \in PreparingPcs => ~owner_thread /\ event \cap {"READY", "EXIT"} = {}
    /\ app \in CallingPcs => owner_thread
    /\ app \in {"wait_ready", "wait_exit_start"} => ~up
    /\ up => owner_thread
    /\ freed => app = "idle" /\ ~owner_thread

\* init_ok agrees with the branch of owner_entry the thread is on, so
\* READY is posted only by a thread whose initialisation succeeded.
Verdict ==
    /\ owner \in InitPcs \cup FailPcs => ~init_ok /\ ~up /\ "READY" \notin event
    /\ owner \in OpenPcs \cup LoopPcs \cup FiniPcs => init_ok
    /\ app = "create_thread" => ~init_ok
    /\ app = "wait_exit_start" => owner = "none"

\* How far init and cleanup have come determines which resources exist:
\* the queue goes first, then callbacks are unregistered and the timer is
\* stopped, then the Lely objects are destroyed.
Devices ==
    /\ owner \in {"fini_can", "fail_can", "fini_pins", "fail_pins", "fini_exit",
                  "fail_exit", "none"} => ~command_mq
    /\ owner \in {"fini_pins", "fail_pins", "fini_exit", "fail_exit", "none",
                  "init_ctx", "init_dev"} => ~registered /\ ~armed
    /\ owner \in {"fini_exit", "fail_exit", "none"} => ~objects
    /\ owner = "init_dev" => objects
    /\ registered \/ armed => objects

\* callback_refs is the number of callbacks holding a pin.
CallbackRefs == callback_refs = Cardinality(CbPinned)

\* A callback that has passed the registry or the timer's gate has a
\* runtime with its objects, and the owner is not past the drain.
CallbacksLive ==
    \A c \in Callbacks :
        /\ cb[c] = "pin" => c \in CanCallbacks /\ registered
        /\ cb[c] # "idle" => /\ ~freed /\ objects
                             /\ owner \notin {"none", "init_ctx", "init_dev",
                                              "fini_exit", "fail_exit"}

\* The part of the invariant that does not speak about posters or
\* callbacks.
LifeInv == Presence /\ Verdict /\ Devices

\* A poster between its pin and its release that has seen the latch open.
SendingPcs == {"recheck_quiescing", "load_mq", "send", "signal", "unpin_await"}
\* A poster outside the queue operations of master_command_post.
OutsidePcs == {"idle", "await"}
\* The owner is past the wait for command_refs = 0 in owner_cleanup.
DrainedPcs == {"fini_retire", "fini_can", "fini_pins", "fini_exit",
               "fail_retire", "fail_can", "fail_pins", "fail_exit"}
\* The owner is past the store of command_stop_latched in owner_cleanup.
LatchedPcs == {"fini_quiesce", "fail_quiesce", "fini_idle", "fail_idle"}
              \cup DrainedPcs
\* No thread is executing the queue part of master_command_post.
NoPoster == \A p \in Posters : post[p] \in OutsidePcs

\* The shutdown latch: set from the first step of owner_cleanup on; a
\* runtime without an owner and without a latch has no poster inside.
Latched ==
    /\ owner \in LatchedPcs => command_stop_latched
    /\ owner = "none" /\ ~command_stop_latched => ~owner_thread /\ NoPoster
    /\ app \in PreparingPcs => NoPoster

\* Past the wait for command_refs = 0 no poster can be sending any more.
Quiet == owner \in DrainedPcs \cup {"none"}
            => \A p \in Posters : post[p] \notin SendingPcs

\* The owner is past master_command_fini.
ResolvedPcs == {"fini_can", "fail_can", "fini_pins", "fail_pins", "fini_exit",
                "fail_exit", "none"}

\* A command that is accepted and not answered is in the queue, and the
\* queue is empty once master_command_fini has deleted it.
Resolved ==
    /\ owner \in ResolvedPcs => queue = <<>>
    /\ \A p \in Posters : fate[p] = "queued"
                            => \E i \in 1..Len(queue) : queue[i] = p

\* The part of the invariant about the admission gate of the queue.
GateInv == Latched /\ Quiet /\ QueuePinned

-----------------------------------------------------------------------------
(* The invariant is inductive                                              *)

\* A created runtime has no owner, no callback registration and no object.
LEMMA LifeInit == Init => LifeInv
  BY DEF Init, LifeInv, Presence, Verdict, Devices, PreparingPcs, CallingPcs,
         InitPcs, FailPcs, OpenPcs, LoopPcs, FiniPcs

\* LifeInv is inductive: start(), stop(), destroy() and the owner keep
\* the handle, the init verdict and the resources in step.
LEMMA LifeNext == ValuesOK /\ LifeInv /\ [Next]_vars => LifeInv'
<1> SUFFICES ASSUME ValuesOK, LifeInv, [Next]_vars
             PROVE  LifeInv'
  OBVIOUS
<1> USE DEF LifeInv, Presence, Verdict, Devices, PreparingPcs, CallingPcs, InitPcs,
            FailPcs, OpenPcs, LoopPcs, FiniPcs, ValuesOK, OwnerPcs, vars, appVars,
            gateVars, queueVars, deviceVars, pinVars, statusVars
<1>1. CASE StartClearEvents
  BY <1>1 DEF StartClearEvents
<1>2. CASE PrepareRefs
  BY <1>2 DEF PrepareRefs
<1>3. CASE PrepareLatch
  BY <1>3 DEF PrepareLatch
<1>4. CASE PrepareQuiescing
  BY <1>4 DEF PrepareQuiescing
<1>5. CASE CreateThread
  BY <1>5 DEF CreateThread
<1>6. CASE StartReady
  BY <1>6 DEF StartReady
<1>7. CASE StartReadyTimeout
  BY <1>7 DEF StartReadyTimeout
<1>8. CASE StartExit
  BY <1>8 DEF StartExit
<1>9. CASE StopBegin
  BY <1>9 DEF StopBegin
<1>10. CASE AppLatch
  BY <1>10 DEF AppLatch
<1>11. CASE AppQuiesce
  BY <1>11 DEF AppQuiesce
<1>12. CASE StopExit
  BY <1>12 DEF StopExit
<1>13. CASE StopExitTimeout
  BY <1>13 DEF StopExitTimeout
<1>14. CASE Destroy
  BY <1>14 DEF Destroy
<1>15. CASE OwnerInitCtx
  BY <1>15 DEF OwnerInitCtx
<1>16. CASE OwnerInitDevices
  BY <1>16 DEF OwnerInitDevices
<1>17. CASE OwnerInitMaster
  BY <1>17 DEF OwnerInitMaster
<1>18. CASE OwnerInitDone
  BY <1>18 DEF OwnerInitDone
<1>19. CASE OpenCheck
  BY <1>19 DEF OpenCheck
<1>20. CASE OpenStore
  BY <1>20 DEF OpenStore
<1>21. CASE OpenRecheck
  BY <1>21 DEF OpenRecheck
<1>22. CASE OwnerReady
  BY <1>22 DEF OwnerReady
<1>23. CASE OwnerWake
  BY <1>23 DEF OwnerWake, OWNER_MASK
<1>24. CASE DispatchOne
  BY <1>24 DEF DispatchOne
<1>25. CASE DispatchEnd
  BY <1>25 DEF DispatchEnd
<1>26. CASE CleanupLatch
  BY <1>26 DEF CleanupLatch
<1>27. CASE CleanupQuiesce
  BY <1>27 DEF CleanupQuiesce
<1>28. CASE CleanupCommandsIdle
  BY <1>28 DEF CleanupCommandsIdle
<1>29. CASE RetireOne
  BY <1>29 DEF RetireOne
<1>30. CASE DeleteQueue
  BY <1>30 DEF DeleteQueue
<1>31. CASE CanQuiesce
  BY <1>31 DEF CanQuiesce
<1>32. CASE DestroyObjects
  BY <1>32 DEF DestroyObjects
<1>33. CASE OwnerExit
  BY <1>33 DEF OwnerExit
<1>34. ASSUME NEW p \in Posters, PostBegin(p) \/ PostStep(p)
      PROVE  LifeInv'
  BY <1>34
  DEF PostBegin, PostStep, CheckLatch, CheckQuiescing, PostPin, RecheckLatch,
      RecheckQuiescing, LoadMq, MqSend, Signal, Unpin, Answered
<1>35. ASSUME NEW c \in Callbacks,
             CanCallbackEnter(c) \/ TimerCallbackEnter(c) \/ CanStep(c) \/ TimerStep(c)
      PROVE  LifeInv'
  BY <1>35
  DEF CanCallbackEnter, TimerCallbackEnter, CanStep, TimerStep, CanCallbackPin,
      CallbackRecheck, CallbackSend, CallbackRelease
<1>36. CASE UNCHANGED vars
  BY <1>36
<1>37. QED
    BY <1>1, <1>2, <1>3, <1>4, <1>5, <1>6, <1>7, <1>8, <1>9, <1>10, <1>11,
     <1>12, <1>13, <1>14, <1>15, <1>16, <1>17, <1>18, <1>19, <1>20, <1>21,
     <1>22, <1>23, <1>24, <1>25, <1>26, <1>27, <1>28, <1>29, <1>30, <1>31,
     <1>32, <1>33, <1>34, <1>35, <1>36
  DEF Next, AppNext, AppCall, OwnerNext, Destroyed, Callbacks

\* There are finitely many callback contexts.
LEMMA CallbacksFinite == IsFiniteSet(Callbacks)
  BY RuntimeAssumption, FS_Union DEF Callbacks

\* What a step of a callback does to the set of pinned callbacks: enters,
\* leaves or keeps it, by where the step goes.
LEMMA CallbackGotoPins ==
    ASSUME ValuesOK, NEW c \in Callbacks, NEW from, NEW to, CallbackGoto(c, from, to)
    PROVE  LET P == {"recheck", "send", "release", "reject"} IN
           /\ (from \in P <=> to \in P) => CbPinned' = CbPinned
           /\ from \notin P /\ to \in P
                => CbPinned' = CbPinned \cup {c} /\ c \notin CbPinned
           /\ from \in P /\ to \notin P
                => CbPinned' = CbPinned \ {c} /\ c \in CbPinned
  BY DEF ValuesOK, CallbackGoto, CbPinned

\* callback_acquire and callback_release keep callback_refs equal to the
\* number of pinned callbacks; the store of callbacks_init does too, as
\* no callback is inside then.
LEMMA CallbackRefsNext ==
    ValuesOK /\ CallbacksLive /\ CallbackRefs /\ [Next]_vars => CallbackRefs'
<1> SUFFICES ASSUME ValuesOK, CallbacksLive, CallbackRefs, [Next]_vars
             PROVE  CallbackRefs'
  OBVIOUS
<1>a. IsFiniteSet(CbPinned)
  BY CallbacksFinite, FS_Subset DEF CbPinned
<1>1. CASE UNCHANGED <<cb, callback_refs>>
  BY <1>1 DEF CallbackRefs, CbPinned
<1>2. CASE OwnerInitCtx
  <2>1. CASE callback_refs' = 0
    <3>1. CbPinned' = {}
      BY <1>2 DEF OwnerInitCtx, CallbacksLive, CbPinned
    <3>2. QED
      BY <2>1, <3>1, FS_EmptySet DEF CallbackRefs
  <2>2. QED
    BY <1>1, <1>2, <2>1 DEF OwnerInitCtx, pinVars
<1>3. ASSUME NEW c \in Callbacks, CanCallbackPin(c) \/ TimerCallbackEnter(c)
      PROVE  CallbackRefs'
  <2>1. CbPinned' = CbPinned \cup {c} /\ c \notin CbPinned
    BY <1>3, CallbackGotoPins DEF CanCallbackPin, TimerCallbackEnter
  <2>2. Cardinality(CbPinned') = Cardinality(CbPinned) + 1
    BY <1>a, <2>1, FS_AddElement
  <2>3. QED
    BY <1>3, <2>2 DEF CallbackRefs, CanCallbackPin, TimerCallbackEnter
<1>4. ASSUME NEW c \in Callbacks, CallbackRelease(c)
      PROVE  CallbackRefs'
  <2>1. CbPinned' = CbPinned \ {c} /\ c \in CbPinned
    BY <1>4, CallbackGotoPins DEF CallbackRelease
  <2>2. Cardinality(CbPinned') = Cardinality(CbPinned) - 1
    BY <1>a, <2>1, FS_RemoveElement
  <2>3. QED
    BY <1>4, <2>2 DEF CallbackRefs, CallbackRelease
<1>5. ASSUME NEW c \in Callbacks,
             CanCallbackEnter(c) \/ CallbackRecheck(c) \/ CallbackSend(c)
      PROVE  CallbackRefs'
  <2>1. CbPinned' = CbPinned
    BY <1>5, CallbackGotoPins DEF CanCallbackEnter, CallbackRecheck, CallbackSend
  <2>2. QED
    BY <1>5, <2>1
    DEF CallbackRefs, CanCallbackEnter, CallbackRecheck, CallbackSend, pinVars
<1>6. CASE AppNext
  BY <1>1, <1>6
  DEF AppNext, AppCall, pinVars, StartClearEvents, PrepareRefs, PrepareLatch,
      PrepareQuiescing, CreateThread, StartReady, StartReadyTimeout, StartExit,
      StopBegin, AppLatch, AppQuiesce, StopExit, StopExitTimeout, Destroy
<1>7. CASE OwnerNext
  BY <1>1, <1>2, <1>7
  DEF OwnerNext, pinVars, OwnerInitDevices, OwnerInitMaster, OwnerInitDone,
      OpenCheck, OpenStore, OpenRecheck, OwnerReady, OwnerWake, DispatchOne,
      DispatchEnd, CleanupLatch, CleanupQuiesce, CleanupCommandsIdle, RetireOne,
      DeleteQueue, CanQuiesce, DestroyObjects, OwnerExit
<1>8. ASSUME NEW p \in Posters, PostBegin(p) \/ PostStep(p)
      PROVE  CallbackRefs'
  BY <1>1, <1>8
  DEF PostBegin, PostStep, CheckLatch, CheckQuiescing, PostPin, RecheckLatch,
      RecheckQuiescing, LoadMq, MqSend, Signal, Unpin, Answered, pinVars
<1>9. CASE UNCHANGED vars
  BY <1>1, <1>9 DEF vars, pinVars
<1>10. QED
  BY <1>3, <1>4, <1>5, <1>6, <1>7, <1>8, <1>9
  DEF Next, CanStep, TimerStep, Callbacks, Destroyed

\* No step lets a callback run without its runtime: the owner destroys
\* the objects only at callback_refs = 0, and then nobody is pinned.
LEMMA CallbacksLiveNext ==
    /\ ValuesOK /\ LifeInv /\ CallbackRefs /\ CallbacksLive
    /\ [Next]_vars
    => CallbacksLive'
<1> SUFFICES ASSUME ValuesOK, LifeInv, CallbackRefs, CallbacksLive, [Next]_vars
             PROVE  CallbacksLive'
  OBVIOUS
<1> USE RuntimeAssumption
    DEF LifeInv, Presence, Devices, CallbacksLive, Callbacks, ValuesOK, vars,
        appVars, gateVars, queueVars, deviceVars, pinVars, statusVars
<1>a. callback_refs = 0 => \A c \in Callbacks : cb[c] \in {"idle", "pin"}
  <2>1. IsFiniteSet(CbPinned)
    BY CallbacksFinite, FS_Subset DEF CbPinned
  <2>2. callback_refs = 0 => CbPinned = {}
    BY <2>1, FS_EmptySet DEF CallbackRefs
  <2>3. QED
    BY <2>2 DEF CbPinned, CbPcs
<1>1. CASE StartClearEvents
  BY <1>1 DEF StartClearEvents
<1>2. CASE PrepareRefs
  BY <1>2 DEF PrepareRefs
<1>3. CASE PrepareLatch
  BY <1>3 DEF PrepareLatch
<1>4. CASE PrepareQuiescing
  BY <1>4 DEF PrepareQuiescing
<1>5. CASE CreateThread
  BY <1>5 DEF CreateThread, PreparingPcs
<1>6. CASE StartReady
  BY <1>6 DEF StartReady
<1>7. CASE StartReadyTimeout
  BY <1>7 DEF StartReadyTimeout
<1>8. CASE StartExit
  BY <1>8 DEF StartExit
<1>9. CASE StopBegin
  BY <1>9 DEF StopBegin
<1>10. CASE AppLatch
  BY <1>10 DEF AppLatch
<1>11. CASE AppQuiesce
  BY <1>11 DEF AppQuiesce
<1>12. CASE StopExit
  BY <1>12 DEF StopExit
<1>13. CASE StopExitTimeout
  BY <1>13 DEF StopExitTimeout
<1>14. CASE Destroy
  BY <1>14 DEF Destroy
<1>15. CASE OwnerInitCtx
  BY <1>15 DEF OwnerInitCtx
<1>16. CASE OwnerInitDevices
  BY <1>16 DEF OwnerInitDevices
<1>17. CASE OwnerInitMaster
  BY <1>17 DEF OwnerInitMaster
<1>18. CASE OwnerInitDone
  BY <1>18 DEF OwnerInitDone
<1>19. CASE OpenCheck
  BY <1>19 DEF OpenCheck
<1>20. CASE OpenStore
  BY <1>20 DEF OpenStore
<1>21. CASE OpenRecheck
  BY <1>21 DEF OpenRecheck
<1>22. CASE OwnerReady
  BY <1>22 DEF OwnerReady
<1>23. CASE OwnerWake
  BY <1>23 DEF OwnerWake
<1>24. CASE DispatchOne
  BY <1>24 DEF DispatchOne
<1>25. CASE DispatchEnd
  BY <1>25 DEF DispatchEnd
<1>26. CASE CleanupLatch
  BY <1>26 DEF CleanupLatch
<1>27. CASE CleanupQuiesce
  BY <1>27 DEF CleanupQuiesce
<1>28. CASE CleanupCommandsIdle
  BY <1>28 DEF CleanupCommandsIdle
<1>29. CASE RetireOne
  BY <1>29 DEF RetireOne
<1>30. CASE DeleteQueue
  BY <1>30 DEF DeleteQueue
<1>31. CASE CanQuiesce
  BY <1>31 DEF CanQuiesce, RegistryUnlocked, HoldsRegistryLock
<1>32. CASE DestroyObjects
  BY <1>a, <1>32 DEF DestroyObjects
<1>33. CASE OwnerExit
  BY <1>33 DEF OwnerExit
<1>34. ASSUME NEW p \in Posters, PostBegin(p) \/ PostStep(p)
      PROVE  CallbacksLive'
  BY <1>34
  DEF PostBegin, PostStep, CheckLatch, CheckQuiescing, PostPin, RecheckLatch,
      RecheckQuiescing, LoadMq, MqSend, Signal, Unpin, Answered
<1>35. ASSUME NEW c \in CanCallbacks, CanCallbackEnter(c)
      PROVE  CallbacksLive'
  BY <1>35 DEF CanCallbackEnter, CallbackGoto
<1>36. ASSUME NEW c \in CanCallbacks, CanCallbackPin(c)
      PROVE  CallbacksLive'
  BY <1>36 DEF CanCallbackPin, CallbackGoto
<1>37. ASSUME NEW c \in TimerCallbacks, TimerCallbackEnter(c)
      PROVE  CallbacksLive'
  BY <1>37 DEF TimerCallbackEnter, CallbackGoto
<1>38. ASSUME NEW c \in Callbacks, CallbackRecheck(c)
      PROVE  CallbacksLive'
  BY <1>38 DEF CallbackRecheck, CallbackGoto
<1>39. ASSUME NEW c \in Callbacks, CallbackSend(c)
      PROVE  CallbacksLive'
  BY <1>39 DEF CallbackSend, CallbackGoto
<1>40. ASSUME NEW c \in Callbacks, CallbackRelease(c)
      PROVE  CallbacksLive'
  BY <1>40 DEF CallbackRelease, CallbackGoto
<1>41. CASE UNCHANGED vars
  BY <1>41
<1>42. QED
    BY <1>1, <1>2, <1>3, <1>4, <1>5, <1>6, <1>7, <1>8, <1>9, <1>10, <1>11,
     <1>12, <1>13, <1>14, <1>15, <1>16, <1>17, <1>18, <1>19, <1>20, <1>21,
     <1>22, <1>23, <1>24, <1>25, <1>26, <1>27, <1>28, <1>29, <1>30, <1>31,
     <1>32, <1>33, <1>34, <1>35, <1>36, <1>37, <1>38, <1>39, <1>40, <1>41
  DEF Next, AppNext, AppCall, OwnerNext, Destroyed, CanStep, TimerStep

\* What a step of a poster does to the set of pinned posters.
LEMMA PostGotoPins ==
    ASSUME ValuesOK, NEW p \in Posters, NEW from, NEW to, PostGoto(p, from, to)
    PROVE  /\ (from \in PinnedPcs <=> to \in PinnedPcs) => Pinned' = Pinned
           /\ from \notin PinnedPcs /\ to \in PinnedPcs
                => Pinned' = Pinned \cup {p} /\ p \notin Pinned
           /\ from \in PinnedPcs /\ to \notin PinnedPcs
                => Pinned' = Pinned \ {p} /\ p \in Pinned
  BY DEF ValuesOK, PostGoto, Pinned

\* command_acquire and command_release keep command_refs equal to the
\* number of pinned posters; prepare()'s store of 0 does too, because
\* Latched leaves no poster inside then.
LEMMA RefsNext ==
    ValuesOK /\ Latched /\ RefsCountPosters /\ [Next]_vars => RefsCountPosters'
<1> SUFFICES ASSUME ValuesOK, Latched, RefsCountPosters, [Next]_vars
             PROVE  RefsCountPosters'
  OBVIOUS
<1>a. IsFiniteSet(Pinned)
  BY RuntimeAssumption, FS_Subset DEF Pinned
<1>1. CASE UNCHANGED <<post, command_refs>>
  BY <1>1 DEF RefsCountPosters, Pinned
<1>2. CASE PrepareRefs
  <2>1. Pinned' = {}
    BY <1>2 DEF PrepareRefs, Latched, NoPoster, PreparingPcs, OutsidePcs,
                PinnedPcs, Pinned
  <2>2. QED
    BY <1>2, <2>1, FS_EmptySet DEF PrepareRefs, RefsCountPosters
<1>3. ASSUME NEW p \in Posters, PostPin(p)
      PROVE  RefsCountPosters'
  <2>1. Pinned' = Pinned \cup {p} /\ p \notin Pinned
    BY <1>3, PostGotoPins DEF PostPin, PinnedPcs
  <2>2. Cardinality(Pinned') = Cardinality(Pinned) + 1
    BY <1>a, <2>1, FS_AddElement
  <2>3. QED
    BY <1>3, <2>2 DEF RefsCountPosters, PostPin
<1>4. ASSUME NEW p \in Posters, Unpin(p)
      PROVE  RefsCountPosters'
  <2>1. Pinned' = Pinned \ {p} /\ p \in Pinned
    BY <1>4, PostGotoPins DEF Unpin, PinnedPcs
  <2>2. Cardinality(Pinned') = Cardinality(Pinned) - 1
    BY <1>a, <2>1, FS_RemoveElement
  <2>3. QED
    BY <1>4, <2>2 DEF RefsCountPosters, Unpin
<1>5. ASSUME NEW p \in Posters,
             \/ PostBegin(p) \/ CheckLatch(p) \/ CheckQuiescing(p)
             \/ RecheckLatch(p) \/ RecheckQuiescing(p) \/ LoadMq(p)
             \/ MqSend(p) \/ Signal(p) \/ Answered(p)
      PROVE  RefsCountPosters'
  <2>1. Pinned' = Pinned
    <3>1. CASE PostBegin(p) \/ CheckLatch(p) \/ CheckQuiescing(p) \/ Answered(p)
      BY <3>1, PostGotoPins
      DEF PostBegin, CheckLatch, CheckQuiescing, Answered, PinnedPcs
    <3>2. CASE RecheckLatch(p) \/ RecheckQuiescing(p) \/ LoadMq(p) \/ MqSend(p)
               \/ Signal(p)
      BY <3>2, PostGotoPins
      DEF RecheckLatch, RecheckQuiescing, LoadMq, MqSend, Signal, PinnedPcs
    <3>3. QED
      BY <1>5, <3>1, <3>2
  <2>2. QED
    BY <1>5, <2>1
    DEF RefsCountPosters, PostBegin, CheckLatch, CheckQuiescing, RecheckLatch,
        RecheckQuiescing, LoadMq, MqSend, Signal, Answered, gateVars
<1>6. CASE AppNext
  BY <1>1, <1>2, <1>6
  DEF AppNext, AppCall, gateVars, StartClearEvents, PrepareLatch,
      PrepareQuiescing, CreateThread, StartReady, StartReadyTimeout, StartExit,
      StopBegin, AppLatch, AppQuiesce, StopExit, StopExitTimeout, Destroy
<1>7. CASE OwnerNext
  BY <1>1, <1>7
  DEF OwnerNext, gateVars, OwnerInitCtx, OwnerInitDevices, OwnerInitMaster,
      OwnerInitDone, OpenCheck, OpenStore, OpenRecheck, OwnerReady, OwnerWake,
      DispatchOne, DispatchEnd, CleanupLatch, CleanupQuiesce,
      CleanupCommandsIdle, RetireOne, DeleteQueue, CanQuiesce, DestroyObjects,
      OwnerExit
<1>8. ASSUME NEW c \in Callbacks,
             CanCallbackEnter(c) \/ TimerCallbackEnter(c) \/ CanStep(c) \/ TimerStep(c)
      PROVE  RefsCountPosters'
  BY <1>1, <1>8
  DEF CanCallbackEnter, TimerCallbackEnter, CanStep, TimerStep, CanCallbackPin,
      CallbackRecheck, CallbackSend, CallbackRelease, gateVars
<1>9. CASE UNCHANGED vars
  BY <1>1, <1>9 DEF vars, gateVars
<1>10. QED
  BY <1>3, <1>4, <1>5, <1>6, <1>7, <1>8, <1>9
  DEF Next, PostStep, Callbacks, Destroyed

\* GateInv is inductive: the latch is set before the pins are drained,
\* so a poster that pins later sees the latch in its recheck and leaves
\* without touching the queue.
LEMMA GateNext ==
    /\ DrainBeforeRestart /\ ValuesOK /\ LifeInv /\ RefsCountPosters /\ GateInv
    /\ [Next]_vars
    => GateInv'
<1> SUFFICES ASSUME DrainBeforeRestart, ValuesOK, LifeInv, RefsCountPosters,
                    GateInv, [Next]_vars
             PROVE  GateInv'
  OBVIOUS
<1> USE DEF GateInv, Latched, Quiet, QueuePinned, NoPoster, PreparingPcs,
            CallingPcs, SendingPcs, OutsidePcs, DrainedPcs, LatchedPcs, LifeInv,
            Presence, ValuesOK, vars, appVars, gateVars, queueVars, deviceVars,
            pinVars, statusVars
<1>a. command_refs = 0 => \A p \in Posters : post[p] \notin PinnedPcs
  <2>1. IsFiniteSet(Pinned)
    BY RuntimeAssumption, FS_Subset DEF Pinned
  <2>2. command_refs = 0 => Pinned = {}
    BY <2>1, FS_EmptySet DEF RefsCountPosters
  <2>3. QED
    BY <2>2 DEF Pinned
<1>1. CASE StartClearEvents
  BY <1>1 DEF StartClearEvents
<1>2. CASE PrepareRefs
  BY <1>2 DEF PrepareRefs
<1>3. CASE PrepareLatch
  BY <1>3 DEF PrepareLatch
<1>4. CASE PrepareQuiescing
  BY <1>4 DEF PrepareQuiescing
<1>5. CASE CreateThread
  BY <1>5 DEF CreateThread
<1>6. CASE StartReady
  BY <1>6 DEF StartReady
<1>7. CASE StartReadyTimeout
  BY <1>7 DEF StartReadyTimeout
<1>8. CASE StartExit
  BY <1>8 DEF StartExit
<1>9. CASE StopBegin
  BY <1>9 DEF StopBegin
<1>10. CASE AppLatch
  BY <1>10 DEF AppLatch
<1>11. CASE AppQuiesce
  BY <1>11 DEF AppQuiesce
<1>12. CASE StopExit
  BY <1>12 DEF StopExit
<1>13. CASE StopExitTimeout
  BY <1>13 DEF StopExitTimeout
<1>14. CASE Destroy
  BY <1>14 DEF Destroy
<1>15. CASE OwnerInitCtx
  BY <1>15 DEF OwnerInitCtx
<1>16. CASE OwnerInitDevices
  BY <1>16 DEF OwnerInitDevices
<1>17. CASE OwnerInitMaster
  BY <1>17 DEF OwnerInitMaster
<1>18. CASE OwnerInitDone
  BY <1>18 DEF OwnerInitDone
<1>19. CASE OpenCheck
  BY <1>19 DEF OpenCheck
<1>20. CASE OpenStore
  BY <1>20 DEF OpenStore
<1>21. CASE OpenRecheck
  BY <1>21 DEF OpenRecheck
<1>22. CASE OwnerReady
  BY <1>22 DEF OwnerReady
<1>23. CASE OwnerWake
  BY <1>23 DEF OwnerWake
<1>24. CASE DispatchOne
  BY <1>24 DEF DispatchOne
<1>25. CASE DispatchEnd
  BY <1>25 DEF DispatchEnd
<1>26. CASE CleanupLatch
  BY <1>26 DEF CleanupLatch
<1>27. CASE CleanupQuiesce
  BY <1>27 DEF CleanupQuiesce
<1>28. CASE CleanupCommandsIdle
  BY <1>a, <1>28 DEF CleanupCommandsIdle, PinnedPcs
<1>29. CASE RetireOne
  BY <1>29 DEF RetireOne
<1>30. CASE DeleteQueue
  BY <1>30 DEF DeleteQueue
<1>31. CASE CanQuiesce
  BY <1>31 DEF CanQuiesce
<1>32. CASE DestroyObjects
  BY <1>32 DEF DestroyObjects
<1>33. CASE OwnerExit
  BY <1>33 DEF OwnerExit
<1>34. ASSUME NEW p \in Posters, PostBegin(p)
      PROVE  GateInv'
  BY <1>34 DEF PostBegin, PostGoto
<1>35. ASSUME NEW p \in Posters, CheckLatch(p)
      PROVE  GateInv'
  BY <1>35 DEF CheckLatch, PostGoto
<1>36. ASSUME NEW p \in Posters, CheckQuiescing(p)
      PROVE  GateInv'
  BY <1>36 DEF CheckQuiescing, PostGoto
<1>37. ASSUME NEW p \in Posters, PostPin(p)
      PROVE  GateInv'
  BY <1>37 DEF PostPin, PostGoto
<1>38. ASSUME NEW p \in Posters, RecheckLatch(p)
      PROVE  GateInv'
  BY <1>38 DEF RecheckLatch, PostGoto
<1>39. ASSUME NEW p \in Posters, RecheckQuiescing(p)
      PROVE  GateInv'
  BY <1>39 DEF RecheckQuiescing, PostGoto
<1>40. ASSUME NEW p \in Posters, LoadMq(p)
      PROVE  GateInv'
  BY <1>40 DEF LoadMq, PostGoto
<1>41. ASSUME NEW p \in Posters, MqSend(p)
      PROVE  GateInv'
  BY <1>41 DEF MqSend, PostGoto
<1>42. ASSUME NEW p \in Posters, Signal(p)
      PROVE  GateInv'
  BY <1>42 DEF Signal, PostGoto
<1>43. ASSUME NEW p \in Posters, Unpin(p)
      PROVE  GateInv'
  BY <1>43 DEF Unpin, PostGoto
<1>44. ASSUME NEW p \in Posters, Answered(p)
      PROVE  GateInv'
  BY <1>44 DEF Answered, PostGoto
<1>45. ASSUME NEW c \in Callbacks,
             CanCallbackEnter(c) \/ TimerCallbackEnter(c) \/ CanStep(c) \/ TimerStep(c)
      PROVE  GateInv'
  BY <1>45
  DEF CanCallbackEnter, TimerCallbackEnter, CanStep, TimerStep, CanCallbackPin,
      CallbackRecheck, CallbackSend, CallbackRelease
<1>46. CASE UNCHANGED vars
  BY <1>46
<1>47. QED
    BY <1>1, <1>2, <1>3, <1>4, <1>5, <1>6, <1>7, <1>8, <1>9, <1>10, <1>11,
     <1>12, <1>13, <1>14, <1>15, <1>16, <1>17, <1>18, <1>19, <1>20, <1>21,
     <1>22, <1>23, <1>24, <1>25, <1>26, <1>27, <1>28, <1>29, <1>30, <1>31,
     <1>32, <1>33, <1>34, <1>35, <1>36, <1>37, <1>38, <1>39, <1>40, <1>41,
     <1>42, <1>43, <1>44, <1>45, <1>46
  DEF Next, AppNext, AppCall, OwnerNext, Destroyed, PostStep, Callbacks

\* A step removes a command from the queue only by answering it, and
\* nobody adds one after the queue has been emptied for deletion.
LEMMA ResolvedNext ==
    ValuesOK /\ GateInv /\ Resolved /\ [Next]_vars => Resolved'
<1> SUFFICES ASSUME ValuesOK, GateInv, Resolved, [Next]_vars
             PROVE  Resolved'
  OBVIOUS
<1> USE DEF Resolved, ResolvedPcs
<1>1. CASE UNCHANGED <<owner, queue, fate>>
  BY <1>1
<1>2. CASE /\ UNCHANGED <<queue, fate>>
           /\ owner' \in ResolvedPcs => owner \in ResolvedPcs \/ queue = <<>>
  BY <1>2
<1>3. CASE DispatchOne \/ RetireOne
  <2>1. ASSUME NEW p \in Posters, fate'[p] = "queued"
        PROVE  \E i \in 1..Len(queue') : queue'[i] = p
    <3>1. p # Head(queue) /\ fate[p] = "queued"
      BY <1>3, <2>1 DEF DispatchOne, RetireOne, ValuesOK
    <3>2. PICK i \in 1..Len(queue) : queue[i] = p
      BY <3>1
    <3>3. i # 1
      BY <1>3, <3>1, <3>2 DEF DispatchOne, RetireOne, ValuesOK
    <3>4. queue' = Tail(queue) /\ i - 1 \in 1..Len(queue')
      BY <1>3, <3>2, <3>3 DEF DispatchOne, RetireOne, ValuesOK
    <3>5. queue'[i - 1] = p
      BY <3>2, <3>3, <3>4 DEF ValuesOK
    <3>6. QED
      BY <3>4, <3>5
  <2>2. QED
    BY <1>3, <2>1 DEF DispatchOne, RetireOne
<1>4. ASSUME NEW p \in Posters, MqSend(p)
      PROVE  Resolved'
  <2>1. CASE queue' = Append(queue, p)
    <3>1. owner \notin ResolvedPcs
      BY <1>4 DEF MqSend, PostGoto, GateInv, Quiet, DrainedPcs, SendingPcs
    <3>2. ASSUME NEW q \in Posters, fate'[q] = "queued"
          PROVE  \E i \in 1..Len(queue') : queue'[i] = q
      <4>1. CASE q = p
        <5>1. Len(queue) + 1 \in 1..Len(queue') /\ queue'[Len(queue) + 1] = p
          BY <2>1 DEF ValuesOK
        <5>2. QED
          BY <4>1, <5>1
      <4>2. CASE q # p
        <5>1. fate[q] = "queued"
          BY <1>4, <3>2, <4>2 DEF MqSend, ValuesOK
        <5>2. PICK i \in 1..Len(queue) : queue[i] = q
          BY <5>1
        <5>3. i \in 1..Len(queue') /\ queue'[i] = q
          BY <2>1, <5>2 DEF ValuesOK
        <5>4. QED
          BY <5>3
      <4>3. QED
        BY <4>1, <4>2
    <3>3. QED
      BY <1>4, <3>1, <3>2 DEF MqSend
  <2>2. QED
    BY <1>1, <1>4, <2>1 DEF MqSend
<1>5. ASSUME NEW p \in Posters, PostBegin(p)
      PROVE  Resolved'
  BY <1>5 DEF PostBegin, ValuesOK
<1>6. ASSUME NEW p \in Posters,
             \/ CheckLatch(p) \/ CheckQuiescing(p) \/ PostPin(p)
             \/ RecheckLatch(p) \/ RecheckQuiescing(p) \/ LoadMq(p)
             \/ Signal(p) \/ Unpin(p) \/ Answered(p)
      PROVE  Resolved'
  BY <1>1, <1>6
  DEF CheckLatch, CheckQuiescing, PostPin, RecheckLatch, RecheckQuiescing, LoadMq,
      Signal, Unpin, Answered, queueVars
<1>7. CASE AppNext
  BY <1>1, <1>2, <1>7
  DEF AppNext, AppCall, queueVars, StartClearEvents, PrepareRefs, PrepareLatch,
      PrepareQuiescing, CreateThread, StartReady, StartReadyTimeout, StartExit,
      StopBegin, AppLatch, AppQuiesce, StopExit, StopExitTimeout, Destroy
<1>8. CASE OwnerNext
  BY <1>2, <1>3, <1>8
  DEF OwnerNext, queueVars, OwnerInitCtx, OwnerInitDevices, OwnerInitMaster,
      OwnerInitDone, OpenCheck, OpenStore, OpenRecheck, OwnerReady, OwnerWake,
      DispatchEnd, CleanupLatch, CleanupQuiesce, CleanupCommandsIdle,
      DeleteQueue, CanQuiesce, DestroyObjects, OwnerExit
<1>9. ASSUME NEW c \in Callbacks,
             CanCallbackEnter(c) \/ TimerCallbackEnter(c) \/ CanStep(c) \/ TimerStep(c)
      PROVE  Resolved'
  BY <1>1, <1>9
  DEF CanCallbackEnter, TimerCallbackEnter, CanStep, TimerStep, CanCallbackPin,
      CallbackRecheck, CallbackSend, CallbackRelease, queueVars
<1>10. CASE UNCHANGED vars
  BY <1>1, <1>10 DEF vars, queueVars
<1>11. QED
  BY <1>4, <1>5, <1>6, <1>7, <1>8, <1>9, <1>10
  DEF Next, PostStep, Callbacks, Destroyed

-----------------------------------------------------------------------------
(* Theorems                                                                *)

\* The inductive invariant of the lifecycle and the callbacks holds in
\* every run, whatever posters do.
THEOREM LifetimeInvariant == Spec => [](TypeOK /\ LifeInv /\ CallbackRefs /\ CallbacksLive)
<1>1. Init => CallbackRefs /\ CallbacksLive
  <2>1. Init => CbPinned = {}
    BY DEF Init, CbPinned
  <2>2. QED
    BY <2>1, FS_EmptySet DEF Init, CallbackRefs, CallbacksLive
<1>2. QED
  BY <1>1, TypeInit, BooleansNext, ValuesNext, LifeInit, LifeNext, CallbackRefsNext,
     CallbacksLiveNext, PTL
  DEF Spec, TypeOK

\* start() never runs over, and destroy() never frees, a runtime whose
\* owner thread still runs, through every timeout of start() and stop().
THEOREM ExitBarrierHolds == Spec => []ExitBarrier
<1>1. LifeInv => ExitBarrier
  BY DEF LifeInv, Presence, Devices, ExitBarrier
<1>2. QED
  BY <1>1, LifetimeInvariant, PTL

\* start() reports success only for an owner whose initialisation
\* succeeded, never because of a flag left over from an earlier run.
THEOREM StartVerdictHolds == Spec => []StartVerdict
<1>1. LifeInv => StartVerdict
  BY DEF LifeInv, Verdict, StartVerdict
<1>2. QED
  BY <1>1, LifetimeInvariant, PTL

\* A CAN or timer callback never uses a runtime whose objects are
\* destroyed or which is freed.
THEOREM CallbackLifetimeHolds == Spec => []CallbackLifetime
<1>1. CallbacksLive => CallbackLifetime
  BY DEF CallbacksLive, CallbackLifetime
<1>2. QED
  BY <1>1, LifetimeInvariant, PTL

\* The inductive invariant of the queue's admission gate holds in every
\* run in which start() is not called over an unfinished post.
THEOREM PosterInvariant ==
    ASSUME DrainBeforeRestart
    PROVE  Spec => [](GateInv /\ RefsCountPosters)
<1>1. Init => GateInv /\ RefsCountPosters
  <2>1. Init => Pinned = {}
    BY DEF Init, Pinned, PinnedPcs
  <2>2. QED
    BY <2>1, FS_EmptySet
    DEF Init, RefsCountPosters, GateInv, Latched, Quiet, QueuePinned, NoPoster,
        PreparingPcs, SendingPcs, OutsidePcs, DrainedPcs, LatchedPcs
<1>2. TypeOK /\ LifeInv /\ GateInv /\ RefsCountPosters /\ [Next]_vars
        => (GateInv /\ RefsCountPosters)'
  BY DrainBeforeRestart, GateNext, RefsNext DEF TypeOK, GateInv
<1>3. QED
  BY <1>1, <1>2, LifetimeInvariant, PTL DEF Spec

\* A poster that sends finds the queue alive: master_command_fini never
\* deletes command_mq between its load and rt_mq_send.
THEOREM QueuePinnedHolds ==
    ASSUME DrainBeforeRestart PROVE Spec => []QueuePinned
<1>1. GateInv => QueuePinned
  BY DEF GateInv
<1>2. QED
  BY <1>1, PosterInvariant, DrainBeforeRestart, PTL

\* While the owner retires and deletes the queue no poster is sending.
THEOREM TeardownExclusiveHolds ==
    ASSUME DrainBeforeRestart PROVE Spec => []TeardownExclusive
<1>1. GateInv => TeardownExclusive
  BY DEF GateInv, Quiet, DrainedPcs, SendingPcs, TeardownExclusive
<1>2. QED
  BY <1>1, PosterInvariant, DrainBeforeRestart, PTL

\* command_refs is the number of posters holding the queue's pin.
THEOREM RefsCountPostersHolds ==
    ASSUME DrainBeforeRestart PROVE Spec => []RefsCountPosters
  BY PosterInvariant, DrainBeforeRestart, PTL

\* Every command that master_command_post accepted is dispatched or
\* retired by the time the owner has torn the queue down.
THEOREM AcceptedResolvedHolds ==
    ASSUME DrainBeforeRestart PROVE Spec => []AcceptedResolved
<1>1. Init => Resolved
  BY DEF Init, Resolved
<1>2. TypeOK /\ GateInv /\ Resolved /\ [Next]_vars => Resolved'
  BY ResolvedNext DEF TypeOK
<1>3. Resolved => AcceptedResolved
  BY DEF Resolved, ResolvedPcs, AcceptedResolved
<1>4. QED
  BY <1>1, <1>2, <1>3, TypeCorrect, PosterInvariant, DrainBeforeRestart, PTL DEF Spec

=============================================================================
