------------------------- MODULE WindowPresentation -------------------------
(***************************************************************************)
(* The playback session and its native window: the presentation controller *)
(* (playback/session/presentation_controller.cpp), which takes the window  *)
(* to the state the user asked for without blocking; the presenter         *)
(* (playback/framebuffer/window_presenter.cpp and presenter.cpp), which    *)
(* opens, drives and closes the window on a thread of its own; and the     *)
(* dispatch queue between the two (core/thread_dispatch_queue.cpp), on     *)
(* which the session waits without a bound for that thread.                *)
(*                                                                         *)
(* Only the session's thread calls into the queue, so there is at most one *)
(* item.  requestStop()'s stores are steps of their own.  Whether a window *)
(* opens and whether a request can be applied is left open.  Frames, focus,*)
(* placement and the fullscreen variants are left out.                     *)
(***************************************************************************)
EXTENDS Naturals

CONSTANT MaxTransitions   \* bound on the transitions the user asks for

VARIABLES
  desired,      \* desiredState_: "terminal", "window" or "pip"
  applied,      \* appliedState_
  failing,      \* transitionFailurePending_
  session,      \* the session's thread
  asked,        \* number of transitions asked for
  lifecycle,    \* the presenter's lifecycle
  threadState,  \* "Disabled", "Enabled" or "Stopping"
  changed,      \* lifecycleChanged is signalled
  wake,         \* the presenter's auto-reset wake event
  accepting,    \* the queue's accepting_
  ready,        \* the queue's ready_ signal
  item,         \* the item in or out of the queue, "none" when there is none
  purpose,      \* what the session invoked or is about to do with the answer
  thread,       \* the window's thread, "none" when it is not joinable
  broken        \* a failure happened that nobody was told of yet

controller == <<desired, applied, failing>>
queue == <<accepting, ready, item>>
window == <<lifecycle, threadState>>
vars == <<controller, session, asked, window, changed, wake, queue, purpose,
          thread, broken>>

NeedsWindow(state) == state # "terminal"

\* PumpableWorkerThread::ready()
ThreadIsOver == thread \in {"none", "exited"}

Init ==
  /\ desired \in {"terminal", "window"}
  /\ applied = "terminal"
  /\ failing = FALSE
  /\ session = "turn"
  /\ asked = 0
  /\ lifecycle = "Closed"
  /\ threadState = "Disabled"
  /\ changed = FALSE
  /\ wake = FALSE
  /\ accepting = FALSE
  /\ ready = FALSE
  /\ item = "none"
  /\ purpose = "none"
  /\ thread = "none"
  /\ broken = FALSE

\* invoke(): the item is queued for the window's thread, which is woken.
Invoke(what) ==
  /\ purpose' = what
  /\ IF accepting
       THEN /\ item' = "queued"
            /\ ready' = TRUE
            /\ session' = "waiting"
       ELSE /\ item' = "refused"
            /\ session' = "answered"
            /\ UNCHANGED ready
  /\ UNCHANGED accepting

-----------------------------------------------------------------------------
(* The session between two looks at the window *)

\* transitionTo()
Transition ==
  /\ session = "turn"
  /\ asked < MaxTransitions
  /\ \E next \in {"terminal", "window", "pip"} \ {desired} : desired' = next
  /\ asked' = asked + 1
  /\ UNCHANGED <<applied, failing, session, window, changed, wake, queue,
                 purpose, thread, broken>>

Sleep ==
  /\ session = "synced"
  /\ session' = "asleep"
  /\ UNCHANGED <<controller, asked, window, changed, wake, queue, purpose,
                 thread, broken>>

\* A slip of Activity: the lifecycle signal alone wakes the session.
ActivityOfSignalOnly == changed

\* windowTransitionWaitHandle(): the thread itself while the window closes.
Activity ==
  \/ lifecycle \in {"Opening", "Open", "Failed"} /\ changed
  \/ lifecycle = "Closing" /\ thread = "exited"

Wake ==
  /\ session = "asleep"
  /\ Activity
  /\ session' = "turn"
  /\ UNCHANGED <<controller, asked, window, changed, wake, queue, purpose,
                 thread, broken>>

\* The session has other handles and deadlines.
OtherWake ==
  /\ session \in {"asleep", "synced"}
  /\ session' = "turn"
  /\ UNCHANGED <<controller, asked, window, changed, wake, queue, purpose,
                 thread, broken>>

\* What else runs on the window's thread, if there is one: its cursor, also while
\* it closes, its activation, a copy of the frame; once in a turn.
Call ==
  /\ session = "synced"
  /\ Invoke("call")
  /\ UNCHANGED <<controller, asked, window, changed, wake, thread, broken>>

\* synchronize() consumes the change before it looks at the lifecycle.
Synchronize ==
  /\ session = "turn"
  /\ changed' = FALSE
  /\ session' = "decide"
  /\ UNCHANGED <<controller, asked, window, wake, queue, purpose, thread,
                 broken>>

-----------------------------------------------------------------------------
(* synchronize(): what it decides *)

Matches == lifecycle = (IF NeedsWindow(desired) THEN "Open" ELSE "Closed")

\* finish(false, ...): the transition is over, and its failure was told.
Settle(state) ==
  /\ desired' = state
  /\ applied' = state
  /\ failing' = FALSE
  /\ broken' = FALSE
  /\ session' = "synced"
  /\ purpose' = "none"

Settled ==
  /\ session = "decide"
  /\ desired = applied /\ Matches
  /\ failing' = FALSE
  /\ session' = "synced"
  /\ UNCHANGED <<desired, applied, asked, window, changed, wake, queue,
                 purpose, thread, broken>>

Unsettled == session = "decide" /\ ~(desired = applied /\ Matches)

\* The terminal is desired.
ToTerminal ==
  /\ Unsettled
  /\ ~NeedsWindow(desired)
  /\ \/ /\ lifecycle = "Closed"
        /\ Settle(desired)
        /\ UNCHANGED queue
     \/ /\ lifecycle = "Open" /\ NeedsWindow(applied)
        /\ Invoke("leave")
        /\ UNCHANGED <<controller, broken>>
     \/ /\ lifecycle # "Closed"
        /\ ~(lifecycle = "Open" /\ NeedsWindow(applied))
        /\ session' = IF lifecycle = "Closing" THEN "finish" ELSE "stop"
        /\ UNCHANGED <<controller, queue, purpose, broken>>
  /\ UNCHANGED <<asked, window, changed, wake, thread>>

\* requestStart() with a closed window and no thread.
StartWindow ==
  /\ lifecycle' = "Opening"
  /\ threadState' = "Enabled"
  /\ thread' = "dispatch"
  /\ wake' = TRUE

\* giving up: the terminal takes over and the window, if any, is stopped.
GiveUp ==
  /\ failing' = TRUE
  /\ desired' = "terminal"
  /\ session' = "stop"
  /\ UNCHANGED applied

\* A window is desired and there is none: the old one is joined, a new one
\* is started, or its thread cannot be.
OpenWindow ==
  /\ Unsettled
  /\ NeedsWindow(desired)
  /\ lifecycle = "Closed" \/ (lifecycle = "Closing" /\ ThreadIsOver)
  /\ changed' = FALSE
  /\ \/ /\ StartWindow
        /\ session' = "synced"
        /\ UNCHANGED <<controller, broken>>
     \/ /\ lifecycle' = "Failed"
        /\ threadState' = "Disabled"
        /\ thread' = "none"
        /\ broken' = TRUE
        /\ GiveUp
        /\ UNCHANGED wake
  /\ UNCHANGED <<asked, queue, purpose>>

\* A window is desired and is on its way; the session looks again later.
AwaitWindow ==
  /\ Unsettled
  /\ NeedsWindow(desired)
  /\ lifecycle = "Opening" \/ (lifecycle = "Closing" /\ ~ThreadIsOver)
  /\ session' = "synced"
  /\ UNCHANGED <<controller, asked, window, changed, wake, queue, purpose,
                 thread, broken>>

WindowFailed ==
  /\ Unsettled
  /\ NeedsWindow(desired)
  /\ lifecycle = "Failed"
  /\ GiveUp
  /\ UNCHANGED <<asked, window, changed, wake, queue, purpose, thread, broken>>

ApplyToWindow ==
  /\ Unsettled
  /\ NeedsWindow(desired)
  /\ lifecycle = "Open"
  /\ Invoke("apply")
  /\ UNCHANGED <<controller, asked, window, changed, wake, thread, broken>>

-----------------------------------------------------------------------------
(* synchronize(): the window's thread answers *)

\* The wait in invoke() is over; the item belongs to nobody any more.
Answer ==
  /\ session = "waiting"
  /\ item \in {"done", "refused"}
  /\ session' = "answered"
  /\ UNCHANGED <<controller, asked, window, changed, wake, queue, purpose,
                 thread, broken>>

\* What follows the answer to each invocation; "done" is a request applied.
Proceed ==
  /\ session = "answered"
  /\ item' = "none"
  /\ \/ /\ purpose \in {"leave", "call"}
        /\ session' = IF purpose = "leave" THEN "stop" ELSE "asleep"
        /\ purpose' = "none"
        /\ UNCHANGED <<controller, broken, accepting, ready>>
     \/ /\ purpose = "apply" /\ item = "done"
        /\ applied' = desired
        /\ session' = "capture"
        /\ UNCHANGED <<desired, failing, broken, purpose, accepting, ready>>
     \/ /\ purpose = "capture" \/ (purpose = "rollback" /\ item = "done")
        /\ Settle(applied)
        /\ UNCHANGED <<accepting, ready>>
     \/ /\ purpose = "apply" /\ item = "refused"
        /\ NeedsWindow(applied) /\ lifecycle = "Open"
        /\ session' = "rollback"
        /\ UNCHANGED <<controller, broken, purpose, accepting, ready>>
     \/ /\ purpose = "rollback" \/ ~NeedsWindow(applied) \/ lifecycle # "Open"
        /\ purpose \in {"apply", "rollback"} /\ item = "refused"
        /\ GiveUp
        /\ purpose' = "none"
        /\ UNCHANGED <<broken, accepting, ready>>
  /\ UNCHANGED <<asked, window, changed, wake, thread>>

\* The state that was applied before is asked for again, or the placement of
\* the window is captured in the new one.
InvokeAgain ==
  /\ session \in {"rollback", "capture"}
  /\ Invoke(session)
  /\ UNCHANGED <<controller, asked, window, changed, wake, thread, broken>>

-----------------------------------------------------------------------------
(* requestStop() and finishStop(), of synchronize() or of the shutdown *)

\* Without a thread there is nothing to stop.
RequestStop ==
  /\ session \in {"stop", "close"}
  /\ IF thread = "none"
       THEN /\ session' = IF session = "stop" THEN "finish" ELSE "closing"
            /\ UNCHANGED lifecycle
       ELSE /\ session' = IF session = "stop" THEN "stop_thread"
                                              ELSE "close_thread"
            /\ lifecycle' = "Closing"
  /\ UNCHANGED <<controller, asked, threadState, changed, wake, queue,
                 purpose, thread, broken>>

StopThread ==
  /\ session \in {"stop_thread", "close_thread"}
  /\ threadState' = "Stopping"
  /\ session' = IF session = "stop_thread" THEN "stop_queue" ELSE "close_queue"
  /\ UNCHANGED <<controller, asked, lifecycle, changed, wake, queue, purpose,
                 thread, broken>>

\* A slip of StopQueue: the window's thread is not notified.
StopQueueSilently ==
  /\ session \in {"stop_queue", "close_queue"}
  /\ accepting' = FALSE
  /\ ready' = FALSE
  /\ session' = IF session = "stop_queue" THEN "finish" ELSE "closing"
  /\ UNCHANGED <<controller, asked, window, changed, wake, item, purpose,
                 thread, broken>>

\* dispatch.close() and notify()
StopQueue ==
  /\ session \in {"stop_queue", "close_queue"}
  /\ accepting' = FALSE
  /\ ready' = FALSE
  /\ wake' = TRUE
  /\ session' = IF session = "stop_queue" THEN "finish" ELSE "closing"
  /\ UNCHANGED <<controller, asked, window, changed, item, purpose, thread,
                 broken>>

\* windowCloseReady() and finishStop(), or the session looks again later.
FinishStop ==
  /\ session = "finish"
  /\ IF ThreadIsOver
       THEN /\ thread' = "none"
            /\ lifecycle' = "Closed"
            /\ threadState' = "Disabled"
            /\ changed' = FALSE
            /\ Settle(desired)
       ELSE /\ session' = "synced"
            /\ UNCHANGED <<controller, window, changed, thread, broken, purpose>>
  /\ UNCHANGED <<asked, wake, queue>>

\* beginShutdown(), at the end of any turn.
BeginShutdown ==
  /\ session \in {"turn", "synced"}
  /\ session' = "close"
  /\ UNCHANGED <<controller, asked, window, changed, wake, queue, purpose,
                 thread, broken>>

\* The shutdown sequence waits for the thread and joins it.
FinishShutdown ==
  /\ session = "closing"
  /\ ThreadIsOver
  /\ thread' = "none"
  /\ lifecycle' = "Closed"
  /\ threadState' = "Disabled"
  /\ changed' = FALSE
  /\ session' = "stopped"
  /\ UNCHANGED <<controller, asked, wake, queue, purpose, broken>>

Decide ==
  Settled \/ ToTerminal \/ OpenWindow \/ AwaitWindow \/ WindowFailed
    \/ ApplyToWindow

Stopping == RequestStop \/ StopThread \/ StopQueue \/ FinishStop

Session ==
  \/ Transition
  \/ Sleep
  \/ Wake
  \/ OtherWake
  \/ Call
  \/ Synchronize
  \/ Decide
  \/ Answer
  \/ Proceed
  \/ InvokeAgain
  \/ Stopping
  \/ BeginShutdown
  \/ FinishShutdown

-----------------------------------------------------------------------------
(* The window's thread *)

\* openOnCurrentThread()
OpenQueue ==
  /\ thread = "dispatch"
  /\ accepting' = TRUE
  /\ ready' = FALSE
  /\ thread' = "open"
  /\ UNCHANGED <<controller, session, asked, window, changed, wake, item,
                 purpose, broken>>

\* The compare-exchange: a window that is being closed already stays so.
TellOpened(state) == IF lifecycle = "Opening" THEN state ELSE lifecycle

OpenNativeWindow ==
  /\ thread = "open"
  /\ \/ /\ lifecycle' = TellOpened("Open")
        /\ thread' = "opened"
        /\ UNCHANGED broken
     \/ /\ lifecycle' = TellOpened("Failed")
        /\ thread' = "unopened"
        /\ broken' = TRUE
  /\ UNCHANGED <<controller, session, asked, threadState, changed, wake,
                 queue, purpose>>

TellLifecycle ==
  /\ thread \in {"opened", "unopened"}
  /\ changed' = TRUE
  /\ thread' = IF thread = "opened" THEN "top" ELSE "close"
  /\ UNCHANGED <<controller, session, asked, window, wake, queue, purpose,
                 broken>>

\* runFramebufferPresenterLoop(), its test and processPending().
LoopTop ==
  /\ thread = "top"
  /\ thread' = IF threadState = "Stopping" THEN "close" ELSE "process"
  /\ UNCHANGED <<controller, session, asked, window, changed, wake, queue,
                 purpose, broken>>

ProcessPending ==
  /\ thread = "process"
  /\ IF accepting /\ item = "queued"
       THEN item' = "running" /\ thread' = "task"
       ELSE thread' = "test" /\ UNCHANGED item
  /\ ready' = FALSE
  /\ UNCHANGED <<controller, session, asked, window, changed, wake, accepting,
                 purpose, broken>>

\* The task tells its caller whether the window took the request.
RunTask ==
  /\ thread = "task"
  /\ \/ item' = "done" /\ UNCHANGED broken
     \/ /\ item' = "refused"
        /\ broken' = (broken \/ purpose \in {"apply", "rollback"})
  /\ thread' = "process"
  /\ UNCHANGED <<controller, session, asked, window, changed, wake, accepting,
                 ready, purpose>>

\* A frame that is forced is presented; otherwise the thread waits for one.
TestOrWait ==
  /\ thread = "test"
  /\ thread' \in IF threadState = "Stopping" THEN {"close"} ELSE {"top", "wait"}
  /\ UNCHANGED <<controller, session, asked, window, changed, wake, queue,
                 purpose, broken>>

\* The wake event resets itself when it ends the wait.
WaitEnds ==
  /\ thread = "wait"
  /\ wake \/ ready
  /\ wake' = FALSE
  /\ thread' = "process"
  /\ UNCHANGED <<controller, session, asked, window, changed, queue, purpose,
                 broken>>

\* A frame, a window message or a deadline ends it too.
FrameArrives ==
  /\ thread = "wait"
  /\ thread' = "process"
  /\ UNCHANGED <<controller, session, asked, window, changed, wake, queue,
                 purpose, broken>>

\* Slips of CloseQueue: what is queued stays there, or all of it is left to the
\* session's stop.
CloseQueueKeeping ==
  /\ thread = "close"
  /\ accepting' = FALSE
  /\ ready' = FALSE
  /\ thread' = "end"
  /\ UNCHANGED <<controller, session, asked, window, changed, wake, item,
                 purpose, broken>>

CloseQueueNot ==
  /\ thread = "close"
  /\ thread' = "end"
  /\ UNCHANGED <<controller, session, asked, window, changed, wake, queue,
                 purpose, broken>>

\* dispatch.close(): whoever waits for a queued item is refused.
CloseQueue ==
  /\ thread = "close"
  /\ accepting' = FALSE
  /\ ready' = FALSE
  /\ item' = IF item = "queued" THEN "refused" ELSE item
  /\ thread' = "end"
  /\ UNCHANGED <<controller, session, asked, window, changed, wake, purpose,
                 broken>>

\* A slip of EndThread: a window that was open is reported as failed.
EndThreadAsFailed ==
  /\ thread = "end"
  /\ threadState' = "Disabled"
  /\ lifecycle' = "Failed"
  /\ changed' = TRUE
  /\ thread' = "ended"
  /\ UNCHANGED <<controller, session, asked, wake, queue, purpose, broken>>

\* The last signal comes some time before the thread is gone.
EndThread ==
  /\ thread = "end"
  /\ threadState' = "Disabled"
  /\ lifecycle' = IF lifecycle = "Open" THEN "Failed" ELSE lifecycle
  /\ changed' = TRUE
  /\ thread' = "ended"
  /\ UNCHANGED <<controller, session, asked, wake, queue, purpose, broken>>

Exit ==
  /\ thread = "ended"
  /\ thread' = "exited"
  /\ UNCHANGED <<controller, session, asked, window, changed, wake, queue,
                 purpose, broken>>

Window ==
  \/ OpenQueue
  \/ OpenNativeWindow
  \/ TellLifecycle
  \/ LoopTop
  \/ ProcessPending
  \/ RunTask
  \/ TestOrWait
  \/ WaitEnds
  \/ FrameArrives
  \/ CloseQueue
  \/ EndThread
  \/ Exit

Next == Session \/ Window

Spec == Init /\ [][Next]_vars

\* The session sleeps at the end of a turn and looks at the window when it
\* wakes; a call it is inside of goes on, as the window's thread does.
SessionGoesOn ==
  Decide \/ Answer \/ Proceed \/ InvokeAgain \/ Stopping \/ FinishShutdown

WindowGoesOn ==
  OpenQueue \/ OpenNativeWindow \/ TellLifecycle \/ LoopTop \/ ProcessPending
    \/ RunTask \/ TestOrWait \/ WaitEnds \/ CloseQueue \/ EndThread \/ Exit

Fairness ==
  /\ WF_vars(Wake)
  /\ WF_vars(Synchronize)
  /\ WF_vars(Sleep)
  /\ WF_vars(SessionGoesOn)
  /\ WF_vars(WindowGoesOn)

FairSpec == Spec /\ Fairness

-----------------------------------------------------------------------------
(* Properties *)

TypeOK ==
  /\ {desired, applied} \subseteq {"terminal", "window", "pip"}
  /\ {failing, changed, wake, accepting, ready, broken} \subseteq BOOLEAN
  /\ lifecycle \in {"Closed", "Opening", "Open", "Closing", "Failed"}
  /\ threadState \in {"Disabled", "Enabled", "Stopping"}
  /\ item \in {"none", "queued", "running", "done", "refused"}
  /\ purpose \in {"none", "call", "leave", "apply", "rollback", "capture"}

\* The queue is opened closed and empty, which its code asserts, although a
\* stop can be requested before the window's thread came to open it.
QueueOpensEmpty == thread = "dispatch" => ~accepting /\ item # "queued"

\* The user is told that a transition failed only when the window did not
\* open or did not take a request: a window that is closed on demand, however
\* the transitions overlap, is never taken for one that failed.
FailureIsReal == failing => broken

\* An invocation always returns: the window's thread answers it or refuses it
\* when it closes.
InvokeReturns == session = "waiting" ~> session # "waiting"

\* Once the user asks for nothing more, the window comes to match the state
\* that is shown, and that state is the one asked for unless it failed.
PresentationSettles ==
  asked = MaxTransitions ~>
    (desired = applied /\ Matches) \/ session \in {"close", "stopped"}

\* A session that shuts down closes its window and joins its thread.
ShutdownFinishes == session = "close" ~> session = "stopped"

=============================================================================
