----------------------------- MODULE Compositor -----------------------------
(****************************************************************************)
(* cc/scheduler/scheduler.cc and cc/trees/thread_proxy.cc: the compositor   *)
(* (impl) thread, which runs the scheduler, and the main thread, which      *)
(* paints and commits. The threads post each other tasks, and the main      *)
(* thread blocks on completion events that the impl thread signals.         *)
(*                                                                          *)
(* A step of the impl thread is a task up to ProcessScheduledActions, one   *)
(* round of its loop, or what follows the loop; a step of the main thread   *)
(* is a call or a task up to the next event it waits for.                   *)
(*                                                                          *)
(* External, by how it is used: the layer trees, the tile manager and the   *)
(* output surface, of which only the requests for frames are kept.          *)
(****************************************************************************)
EXTENDS SchedulerStateMachine, Sequences

CONSTANTS Compositors,   \* compositors to look at: their settings and the calls made on them
          MaxRecreate    \* failures after which the main thread gives up

\* What the embedder calls on the main thread.
MainCalls == {"SetNeedsCommit", "SetNeedsAnimate", "SetNeedsUpdateLayers", "SetVisible",
              "AcquireLayerTextures", "SetNextCommitWaitsForActivation", "SetDeferCommits",
              "CompositeAndReadback"}

\* What LayerTreeHostImpl tells its client on the impl thread.
ClientCalls == {"SetNeedsRedrawOnImplThread", "SetNeedsCommitOnImplThread",
                "SetNeedsManageTilesOnImplThread", "NotifyReadyToActivate",
                "CanDraw", "CannotDraw", "SmoothnessTakesPriority", "SamePriority"}

\* BeginImplFrame: frames come from the browser and not from a timer.
Calls == MainCalls \cup ClientCalls \cup {"BeginImplFrame"}

ASSUME CompositorsAssumption ==
    /\ Compositors \subseteq [settings : SUBSET Settings, calls : SUBSET Calls]
    /\ MaxRecreate \in Nat \ {0}

VARIABLES
    sm,          \* Scheduler::state_machine_
    requested,   \* Scheduler::last_set_needs_begin_impl_frame_
    deadline,    \* begin_impl_frame_deadline_closure_ is posted
    poll,        \* poll_for_draw_triggers_closure_ is posted
    stage,       \* inside ProcessScheduledActions, and what comes after it
    surface,     \* OutputSurface: needs_begin_impl_frame_, client_ready_..., ticking
    events,      \* completion events and requests the impl thread has pointers to
    uploading,   \* current_resource_update_controller_on_impl_thread_
    implQueue,   \* tasks of the impl thread
    main,        \* members of ThreadProxy and LayerTreeHost the main thread uses
    pc,          \* where the main thread is
    signalled,   \* completion events that are signalled
    mainQueue,   \* tasks of the main thread
    failed       \* assertions that did not hold

schedulerVars == <<sm, requested, deadline, poll, stage, surface>>
proxyVars == <<events, uploading>>
mainVars == <<main, pc>>
vars == <<schedulerVars, proxyVars, implQueue, mainVars, signalled, mainQueue, failed>>

Stages == {"idle", "none", "starting", "deadline", "poll", "readback", "visible", "init"}
Events == {"sent", "readback", "commit", "held", "textures"}
Completions == {"sent", "readback", "commit", "textures", "visible", "has", "init"}
PCs == {"idle", "sent", "readback", "commit", "textures", "visible", "has", "init"}
ImplTasks == {"SetCanStart", "SetNeedsCommit", "Show", "Hide", "ForceCommitForReadback",
              "StartCommit", "AbortHandled", "AbortUnhandled", "AcquireLayerTextures",
              "HasInitializedOutputSurface", "InitializeOutputSurface"}
MainTasks == {"BeginMainFrame", "CreateAndInitializeOutputSurface", "Retry"}

\* ThreadProxy::Start is over: the scheduler knows that the layers are visible, and
\* the client is about to be ready.
Init ==
    /\ requested = FALSE
    /\ deadline = FALSE
    /\ poll = FALSE
    /\ stage = "idle"
    /\ surface = [needs |-> FALSE, ready |-> TRUE, ticking |-> FALSE, renderer |-> FALSE]
    /\ events = {}
    /\ uploading = FALSE
    /\ implQueue = <<"SetCanStart">>
    /\ \E c \in Compositors :
         /\ sm = [InitialState(c.settings) EXCEPT !.visible = TRUE]
         /\ main = [calls |-> c.calls,
                    commitRequested |-> FALSE, requestSent |-> FALSE, animateRequested |-> FALSE,
                    canCancel |-> TRUE, texturesAcquired |-> TRUE, deferCommits |-> FALSE,
                    deferred |-> FALSE, visible |-> TRUE, surfaceLost |-> TRUE,
                    canBeInitialized |-> TRUE, attempts |-> 0, inReadback |-> FALSE,
                    waitsForActivation |-> FALSE, reply |-> FALSE]
    /\ pc = "idle"
    /\ signalled = {}
    /\ mainQueue = <<>>
    /\ failed = {}

\* DCHECK(condition), named `label'. A failed check ends the behaviour.
Assert(label, condition) == failed' = IF condition THEN failed ELSE failed \cup {label}

-----------------------------------------------------------------------------
(* Scheduler: ProcessScheduledActions *)

\* The thread enters the loop, or is in it already; `then' is what follows.
Process(then) == stage' = IF stage = "idle" THEN then ELSE stage

Round(action) == failed = {} /\ stage # "idle" /\ NextAction(sm) = action

Signal(event) ==
    IF event \in events THEN /\ signalled' = signalled \cup {event}
                             /\ events' = events \ {event}
                        ELSE UNCHANGED <<signalled, events>>

AcquireLayerTexturesForMainThread ==
    /\ Round("ACQUIRE_LAYER_TEXTURES")
    /\ sm' = [sm EXCEPT !.texture = "MAIN_THREAD", !.needsTextures = FALSE]
    /\ Assert("textureEvent", "textures" \in events)
    /\ Signal("textures")
    /\ UNCHANGED <<requested, deadline, poll, stage, surface, uploading, implQueue, mainVars, mainQueue>>

UpdateVisibleTiles ==
    /\ Round("UPDATE_VISIBLE_TILES")
    /\ \E initialized \in BOOLEAN :
         sm' = [sm EXCEPT !.updatedTiles = TRUE, !.needsRedraw = @ \/ initialized]
    /\ UNCHANGED <<requested, deadline, poll, stage, surface, proxyVars, implQueue, mainVars,
                   signalled, mainQueue, failed>>

\* DidActivatePendingTree releases a commit that was held for the activation.
ActivatePendingTree ==
    /\ Round("ACTIVATE_PENDING_TREE")
    /\ \E canDraw \in {sm.canDraw, surface.renderer} :
         sm' = [UpdateStateOnActivation(sm) EXCEPT !.canDraw = canDraw]
    /\ events' = events \ {"held"}
    /\ signalled' = IF "held" \in events THEN signalled \cup {"commit"} ELSE signalled
    /\ UNCHANGED <<requested, deadline, poll, stage, surface, uploading, implQueue, mainVars,
                   mainQueue, failed>>

\* With impl-side painting the tree may be ready at once; the main thread may
\* have asked to be held until it is active.
Commit ==
    /\ Round("COMMIT")
    /\ Assert("commit", /\ "commit" \in events /\ uploading
                        /\ CommitAllowed(sm))
    /\ \E ready \in {FALSE, "impl_side_painting" \in sm.settings} :
         sm' = [UpdateStateOnCommit(sm, FALSE) EXCEPT !.readyToActivate = ready]
    /\ uploading' = FALSE
    /\ IF "impl_side_painting" \in sm.settings /\ main.waitsForActivation
       THEN /\ events' = (events \ {"commit"}) \cup {"held"}
            /\ UNCHANGED signalled
       ELSE Signal("commit")
    /\ main' = [main EXCEPT !.waitsForActivation = FALSE]
    /\ UNCHANGED <<requested, deadline, poll, stage, surface, implQueue, pc, mainQueue>>

\* Fault: the deadline of the frame is not cancelled.
LoseKeepingDeadline(s) ==
    /\ sm' = s
    /\ requested' = FALSE
    /\ UNCHANGED deadline

\* Scheduler::DidLoseOutputSurface.
Lose(s) ==
    /\ sm' = s
    /\ requested' = FALSE
    /\ deadline' = FALSE

\* What drawing asserts, but for the tree of a readback: see ReadbackNeverShown.
DrawAsserted ==
    Assert("draw", /\ surface.renderer
                   /\ \A x \in {sm.readback = "DRAW_AND_READBACK", sm.forced = "DRAW"} :
                        x => sm.commit = "WAITING_FOR_FIRST_DRAW"
                   /\ sm.readback = "DRAW_AND_READBACK" => ~sm.pendingTree)

\* A draw that is possible may still fail, swap, be incomplete, or find the
\* context lost.
DrawAndSwapIfPossible ==
    /\ Round("DRAW_AND_SWAP_IF_POSSIBLE")
    /\ DrawAsserted
    /\ \E drawn, swapped, incomplete, lost \in BOOLEAN :
         LET s1 == UpdateStateOnDraw(sm, TRUE)
             s2 == IF swapped THEN [s1 EXCEPT !.incompleteTile = incomplete] ELSE s1
             s3 == IF lost THEN DidLoseOutputSurface(s2) ELSE s2
             s4 == DidDrawIfPossibleCompleted(s3, drawn)
         IN  /\ (swapped \/ lost) => drawn
             /\ incomplete => swapped
             /\ IF lost THEN Lose(s4) ELSE sm' = s4 /\ UNCHANGED <<requested, deadline>>
    /\ UNCHANGED <<poll, stage, surface, proxyVars, implQueue, mainVars, signalled, mainQueue>>

DrawAndSwapForced ==
    /\ Round("DRAW_AND_SWAP_FORCED")
    /\ DrawAsserted
    /\ \E swapped, incomplete, lost \in BOOLEAN :
         LET s1 == UpdateStateOnDraw(sm, TRUE)
             s2 == IF swapped THEN [s1 EXCEPT !.incompleteTile = incomplete] ELSE s1
         IN  /\ incomplete => swapped
             /\ IF lost THEN Lose(DidLoseOutputSurface(s2))
                ELSE sm' = s2 /\ UNCHANGED <<requested, deadline>>
    /\ UNCHANGED <<poll, stage, surface, proxyVars, implQueue, mainVars, signalled, mainQueue>>

DrawAndSwapAbort ==
    /\ Round("DRAW_AND_SWAP_ABORT")
    /\ Assert("draw", sm.forced = "DRAW" => sm.commit = "WAITING_FOR_FIRST_DRAW")
    /\ sm' = UpdateStateOnDraw(sm, FALSE)
    /\ UNCHANGED <<requested, deadline, poll, stage, surface, proxyVars, implQueue, mainVars,
                   signalled, mainQueue>>

DrawAndReadback ==
    /\ Round("DRAW_AND_READBACK")
    /\ DrawAsserted
    /\ \E lost \in BOOLEAN :
         IF lost /\ sm.canDraw THEN Lose(DidLoseOutputSurface(UpdateStateOnDraw(sm, FALSE)))
         ELSE sm' = UpdateStateOnDraw(sm, FALSE) /\ UNCHANGED <<requested, deadline>>
    /\ Signal("readback")
    /\ UNCHANGED <<poll, stage, surface, uploading, implQueue, mainVars, mainQueue>>

ManageTiles ==
    /\ Round("MANAGE_TILES")
    /\ sm' = [sm EXCEPT !.needsManageTiles = FALSE]
    /\ UNCHANGED <<requested, deadline, poll, stage, surface, proxyVars, implQueue, mainVars,
                   signalled, mainQueue, failed>>

SendBeginMainFrame ==
    /\ Round("SEND_BEGIN_MAIN_FRAME")
    /\ Assert("send", ~sm.pendingTree /\ (sm.visible \/ sm.readback = "NEEDS_BEGIN_MAIN_FRAME"))
    /\ sm' = OnSendBeginMainFrame(sm)
    /\ mainQueue' = Append(mainQueue, "BeginMainFrame")
    /\ Signal("sent")
    /\ UNCHANGED <<requested, deadline, poll, stage, surface, uploading, implQueue, mainVars>>

BeginOutputSurfaceCreation ==
    /\ Round("BEGIN_OUTPUT_SURFACE_CREATION")
    /\ sm' = [sm EXCEPT !.outputSurface = "CREATING"]
    /\ mainQueue' = Append(mainQueue, "CreateAndInitializeOutputSurface")
    /\ Assert("creation", sm.commit = "IDLE" /\ ~sm.pendingTree /\ ~sm.needsFirstDraw)
    /\ UNCHANGED <<requested, deadline, poll, stage, surface, proxyVars, implQueue, mainVars,
                   signalled>>

\* Fault: the next frame is asked for only if none was wanted before.
AskWhenFirstNeeded(needed) == needed /\ ~requested

ShouldCallSetNeedsBeginImplFrame(needed) ==
    (needed /\ ~requested) \/ sm.frame = "INSIDE_DEADLINE"

\* A poll that runs is cancelled at its end, whatever the loop asked for.
SetupNextBeginImplFrameIfNeeded ==
    LET needed == BeginImplFrameNeeded(sm)
        call == ShouldCallSetNeedsBeginImplFrame(needed)
    IN  /\ requested' = IF call THEN needed ELSE requested
        /\ surface' = IF call /\ surface.renderer
                      THEN [surface EXCEPT !.needs = needed, !.ready = TRUE, !.ticking = needed]
                      ELSE surface
        /\ poll' = (ShouldPollForAnticipatedDrawTriggers(sm) /\ stage # "poll")

\* What the caller of ProcessScheduledActions does when the loop is over: a new
\* frame gets its deadline, at a deadline the frame ends, and a call the main
\* thread waits for is answered.
EndOfLoop ==
    LET starts == stage = "starting" /\ HasInitializedOutputSurface(sm)
        ends == stage = "deadline" /\ HasInitializedOutputSurface(sm)
        sent == stage = "readback" /\ CommitPending(sm)
        synchronous == "using_synchronous_renderer_compositor" \in sm.settings
    IN
    /\ Round("NONE")
    /\ SetupNextBeginImplFrameIfNeeded
    /\ Assert("frame", (starts => sm.frame = "STARTING") /\ (ends => sm.frame = "INSIDE_DEADLINE"))
    /\ sm' = CASE starts -> [sm EXCEPT !.frame = IF synchronous THEN "INSIDE_DEADLINE"
                                                ELSE "INSIDE_BEGIN_FRAME"]
               [] ends -> [sm EXCEPT !.frame = "IDLE"]
               [] OTHER -> [sm EXCEPT !.polling = @ /\ stage # "poll"]
    /\ stage' = IF starts /\ synchronous THEN "deadline" ELSE "idle"
    /\ deadline' = IF starts THEN ~synchronous
                   ELSE deadline \/ ShouldTriggerBeginImplFrameDeadlineEarly(sm)
    /\ signalled' = signalled \cup {e \in {"visible", "init"} : e = stage}
                              \cup {e \in {"sent"} : sent}
    /\ events' = IF stage = "readback" /\ ~sent THEN events \cup {"sent"} ELSE events
    /\ UNCHANGED <<uploading, implQueue, mainVars, mainQueue>>

-----------------------------------------------------------------------------
(* ThreadProxy: tasks of the impl thread *)

Task(task) ==
    /\ failed = {}
    /\ stage = "idle"
    /\ implQueue # <<>> /\ Head(implQueue) = task
    /\ implQueue' = Tail(implQueue)

SetCanStart ==
    /\ Task("SetCanStart")
    /\ sm' = [sm EXCEPT !.canStart = TRUE]
    /\ Process("none")
    /\ UNCHANGED <<requested, deadline, poll, surface, proxyVars, mainVars, signalled, mainQueue, failed>>

SetNeedsCommitOnImplThread ==
    /\ Task("SetNeedsCommit")
    /\ sm' = [sm EXCEPT !.needsCommit = TRUE]
    /\ Process("none")
    /\ UNCHANGED <<requested, deadline, poll, surface, proxyVars, mainVars, signalled, mainQueue, failed>>

SetVisibleOnImplThread(visible) ==
    /\ Task(IF visible THEN "Show" ELSE "Hide")
    /\ sm' = [sm EXCEPT !.visible = visible]
    /\ Process("visible")
    /\ UNCHANGED <<requested, deadline, poll, surface, proxyVars, mainVars, signalled, mainQueue, failed>>

ForceCommitForReadbackOnImplThread ==
    /\ Task("ForceCommitForReadback")
    /\ Assert("readback", /\ {"sent", "readback"} \cap events = {}
                          /\ sm.readback \in {"IDLE", "REPLACEMENT_COMMIT"})
    /\ sm' = SetNeedsForcedCommitForReadback([sm EXCEPT !.needsCommit = TRUE])
    /\ events' = events \cup {"readback"}
    /\ Process("readback")
    /\ UNCHANGED <<requested, deadline, poll, surface, uploading, mainVars, signalled, mainQueue>>

\* Without impl-side painting, evicted textures call for another commit. The code runs
\* the loop for that request first and then keeps the event and the controller, of
\* which the loop uses neither: there is no commit before the uploads.
StartCommitOnImplThread ==
    /\ Task("StartCommit")
    /\ Assert("start", "commit" \notin events /\ CommitPending(sm))
    /\ events' = events \cup {"commit"}
    /\ uploading' = TRUE
    /\ \E evicted \in {FALSE, "impl_side_painting" \notin sm.settings} :
         /\ sm' = [sm EXCEPT !.needsCommit = @ \/ evicted]
         /\ IF evicted THEN Process("none") ELSE UNCHANGED stage
    /\ UNCHANGED <<requested, deadline, poll, surface, mainVars, signalled, mainQueue>>

BeginMainFrameAbortedOnImplThread(didHandle) ==
    /\ Task(IF didHandle THEN "AbortHandled" ELSE "AbortUnhandled")
    /\ Assert("abort", /\ sm.commit = "FRAME_IN_PROGRESS"
                       /\ ~sm.pendingTree
                       /\ IF didHandle THEN CommitAllowed(sm) ELSE sm.readback # "COMMIT")
    /\ sm' = BeginMainFrameAborted(sm, didHandle)
    /\ Process("none")
    /\ UNCHANGED <<requested, deadline, poll, surface, proxyVars, mainVars, signalled, mainQueue>>

AcquireLayerTexturesForMainThreadOnImplThread ==
    /\ Task("AcquireLayerTextures")
    /\ Assert("textures", /\ "textures" \notin events
                          /\ ~sm.needsTextures
                          /\ sm.texture # "MAIN_THREAD")
    /\ events' = events \cup {"textures"}
    /\ sm' = [sm EXCEPT !.needsTextures = TRUE]
    /\ Process("none")
    /\ UNCHANGED <<requested, deadline, poll, surface, uploading, mainVars, signalled, mainQueue>>

HasInitializedOutputSurfaceOnImplThread ==
    /\ Task("HasInitializedOutputSurface")
    /\ main' = [main EXCEPT !.reply = HasInitializedOutputSurface(sm)]
    /\ signalled' = signalled \cup {"has"}
    /\ UNCHANGED <<schedulerVars, proxyVars, pc, mainQueue, failed>>

\* The old renderer and its surface are destroyed first.
InitializeOutputSurfaceOnImplThread ==
    /\ Task("InitializeOutputSurface")
    /\ \E success, canDraw \in BOOLEAN :
         /\ canDraw => success
         /\ main' = [main EXCEPT !.reply = success]
         /\ surface' = [needs |-> FALSE, ready |-> TRUE, ticking |-> FALSE, renderer |-> success]
         /\ IF success
            THEN /\ Assert("create", sm.outputSurface = "CREATING" /\ ~requested /\ ~deadline)
                 /\ sm' = [DidCreateAndInitializeOutputSurface(sm) EXCEPT !.canDraw = canDraw]
                 /\ Process("init")
                 /\ UNCHANGED signalled
            ELSE /\ signalled' = signalled \cup {"init"}
                 /\ UNCHANGED <<sm, stage, failed>>
    /\ UNCHANGED <<requested, deadline, poll, proxyVars, pc, mainQueue>>

-----------------------------------------------------------------------------
(* Timers and callbacks of the impl thread *)

ImplIdle == failed = {} /\ stage = "idle"

\* ResourceUpdateController::OnTimerFired, when all is uploaded.
ReadyToFinalizeTextureUpdates ==
    /\ ImplIdle
    /\ uploading
    /\ Assert("finish", sm.commit = "FRAME_IN_PROGRESS")
    /\ sm' = [sm EXCEPT !.commit = "READY_TO_COMMIT"]
    /\ Process("none")
    /\ UNCHANGED <<requested, deadline, poll, surface, proxyVars, implQueue, mainVars, signalled, mainQueue>>

\* OutputSurface::BeginImplFrame, by the timer or by the browser.
BeginImplFrame ==
    /\ ImplIdle
    /\ surface.needs /\ surface.ready
    /\ surface.ticking \/ "BeginImplFrame" \in main.calls
    /\ Assert("begin", sm.frame = "IDLE" /\ HasInitializedOutputSurface(sm))
    /\ surface' = [surface EXCEPT !.ready = FALSE]
    /\ sm' = OnBeginImplFrame(sm)
    /\ Process("starting")
    /\ UNCHANGED <<requested, deadline, poll, proxyVars, implQueue, mainVars, signalled, mainQueue>>

OnBeginImplFrameDeadline ==
    /\ ImplIdle
    /\ deadline
    /\ Assert("deadline", HasInitializedOutputSurface(sm) /\ sm.frame = "INSIDE_BEGIN_FRAME")
    /\ deadline' = FALSE
    /\ sm' = [sm EXCEPT !.frame = "INSIDE_DEADLINE"]
    /\ Process("deadline")
    /\ UNCHANGED <<requested, poll, surface, proxyVars, implQueue, mainVars, signalled, mainQueue>>

PollForAnticipatedDrawTriggers ==
    /\ ImplIdle
    /\ poll
    /\ sm' = [NewFrame(sm) EXCEPT !.polling = TRUE]
    /\ Process("poll")
    /\ UNCHANGED <<requested, deadline, poll, surface, proxyVars, implQueue, mainVars, signalled,
                   mainQueue, failed>>

\* The context is lost: the surface is told, then the scheduler.
DidLoseOutputSurfaceOnImplThread ==
    /\ ImplIdle
    /\ surface.renderer
    /\ HasInitializedOutputSurface(sm) \/ surface.ticking
    /\ surface' = [surface EXCEPT !.ready = TRUE, !.ticking = FALSE]
    /\ Lose(DidLoseOutputSurface(sm))
    /\ Process("none")
    /\ UNCHANGED <<poll, proxyVars, implQueue, mainVars, signalled, mainQueue, failed>>

\* What LayerTreeHostImpl tells its client, from a task or inside an action.
Told(call) ==
    CASE call = "SetNeedsRedrawOnImplThread" -> [sm EXCEPT !.needsRedraw = TRUE]
      [] call = "SetNeedsCommitOnImplThread" -> [sm EXCEPT !.needsCommit = TRUE]
      [] call = "SetNeedsManageTilesOnImplThread" -> [sm EXCEPT !.needsManageTiles = TRUE]
      [] call = "NotifyReadyToActivate" -> [sm EXCEPT !.readyToActivate = @ \/ sm.pendingTree]
      [] call = "CanDraw" -> [sm EXCEPT !.canDraw = surface.renderer]
      [] call = "CannotDraw" -> [sm EXCEPT !.canDraw = FALSE]
      [] call = "SmoothnessTakesPriority" -> [sm EXCEPT !.smoothness = TRUE]
      [] call = "SamePriority" -> [sm EXCEPT !.smoothness = FALSE]

ClientCall(call) ==
    /\ failed = {}
    /\ call \in main.calls
    /\ sm' = Told(call) /\ sm' # sm
    /\ Process("none")
    /\ UNCHANGED <<requested, deadline, poll, surface, proxyVars, implQueue, mainVars, signalled,
                   mainQueue, failed>>

-----------------------------------------------------------------------------
(* Main thread *)

Call(call) == failed = {} /\ pc = "idle" /\ call \in main.calls

MainTask(task) ==
    /\ failed = {}
    /\ pc = "idle"
    /\ mainQueue # <<>> /\ Head(mainQueue) = task
    /\ mainQueue' = Tail(mainQueue)

\* The wait for `event' is over.
Resume(event) ==
    /\ failed = {}
    /\ pc = event /\ event \in signalled
    /\ signalled' = signalled \ {event}

\* The main thread posts `tasks' and goes to `next', as m.
Post(tasks, next, m) ==
    /\ implQueue' = implQueue \o tasks
    /\ pc' = next
    /\ main' = m

\* SendCommitRequestToImplThreadIfNeeded.
CommitRequest(m) == IF m.requestSent THEN <<>> ELSE <<"SetNeedsCommit">>

SetNeedsCommit ==
    LET m == [main EXCEPT !.canCancel = FALSE] IN
    /\ Call("SetNeedsCommit")
    /\ IF main.commitRequested THEN Post(<<>>, "idle", m)
       ELSE Post(CommitRequest(m), "idle", [m EXCEPT !.commitRequested = TRUE, !.requestSent = TRUE])
    /\ UNCHANGED <<schedulerVars, proxyVars, signalled, mainQueue, failed>>

SetNeedsAnimate ==
    /\ Call("SetNeedsAnimate")
    /\ ~main.animateRequested
    /\ Post(CommitRequest(main), "idle",
            [main EXCEPT !.animateRequested = TRUE, !.canCancel = FALSE, !.requestSent = TRUE])
    /\ UNCHANGED <<schedulerVars, proxyVars, signalled, mainQueue, failed>>

SetNeedsUpdateLayers ==
    /\ Call("SetNeedsUpdateLayers")
    /\ ~main.requestSent
    /\ Post(CommitRequest(main), "idle", [main EXCEPT !.requestSent = TRUE])
    /\ UNCHANGED <<schedulerVars, proxyVars, signalled, mainQueue, failed>>

SetVisible ==
    /\ Call("SetVisible")
    /\ Post(<<IF main.visible THEN "Hide" ELSE "Show">>, "visible",
            [main EXCEPT !.visible = ~@])
    /\ UNCHANGED <<schedulerVars, proxyVars, signalled, mainQueue, failed>>

SetVisibleReturns ==
    /\ Resume("visible")
    /\ Post(<<>>, "idle", main)
    /\ UNCHANGED <<schedulerVars, proxyVars, mainQueue, failed>>

AcquireLayerTextures ==
    /\ Call("AcquireLayerTextures")
    /\ ~main.texturesAcquired
    /\ Post(<<"AcquireLayerTextures">>, "textures", main)
    /\ UNCHANGED <<schedulerVars, proxyVars, signalled, mainQueue, failed>>

AcquireLayerTexturesReturns ==
    /\ Resume("textures")
    /\ Post(<<>>, "idle", [main EXCEPT !.texturesAcquired = TRUE, !.canCancel = FALSE])
    /\ UNCHANGED <<schedulerVars, proxyVars, mainQueue, failed>>

SetNextCommitWaitsForActivation ==
    /\ Call("SetNextCommitWaitsForActivation")
    /\ Post(<<>>, "idle", [main EXCEPT !.waitsForActivation = TRUE])
    /\ UNCHANGED <<schedulerVars, proxyVars, signalled, mainQueue, failed>>

\* A deferred BeginMainFrame is posted again.
SetDeferCommits ==
    /\ Call("SetDeferCommits")
    /\ Post(<<>>, "idle", [main EXCEPT !.deferCommits = ~@, !.deferred = FALSE])
    /\ mainQueue' = IF main.deferCommits /\ main.deferred THEN Append(mainQueue, "BeginMainFrame")
                                                          ELSE mainQueue
    /\ UNCHANGED <<schedulerVars, proxyVars, signalled, failed>>

\* Fault: an animation asked for while the frame is painted is not sent on.
ResendCommitsOnly(again, animate, aborts) == again

\* A request of UpdateLayers is for the next commit; so is an animation asked
\* for while the flags said that a request had been sent.
Resend(again, animate, aborts) == again \/ (animate /\ ~aborts)

Painted(m, again, animate, resend) ==
    [m EXCEPT !.commitRequested = again, !.requestSent = resend, !.animateRequested = animate,
              !.canCancel = ~resend, !.texturesAcquired = FALSE]

\* The part of BeginMainFrame that paints and commits. The embedder may ask for
\* an animation or a commit while it is called back. A commit of a readback is
\* never cancelled.
Paint ==
    \E animate, commit, again, updated \in BOOLEAN :
      LET canCancel == main.canCancel /\ ~animate /\ ~commit /\ ~main.inReadback
          aborts == ~updated /\ canCancel
          resend == Resend(again, animate, aborts)
      IN  /\ Assert("update", ~main.surfaceLost)
          /\ Post((IF resend THEN <<"SetNeedsCommit">> ELSE <<>>)
                    \o <<IF aborts THEN "AbortHandled" ELSE "StartCommit">>,
                  IF aborts THEN "idle" ELSE "commit",
                  Painted(main, again, animate, resend))

BeginMainFrame ==
    /\ MainTask("BeginMainFrame")
    /\ CASE main.deferCommits ->
              /\ Post(<<>>, "idle", [main EXCEPT !.deferred = TRUE])
              /\ UNCHANGED failed
         [] ~main.deferCommits /\ ~main.visible ->
              /\ Post(<<"AbortUnhandled">>, "idle",
                      [main EXCEPT !.commitRequested = FALSE, !.requestSent = FALSE,
                                   !.animateRequested = FALSE])
              /\ UNCHANGED failed
         [] OTHER -> Paint
    /\ UNCHANGED <<schedulerVars, proxyVars, signalled>>

\* A readback goes on to wait for its pixels, and the commit that follows it may
\* not be cancelled.
BeginMainFrameReturns ==
    /\ Resume("commit")
    /\ IF main.inReadback
       THEN Post(<<>>, "readback", [main EXCEPT !.canCancel = FALSE])
       ELSE Post(<<>>, "idle", main)
    /\ UNCHANGED <<schedulerVars, proxyVars, mainQueue, failed>>

-----------------------------------------------------------------------------
(* Main thread: readback and the output surface *)

CompositeAndReadback ==
    /\ Call("CompositeAndReadback")
    /\ ~main.deferCommits
    /\ main.canBeInitialized
    /\ IF main.surfaceLost
       THEN Post(<<"HasInitializedOutputSurface">>, "has", [main EXCEPT !.inReadback = TRUE])
       ELSE Post(<<"ForceCommitForReadback">>, "sent", [main EXCEPT !.inReadback = TRUE])
    /\ UNCHANGED <<schedulerVars, proxyVars, signalled, mainQueue, failed>>

\* The BeginMainFrame of the readback is called, not posted.
BeginMainFrameSent ==
    /\ Resume("sent")
    /\ Paint
    /\ UNCHANGED <<schedulerVars, proxyVars, mainQueue>>

CompositeAndReadbackReturns ==
    /\ Resume("readback")
    /\ Post(<<>>, "idle", [main EXCEPT !.inReadback = FALSE])
    /\ UNCHANGED <<schedulerVars, proxyVars, mainQueue, failed>>

\* What called CreateAndInitializeOutputSurface goes on: the message loop, or a
\* readback that needs the surface. `tasks' were posted by it.
SurfaceReturns(tasks, m) ==
    IF m.inReadback /\ ~m.surfaceLost
    THEN Post(tasks \o <<"ForceCommitForReadback">>, "sent", m)
    ELSE Post(tasks, "idle", [m EXCEPT !.inReadback = FALSE])

Retries == {i \in DOMAIN mainQueue : mainQueue[i] = "Retry"}

\* Resetting the callback cancels the retry that was posted, if one was.
WithoutRetry ==
    IF Retries = {} THEN mainQueue
    ELSE LET i == CHOOSE j \in Retries : TRUE
         IN  SubSeq(mainQueue, 1, i - 1) \o SubSeq(mainQueue, i + 1, Len(mainQueue))

\* OnOutputSurfaceInitializeAttempted, of an attempt that failed.
Fails(tasks, m) ==
    LET gaveUp == m.attempts + 1 >= MaxRecreate IN
    /\ SurfaceReturns(tasks, [m EXCEPT !.attempts = IF gaveUp THEN MaxRecreate ELSE @ + 1,
                                       !.canBeInitialized = @ /\ ~gaveUp])
    /\ mainQueue' = IF gaveUp THEN WithoutRetry ELSE Append(WithoutRetry, "Retry")

\* DoCreateAndInitializeOutputSurface: the embedder may have none.
DoCreate(tasks, m) ==
    \/ Post(tasks \o <<"InitializeOutputSurface">>, "init", m) /\ mainQueue' = WithoutRetry
    \/ Fails(tasks, m)

CreateAndInitializeOutputSurface ==
    /\ MainTask("CreateAndInitializeOutputSurface")
    /\ Post(<<"HasInitializedOutputSurface">>, "has", main)
    /\ UNCHANGED <<schedulerVars, proxyVars, signalled, failed>>

\* LayerTreeHost::DidLoseOutputSurface, if it did not know.
HasInitializedReturns ==
    LET newlyLost == ~main.surfaceLost
        ask == IF newlyLost /\ ~main.commitRequested THEN CommitRequest(main) ELSE <<>>
        lost == IF newlyLost
                THEN [main EXCEPT !.surfaceLost = TRUE, !.attempts = 0, !.canCancel = FALSE,
                                  !.commitRequested = TRUE,
                                  !.requestSent = @ \/ ~main.commitRequested]
                ELSE main
    IN  /\ Resume("has")
        /\ IF main.reply THEN SurfaceReturns(<<>>, main) /\ UNCHANGED mainQueue
                         ELSE DoCreate(ask, lost)
        /\ UNCHANGED <<schedulerVars, proxyVars, failed>>

Retry ==
    /\ failed = {} /\ pc = "idle"
    /\ mainQueue # <<>> /\ Head(mainQueue) = "Retry"
    /\ DoCreate(<<>>, main)
    /\ UNCHANGED <<schedulerVars, proxyVars, signalled, failed>>

InitializeReturns ==
    /\ Resume("init")
    /\ Assert("attempted", main.surfaceLost)
    /\ IF main.reply
       THEN SurfaceReturns(<<>>, [main EXCEPT !.surfaceLost = FALSE]) /\ mainQueue' = WithoutRetry
       ELSE Fails(<<>>, main)
    /\ UNCHANGED <<schedulerVars, proxyVars>>

-----------------------------------------------------------------------------

Loop == \/ AcquireLayerTexturesForMainThread \/ UpdateVisibleTiles \/ ActivatePendingTree
        \/ Commit \/ DrawAndSwapIfPossible \/ DrawAndSwapForced \/ DrawAndSwapAbort
        \/ DrawAndReadback \/ ManageTiles \/ SendBeginMainFrame \/ BeginOutputSurfaceCreation
        \/ EndOfLoop

ImplTask == \/ SetCanStart \/ SetNeedsCommitOnImplThread
            \/ \E visible \in BOOLEAN : SetVisibleOnImplThread(visible)
            \/ ForceCommitForReadbackOnImplThread \/ StartCommitOnImplThread
            \/ \E didHandle \in BOOLEAN : BeginMainFrameAbortedOnImplThread(didHandle)
            \/ AcquireLayerTexturesForMainThreadOnImplThread
            \/ HasInitializedOutputSurfaceOnImplThread \/ InitializeOutputSurfaceOnImplThread

ImplTimer == \/ ReadyToFinalizeTextureUpdates \/ BeginImplFrame \/ OnBeginImplFrameDeadline
             \/ PollForAnticipatedDrawTriggers

MainReturns == \/ SetVisibleReturns \/ AcquireLayerTexturesReturns \/ BeginMainFrameReturns
               \/ BeginMainFrameSent \/ CompositeAndReadbackReturns \/ HasInitializedReturns
               \/ InitializeReturns

MainRuns == BeginMainFrame \/ CreateAndInitializeOutputSurface \/ Retry

Embedder == \/ SetNeedsCommit \/ SetNeedsAnimate \/ SetNeedsUpdateLayers \/ SetVisible
            \/ AcquireLayerTextures \/ SetNextCommitWaitsForActivation \/ SetDeferCommits
            \/ CompositeAndReadback

Next == \/ Loop \/ ImplTask \/ ImplTimer \/ MainReturns \/ MainRuns \/ Embedder
        \/ DidLoseOutputSurfaceOnImplThread
        \/ \E call \in ClientCalls : ClientCall(call)

Spec == Init /\ [][Next]_vars

-----------------------------------------------------------------------------
(* Properties *)

MainState ==
    [calls : SUBSET Calls, commitRequested : BOOLEAN, requestSent : BOOLEAN,
     animateRequested : BOOLEAN, canCancel : BOOLEAN, texturesAcquired : BOOLEAN,
     deferCommits : BOOLEAN, deferred : BOOLEAN, visible : BOOLEAN, surfaceLost : BOOLEAN,
     canBeInitialized : BOOLEAN, attempts : 0..MaxRecreate, inReadback : BOOLEAN,
     waitsForActivation : BOOLEAN, reply : BOOLEAN]

\* Types of the state of both threads.
TypeOK ==
    /\ sm \in State
    /\ {requested, deadline, poll, uploading} \subseteq BOOLEAN
    /\ stage \in Stages
    /\ surface \in [needs : BOOLEAN, ready : BOOLEAN, ticking : BOOLEAN, renderer : BOOLEAN]
    /\ events \subseteq Events
    /\ implQueue \in Seq(ImplTasks)
    /\ main \in MainState
    /\ pc \in PCs
    /\ signalled \subseteq Completions
    /\ mainQueue \in Seq(MainTasks)

\* The assertions the model has on the order of the pipeline hold: a frame is asked
\* for, painted, uploaded, committed, activated and drawn in this order, each stage in
\* the state the one before left, whatever is lost, hidden or read back in between.
PipelineAssertionsHold ==
    failed \cap {"textureEvent", "commit", "draw", "send", "creation", "frame", "start", "abort",
                 "textures", "finish", "deadline", "attempted"} = {}

\* SchedulerStateMachine::CheckInvariants, in every round of the loop.
CheckInvariants ==
    stage # "idle" => ~(sm.forced = "DRAW" /\ sm.readback = "DRAW_AND_READBACK")

\* Main and impl thread never both own the layer textures.
TexturesExclusive == ~(main.texturesAcquired /\ sm.texture = "IMPL_THREAD")

\* The threads agree on where the frame is, and on whose the textures are.
PipelineConsistent == PipelineAssertionsHold /\ CheckInvariants /\ TexturesExclusive

PostedMainFrames == {i \in DOMAIN mainQueue : mainQueue[i] = "BeginMainFrame"}

\* A BeginMainFrame is with the main thread: posted to it, or put off by it.
MainFrameOut == PostedMainFrames # {} \/ main.deferred

OneMainFrame ==
    /\ \A i, j \in PostedMainFrames : i = j
    /\ main.deferred => PostedMainFrames = {}

Queued(tasks) == \E i \in DOMAIN implQueue : implQueue[i] \in tasks

\* The impl thread waits for a commit exactly when one is on its way: at most one
\* BeginMainFrame is with the main thread, it is accounted for (the one behind a
\* readback too), and if it is not there then its answer is.
MainFrameAccounted ==
    failed = {} =>
      /\ OneMainFrame
      /\ MainFrameOut =>
            sm.commit = "FRAME_IN_PROGRESS" \/ sm.readback \in {"COMMIT", "ACTIVATION", "DRAW_AND_READBACK"}
      /\ sm.commit = "FRAME_IN_PROGRESS" =>
            \/ MainFrameOut
            \/ Queued({"StartCommit", "AbortHandled", "AbortUnhandled"})
            \/ uploading

\* What the embedder asked for (SetNeedsAnimate during a BeginMainFrame too) and
\* the main thread counts as sent is known to the impl thread, or the
\* BeginMainFrame that answers it is on its way.
RequestNotLost ==
    /\ failed = {}
    /\ main.commitRequested \/ main.animateRequested \/ main.requestSent
    => sm.needsCommit \/ Queued({"SetNeedsCommit"}) \/ MainFrameOut

\* Nothing is swapped to the screen while the main thread owns the textures.
NoSwapWithoutTextures ==
    [][sm.texture = "MAIN_THREAD" /\ ~sm.swapped => ~sm'.swapped]_vars

\* Another readback has been asked for, and its own tree is not active yet.
ReadsBackAgain(s) == s.readback \in {"NEEDS_BEGIN_MAIN_FRAME", "COMMIT", "ACTIVATION"}

\* A tree that was committed to be read back is not swapped to the screen while it is
\* the active one, be it read, replaced or hidden meanwhile, unless another readback
\* has been asked for in between: ReadbackTreeNeverShown says what happens then.
ReadbackNeverShown ==
    [][sm.readbackTree /\ ~ReadsBackAgain(sm) /\ ~sm.swapped => ~sm'.swapped]_vars

\* The screen never shows a tree whose textures the main thread has, nor one that was
\* committed only to be read back (but between two readbacks).
NothingForbiddenShown == NoSwapWithoutTextures /\ ReadbackNeverShown

\* No stall: a frame that is needed is asked for at a surface that will send it,
\* and a frame that has begun has a deadline.
FramesKeepComing ==
    failed = {} /\ stage = "idle" =>
      /\ BeginImplFrameNeeded(sm) => requested
      /\ requested /\ sm.frame = "IDLE" => surface.needs /\ surface.ready /\ surface.ticking
      /\ sm.frame # "IDLE" => sm.frame = "INSIDE_BEGIN_FRAME" /\ deadline

\* Tiles that are to be managed will be: a frame is on its way or, where frames are
\* only asked for to draw, a poll is.
TilesManaged ==
    /\ failed = {} /\ stage = "idle"
    /\ sm.needsManageTiles /\ sm.visible /\ HasInitializedOutputSurface(sm)
    => requested \/ poll

\* The scheduler never comes to rest with work to do and nothing to wake it.
NeverStalls == FramesKeepComing /\ TilesManaged

-----------------------------------------------------------------------------
(* Fairness: message loops run their tasks in order and timers fire; the tile *)
(* manager finishes the tiles a pending tree waits for.                       *)

Fairness ==
    /\ WF_vars(Loop)
    /\ SF_vars(ImplTask \/ ReadyToFinalizeTextureUpdates)
    /\ SF_vars(BeginImplFrame \/ OnBeginImplFrameDeadline)
    /\ SF_vars(PollForAnticipatedDrawTriggers)
    /\ WF_vars(ClientCall("NotifyReadyToActivate"))
    /\ WF_vars(MainReturns)
    /\ SF_vars(MainRuns)

FairSpec == Spec /\ Fairness

\* Every call that blocks the main thread returns, AcquireLayerTextures excepted:
\* see TexturesAreAcquired.
MainThreadUnblocked == pc \notin {"idle", "textures"} ~> pc = "idle" \/ failed # {}

\* A commit the embedder asked for begins, while the layers are visible, commits are
\* not deferred and an output surface can be had.
CommitBegins ==
    main.commitRequested ~> \/ ~main.commitRequested \/ pc = "commit" \/ Queued({"AbortHandled"})
                            \/ ~main.visible \/ main.deferCommits \/ main.surfaceLost \/ failed # {}

-----------------------------------------------------------------------------
(* What the code says and need not hold *)

\* ThreadProxy::AcquireLayerTextures "will block until the next compositor draw if
\* there is a previously committed frame that is still undrawn".
TexturesAreAcquired == pc = "textures" ~> pc = "idle" \/ failed # {}

\* What ShouldDraw is meant to ensure: "After a readback, make sure not to draw again
\* until we've replaced the readback commit with a real one". It looks at the readback
\* state only, and a back-to-back readback moves that on while the tree of the one
\* before is still active.
ReadbackTreeNeverShown ==
    [][sm.readbackTree /\ ~sm.swapped => ~sm'.swapped]_vars

\* LayerTreeHost::UpdateLayers: DCHECK(!output_surface_lost_).
SurfaceWhenPainting == "update" \notin failed

\* Scheduler::BeginImplFrame: DCHECK(state_machine_.HasInitializedOutputSurface()).
SurfaceWhenFrameBegins == "begin" \notin failed

\* DidCreateAndInitializeOutputSurface: DCHECK_EQ(output_surface_state_, CREATING).
CreatedWhenCreating == "create" \notin failed

\* SetNeedsForcedCommitForReadback: the readback state is IDLE or
\* WAITING_FOR_REPLACEMENT_COMMIT.
ReadbackWhenReady == "readback" \notin failed
=============================================================================
