------------------------ MODULE SchedulerStateMachine ------------------------
(****************************************************************************)
(* cc/scheduler/scheduler_state_machine.cc: what the compositor may do next *)
(* and what doing it changes, as operators on a state s, which is a record  *)
(* of the members of the class.                                             *)
(*                                                                          *)
(* The code remembers the frame number at which it last swapped, sent a     *)
(* BeginMainFrame or updated the visible tiles and compares it with the     *)
(* number of the current frame; here a flag says whether the two are equal, *)
(* and a new frame clears the flags.                                        *)
(****************************************************************************)
EXTENDS Naturals

CONSTANT MaxFailedDraws   \* maximum_number_of_failed_draws_before_draw_is_forced_

ASSUME MaxFailedDrawsAssumption == MaxFailedDraws \in Nat \ {0}

\* The SchedulerSettings that are switches; settings_ has those that are on.
Settings == {"impl_side_painting", "deadline_scheduling_enabled",
             "timeout_and_draw_when_animation_checkerboards",
             "using_synchronous_renderer_compositor", "throttle_frame_production"}

OutputSurfaceState == {"LOST", "CREATING", "FIRST_COMMIT", "FIRST_ACTIVATION", "ACTIVE"}
BeginImplFrameState == {"IDLE", "STARTING", "INSIDE_BEGIN_FRAME", "INSIDE_DEADLINE"}
CommitState == {"IDLE", "FRAME_IN_PROGRESS", "READY_TO_COMMIT", "WAITING_FOR_FIRST_DRAW"}
TextureState == {"UNLOCKED", "MAIN_THREAD", "IMPL_THREAD"}
ReadbackState == {"IDLE", "NEEDS_BEGIN_MAIN_FRAME", "COMMIT", "ACTIVATION",
                  "DRAW_AND_READBACK", "REPLACEMENT_COMMIT", "REPLACEMENT_ACTIVATION"}
ForcedRedrawState == {"IDLE", "COMMIT", "ACTIVATION", "DRAW"}

State == [settings : SUBSET Settings,
          outputSurface : OutputSurfaceState,
          frame : BeginImplFrameState,
          commit : CommitState,
          texture : TextureState,
          readback : ReadbackState,
          forced : ForcedRedrawState,
          swapped : BOOLEAN,              \* HasSwappedThisFrame
          sentMainFrame : BOOLEAN,        \* HasSentBeginMainFrameThisFrame
          updatedTiles : BOOLEAN,         \* HasUpdatedVisibleTilesThisFrame
          failedDraws : 0..MaxFailedDraws,
          needsRedraw : BOOLEAN,
          needsManageTiles : BOOLEAN,
          incompleteTile : BOOLEAN,       \* swap_used_incomplete_tile_
          needsCommit : BOOLEAN,
          needsTextures : BOOLEAN,        \* main_thread_needs_layer_textures_
          polling : BOOLEAN,              \* inside_poll_for_anticipated_draw_triggers_
          visible : BOOLEAN,
          canStart : BOOLEAN,
          canDraw : BOOLEAN,
          pendingTree : BOOLEAN,
          readyToActivate : BOOLEAN,
          needsFirstDraw : BOOLEAN,       \* active_tree_needs_first_draw_
          drawFailed : BOOLEAN,           \* draw_if_possible_failed_
          createdFirst : BOOLEAN,         \* did_create_and_initialize_first_output_surface_
          smoothness : BOOLEAN,
          readbackTree : BOOLEAN]         \* history: the active tree is that of a readback

InitialState(settings) ==
    [settings |-> settings,
     outputSurface |-> "LOST", frame |-> "IDLE", commit |-> "IDLE", texture |-> "UNLOCKED",
     readback |-> "IDLE", forced |-> "IDLE", swapped |-> FALSE, sentMainFrame |-> FALSE,
     updatedTiles |-> FALSE, failedDraws |-> 0, needsRedraw |-> FALSE,
     needsManageTiles |-> FALSE, incompleteTile |-> FALSE, needsCommit |-> FALSE,
     needsTextures |-> FALSE, polling |-> FALSE, visible |-> FALSE, canStart |-> FALSE,
     canDraw |-> FALSE, pendingTree |-> FALSE, readyToActivate |-> FALSE,
     needsFirstDraw |-> FALSE, drawFailed |-> FALSE, createdFirst |-> FALSE,
     smoothness |-> FALSE, readbackTree |-> FALSE]

-----------------------------------------------------------------------------
(* What may be done *)

HasInitializedOutputSurface(s) == s.outputSurface \notin {"LOST", "CREATING"}

CommitPending(s) == s.commit \in {"FRAME_IN_PROGRESS", "READY_TO_COMMIT"}

PendingActivationsShouldBeForced(s) ==
    s.texture = "MAIN_THREAD" \/ s.outputSurface = "LOST"

PendingDrawsShouldBeAborted(s) ==
    PendingActivationsShouldBeForced(s) \/ ~s.canDraw \/ ~s.visible

ShouldBeginOutputSurfaceCreation(s) ==
    /\ s.canStart
    /\ s.commit = "IDLE"
    /\ ~s.needsFirstDraw /\ ~s.pendingTree
    /\ s.outputSurface = "LOST"

AwaitsReplacement(s) == s.readback \in {"REPLACEMENT_COMMIT", "REPLACEMENT_ACTIVATION"}

\* Fault: the tree of a readback commit is not kept from the screen.
ShouldDrawReadbackTree(s) ==
    \/ s.readback = "DRAW_AND_READBACK"
    \/ IF PendingDrawsShouldBeAborted(s)
       THEN s.needsFirstDraw
       ELSE ~s.swapped /\ s.frame = "INSIDE_DEADLINE" /\ (s.forced = "DRAW" \/ s.needsRedraw)

ShouldDraw(s) ==
    /\ ~AwaitsReplacement(s)
    /\ \/ s.readback = "DRAW_AND_READBACK"
       \/ IF PendingDrawsShouldBeAborted(s)
          THEN s.needsFirstDraw
          ELSE ~s.swapped /\ s.frame = "INSIDE_DEADLINE" /\ (s.forced = "DRAW" \/ s.needsRedraw)

ShouldAcquireLayerTexturesForMainThread(s) == s.needsTextures /\ s.texture = "UNLOCKED"

ShouldActivatePendingTree(s) ==
    /\ s.pendingTree
    /\ ~s.needsFirstDraw
    /\ PendingActivationsShouldBeForced(s) \/ s.readyToActivate

ShouldUpdateVisibleTiles(s) ==
    /\ "impl_side_painting" \in s.settings
    /\ ~s.updatedTiles
    /\ HasInitializedOutputSurface(s)
    /\ s.frame = "INSIDE_DEADLINE"
    /\ s.incompleteTile

SupportsProactiveBeginImplFrame(s) ==
    /\ "using_synchronous_renderer_compositor" \notin s.settings
    /\ "throttle_frame_production" \in s.settings

BeginImplFrameNeededToDraw(s) ==
    /\ HasInitializedOutputSurface(s)
    /\ s.canDraw
    /\ s.forced = "DRAW" \/ (s.visible /\ (s.incompleteTile \/ s.needsRedraw))

ProactiveBeginImplFrameWanted(s) ==
    /\ HasInitializedOutputSurface(s)
    /\ s.visible
    /\ s.needsCommit \/ s.commit # "IDLE" \/ s.pendingTree \/ s.needsManageTiles \/ s.swapped

BeginImplFrameNeeded(s) ==
    \/ BeginImplFrameNeededToDraw(s)
    \/ SupportsProactiveBeginImplFrame(s) /\ ProactiveBeginImplFrameWanted(s)

ShouldPollForAnticipatedDrawTriggers(s) ==
    /\ ~SupportsProactiveBeginImplFrame(s)
    /\ ~BeginImplFrameNeededToDraw(s)
    /\ ProactiveBeginImplFrameWanted(s)

ShouldSendBeginMainFrame(s) ==
    /\ s.needsCommit
    /\ s.commit = "IDLE"
    /\ ~s.pendingTree
    /\ \/ s.readback = "NEEDS_BEGIN_MAIN_FRAME"
       \/ /\ s.visible
          /\ \/ s.outputSurface = "FIRST_COMMIT"
             \/ /\ ~(/\ "deadline_scheduling_enabled" \in s.settings
                     /\ s.frame = "IDLE"
                     /\ BeginImplFrameNeeded(s))
                /\ \/ s.forced = "COMMIT"
                   \/ ~s.sentMainFrame /\ HasInitializedOutputSurface(s)

\* The limit of one ManageTiles per frame rests on DidManageTiles, which nothing
\* calls in this version.
ShouldManageTiles(s) ==
    s.needsManageTiles /\ (s.frame = "INSIDE_DEADLINE" \/ s.polling)

DrawAction(s) ==
    IF s.readback = "DRAW_AND_READBACK" THEN "DRAW_AND_READBACK"
    ELSE IF PendingDrawsShouldBeAborted(s) THEN "DRAW_AND_SWAP_ABORT"
    ELSE IF s.forced = "DRAW" THEN "DRAW_AND_SWAP_FORCED"
    ELSE "DRAW_AND_SWAP_IF_POSSIBLE"

\* The first that applies.
NextAction(s) ==
    IF ShouldAcquireLayerTexturesForMainThread(s) THEN "ACQUIRE_LAYER_TEXTURES"
    ELSE IF ShouldUpdateVisibleTiles(s) THEN "UPDATE_VISIBLE_TILES"
    ELSE IF ShouldActivatePendingTree(s) THEN "ACTIVATE_PENDING_TREE"
    ELSE IF s.commit = "READY_TO_COMMIT" THEN "COMMIT"
    ELSE IF ShouldDraw(s) THEN DrawAction(s)
    ELSE IF ShouldManageTiles(s) THEN "MANAGE_TILES"
    ELSE IF ShouldSendBeginMainFrame(s) THEN "SEND_BEGIN_MAIN_FRAME"
    ELSE IF ShouldBeginOutputSurfaceCreation(s) THEN "BEGIN_OUTPUT_SURFACE_CREATION"
    ELSE "NONE"

ShouldTriggerBeginImplFrameDeadlineEarly(s) ==
    /\ s.readback = "IDLE"
    /\ s.frame = "INSIDE_BEGIN_FRAME"
    /\ \/ s.needsFirstDraw
       \/ s.needsRedraw /\ (s.smoothness \/ (s.commit = "IDLE" /\ ~s.pendingTree))

-----------------------------------------------------------------------------
(* What doing it changes *)

OnSendBeginMainFrame(s) ==
    [s EXCEPT !.commit = "FRAME_IN_PROGRESS",
              !.needsCommit = FALSE,
              !.readback = IF @ = "NEEDS_BEGIN_MAIN_FRAME" THEN "COMMIT" ELSE @,
              !.sentMainFrame = TRUE]

\* What UpdateStateOnCommit asserts.
CommitAllowed(s) ==
    /\ s.readback \in {"IDLE", "COMMIT", "REPLACEMENT_COMMIT"}
    /\ s.readback # "COMMIT" => s.outputSurface # "FIRST_ACTIVATION"

\* Readbacks interrupt the output surface's initialization and forced draws:
\* these move on only with a commit that is not the readback's.
Advances(readback) == readback \in {"IDLE", "REPLACEMENT_ACTIVATION"}

UpdateStateOnCommit(s, aborted) ==
    LET tree == "impl_side_painting" \in s.settings /\ ~aborted
        readback == CASE s.readback = "COMMIT" ->
                            IF tree THEN "ACTIVATION" ELSE "DRAW_AND_READBACK"
                      [] s.readback = "REPLACEMENT_COMMIT" ->
                            IF tree THEN "REPLACEMENT_ACTIVATION" ELSE "IDLE"
                      [] OTHER -> s.readback
        forced == IF Advances(readback) /\ s.forced = "COMMIT"
                  THEN IF tree THEN "ACTIVATION" ELSE "DRAW"
                  ELSE s.forced
        first == Advances(readback) /\ s.outputSurface = "FIRST_COMMIT"
        waits == ~aborted \/ readback # "IDLE" \/ forced # "IDLE"
        draws == ~tree /\ (~aborted \/ readback = "DRAW_AND_READBACK" \/ forced = "DRAW")
        redraw == s.needsRedraw \/ (first /\ ~tree) \/ draws
    IN  [s EXCEPT !.pendingTree = tree,
                  !.readback = readback,
                  !.forced = forced,
                  !.outputSurface = IF ~first THEN @
                                    ELSE IF tree THEN "FIRST_ACTIVATION" ELSE "ACTIVE",
                  !.commit = IF waits THEN "WAITING_FOR_FIRST_DRAW" ELSE "IDLE",
                  !.needsRedraw = redraw,
                  !.needsFirstDraw = @ \/ draws,
                  !.readyToActivate = FALSE,
                  !.swapped = @ /\ ~s.drawFailed,
                  !.texture = IF tree \/ redraw THEN "IMPL_THREAD" ELSE "UNLOCKED",
                  !.readbackTree = IF tree \/ aborted THEN @ ELSE s.readback = "COMMIT"]

UpdateStateOnActivation(s) ==
    [s EXCEPT !.outputSurface = IF @ = "FIRST_ACTIVATION" THEN "ACTIVE" ELSE @,
              !.forced = IF @ = "ACTIVATION" THEN "DRAW" ELSE @,
              !.readback = CASE @ = "ACTIVATION" -> "DRAW_AND_READBACK"
                             [] @ = "REPLACEMENT_ACTIVATION" -> "IDLE"
                             [] OTHER -> @,
              !.pendingTree = FALSE,
              !.readyToActivate = FALSE,
              !.needsFirstDraw = TRUE,
              !.needsRedraw = TRUE,
              !.readbackTree = (s.readback = "ACTIVATION")]

\* Fault: the BeginMainFrame behind a readback is forgotten.
IdleAfterDraw(s) ==
    IF \/ s.readback = "DRAW_AND_READBACK" \/ s.forced = "DRAW"
       \/ s.commit = "WAITING_FOR_FIRST_DRAW" /\ ~s.pendingTree
    THEN "IDLE" ELSE s.commit

\* After a readback a BeginMainFrame is on its way: it was sent behind the request.
CommitAfterDraw(s) ==
    IF s.readback = "DRAW_AND_READBACK" THEN "FRAME_IN_PROGRESS"
    ELSE IF s.forced = "DRAW" \/ (s.commit = "WAITING_FOR_FIRST_DRAW" /\ ~s.pendingTree)
         THEN "IDLE" ELSE s.commit

UpdateStateOnDraw(s, didSwap) ==
    LET readback == s.readback = "DRAW_AND_READBACK" IN
    [s EXCEPT !.readback = IF readback THEN "REPLACEMENT_COMMIT" ELSE @,
              !.forced = IF ~readback /\ @ = "DRAW" THEN "IDLE" ELSE @,
              !.commit = CommitAfterDraw(s),
              !.texture = IF @ = "IMPL_THREAD" THEN "UNLOCKED" ELSE @,
              !.needsRedraw = FALSE,
              !.drawFailed = FALSE,
              !.needsFirstDraw = FALSE,
              !.swapped = @ \/ didSwap]

-----------------------------------------------------------------------------
(* What happens to it *)

SetNeedsForcedCommitForReadback(s) ==
    [s EXCEPT !.readback = IF s.commit = "FRAME_IN_PROGRESS" THEN "COMMIT"
                                                             ELSE "NEEDS_BEGIN_MAIN_FRAME"]

BeginMainFrameAborted(s, didHandle) ==
    IF didHandle THEN UpdateStateOnCommit(s, TRUE)
                 ELSE [s EXCEPT !.commit = "IDLE", !.needsCommit = TRUE]

DidDrawIfPossibleCompleted(s, success) ==
    CASE success ->
            [s EXCEPT !.drawFailed = FALSE, !.failedDraws = 0, !.forced = "IDLE"]
      [] ~success /\ s.forced # "IDLE" ->
            [s EXCEPT !.drawFailed = TRUE, !.needsRedraw = TRUE]
      [] OTHER ->
            LET force == /\ "timeout_and_draw_when_animation_checkerboards" \in s.settings
                         /\ s.failedDraws + 1 >= MaxFailedDraws
            IN  [s EXCEPT !.drawFailed = TRUE,
                          !.needsRedraw = TRUE,
                          !.needsCommit = TRUE,
                          !.failedDraws = IF force THEN 0
                                          ELSE IF @ < MaxFailedDraws THEN @ + 1 ELSE @,
                          !.forced = IF force THEN "COMMIT" ELSE @]

DidLoseOutputSurface(s) ==
    IF ~HasInitializedOutputSurface(s) THEN s
    ELSE [s EXCEPT !.outputSurface = "LOST", !.needsRedraw = FALSE, !.frame = "IDLE"]

DidCreateAndInitializeOutputSurface(s) ==
    [s EXCEPT !.outputSurface = "FIRST_COMMIT",
              !.needsCommit = @ \/ s.createdFirst,
              !.createdFirst = TRUE]

NewFrame(s) == [s EXCEPT !.swapped = FALSE, !.sentMainFrame = FALSE, !.updatedTiles = FALSE]

OnBeginImplFrame(s) == [NewFrame(s) EXCEPT !.frame = "STARTING"]
=============================================================================
