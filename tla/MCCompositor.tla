---------------------------- MODULE MCCompositor ----------------------------
(* Compositors of the kinds the embedders build, each with a few of the calls. *)
EXTENDS Compositor

Compositing(settings, calls) == [settings |-> settings, calls |-> calls]

\* The renderer's compositor and the browser's, which has no pending tree.
Threaded == {"impl_side_painting", "throttle_frame_production", "deadline_scheduling_enabled",
             "timeout_and_draw_when_animation_checkerboards"}
WithoutDeadlines == {"impl_side_painting", "throttle_frame_production"}
Direct == {"timeout_and_draw_when_animation_checkerboards", "throttle_frame_production"}
Synchronous == {"impl_side_painting", "using_synchronous_renderer_compositor",
                "deadline_scheduling_enabled", "timeout_and_draw_when_animation_checkerboards"}

SafetyCompositors ==
    {Compositing(Threaded, {"CompositeAndReadback", "AcquireLayerTextures",
                            "NotifyReadyToActivate"}),
     Compositing(Direct, {"SetNeedsAnimate", "SetVisible"}),
     Compositing(WithoutDeadlines, {"SetNeedsCommit", "SetNeedsAnimate", "SetDeferCommits",
                                    "SmoothnessTakesPriority", "SamePriority",
                                    "NotifyReadyToActivate"}),
     Compositing(Synchronous, {"SetNeedsUpdateLayers", "SetNeedsManageTilesOnImplThread",
                               "NotifyReadyToActivate"}),
     Compositing(Direct, {"CompositeAndReadback", "SetNeedsRedrawOnImplThread",
                          "SetNeedsCommitOnImplThread", "CannotDraw", "CanDraw"})}

LivenessCompositors ==
    {Compositing(Threaded, {"CompositeAndReadback", "NotifyReadyToActivate"}),
     Compositing(Direct, {"SetNeedsCommit", "SetVisible"}),
     Compositing(Threaded, {"SetNeedsCommit", "SetNextCommitWaitsForActivation",
                            "NotifyReadyToActivate"})}
=============================================================================
