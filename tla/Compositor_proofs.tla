------------------------- MODULE Compositor_proofs -------------------------
(***************************************************************************)
(* The safety properties of the compositor, for any set of compositors and *)
(* any limits: every combination of settings, and of the calls the         *)
(* embedder and LayerTreeHostImpl make.                                    *)
(*                                                                         *)
(* The invariant says of every stage of the pipeline where the request,    *)
(* the frame, the commit, the textures and the completion event the main   *)
(* thread waits for are: with one thread, in one of the queues, or in the  *)
(* state of the scheduler, and never in two of these places.               *)
(***************************************************************************)
EXTENDS Compositor, CommonLemmas

-----------------------------------------------------------------------------
(* Tasks in a queue *)

In(q, task) == \E i \in DOMAIN q : q[i] = task

Once(q, tasks) == \A i, j \in DOMAIN q : q[i] \in tasks /\ q[j] \in tasks => i = j

\* Tasks the main thread waits for: nothing is posted behind one.
Blocking == {"Show", "Hide", "ForceCommitForReadback", "StartCommit", "AcquireLayerTextures",
             "HasInitializedOutputSurface", "InitializeOutputSurface"}

BlockingLast(q) == \A i \in DOMAIN q : q[i] \in Blocking => i = Len(q)

Answers == {"StartCommit", "AbortHandled", "AbortUnhandled"}

-----------------------------------------------------------------------------
(* The invariant *)

\* A frame is inside its deadline or has one, the surface of the scheduler is
\* there, and what the scheduler asked for is what the surface knows.
FrameInv ==
    /\ requested => HasInitializedOutputSurface(sm)
    /\ HasInitializedOutputSurface(sm) => surface.renderer
    /\ sm.frame # "IDLE" => HasInitializedOutputSurface(sm)
    /\ deadline <=> sm.frame = "INSIDE_BEGIN_FRAME"
    /\ sm.frame = "STARTING" <=> stage = "starting" /\ HasInitializedOutputSurface(sm)
    /\ sm.frame = "INSIDE_DEADLINE" <=> stage = "deadline" /\ HasInitializedOutputSurface(sm)
    /\ stage = "poll" => sm.polling
    /\ requested /\ sm.frame = "IDLE" => surface.needs /\ surface.ready /\ surface.ticking

\* What the end of the loop leaves behind.
RestInv ==
    stage = "idle" =>
      /\ BeginImplFrameNeeded(sm) => requested
      /\ sm.needsManageTiles /\ sm.visible /\ HasInitializedOutputSurface(sm) => requested \/ poll

\* The stages of a commit, of a readback and of a forced draw go together.
PipeInv(s) ==
    /\ s.pendingTree => s.commit = "WAITING_FOR_FIRST_DRAW"
    /\ s.readback \in {"ACTIVATION", "REPLACEMENT_ACTIVATION"} => s.pendingTree
    /\ s.readback = "DRAW_AND_READBACK" => s.commit = "WAITING_FOR_FIRST_DRAW" /\ ~s.pendingTree
    /\ s.readback = "COMMIT" => CommitPending(s)
    /\ s.readback = "NEEDS_BEGIN_MAIN_FRAME" => ~CommitPending(s)
    /\ s.outputSurface = "FIRST_ACTIVATION" => s.pendingTree
    /\ s.forced = "ACTIVATION" =>
          /\ s.pendingTree
          /\ s.readback \in {"IDLE", "NEEDS_BEGIN_MAIN_FRAME", "REPLACEMENT_ACTIVATION"}
    /\ s.forced = "DRAW" =>
          /\ s.commit = "WAITING_FOR_FIRST_DRAW" /\ ~s.pendingTree
          /\ s.readback \in {"IDLE", "NEEDS_BEGIN_MAIN_FRAME"}

\* The BeginMainFrame behind a readback is with the main thread while it is read.
ReadingBack(s) == s.readback \in {"COMMIT", "ACTIVATION", "DRAW_AND_READBACK"}

FrameOut == In(mainQueue, "BeginMainFrame") \/ main.deferred
Aborting == In(implQueue, "AbortHandled") \/ In(implQueue, "AbortUnhandled")
Starting == In(implQueue, "StartCommit")

\* A BeginMainFrame, its answer and the commit are one token.
TokenInv ==
    /\ Once(mainQueue, {"BeginMainFrame"})
    /\ main.deferred => ~In(mainQueue, "BeginMainFrame") /\ main.deferCommits
    /\ Once(implQueue, Answers)
    /\ uploading <=> "commit" \in events
    /\ uploading => ~Starting /\ ~Aborting /\ CommitPending(sm)
    /\ Starting \/ Aborting => sm.commit = "FRAME_IN_PROGRESS"
    /\ sm.commit = "READY_TO_COMMIT" => uploading /\ stage # "idle"
    /\ FrameOut => sm.commit = "FRAME_IN_PROGRESS" \/ ReadingBack(sm)
    /\ ReadingBack(sm) => FrameOut
    /\ FrameOut /\ ~ReadingBack(sm) => ~Starting /\ ~uploading
    /\ Aborting => ~FrameOut /\ ~ReadingBack(sm) /\ sm.readback # "NEEDS_BEGIN_MAIN_FRAME"
    /\ sm.commit = "FRAME_IN_PROGRESS" => FrameOut \/ Aborting \/ Starting \/ uploading

\* The call the main thread is blocked in is at one place: its task is queued, the
\* loop it started runs, the impl thread keeps its event, or the event is signalled.
CallInv ==
    /\ BlockingLast(implQueue)
    /\ In(implQueue, "Show") \/ In(implQueue, "Hide") =>
          pc = "visible" /\ stage # "visible" /\ "visible" \notin signalled
    /\ In(implQueue, "ForceCommitForReadback") =>
          pc = "sent" /\ stage # "readback" /\ "sent" \notin events \cup signalled
    /\ In(implQueue, "StartCommit") =>
          pc = "commit" /\ "commit" \notin events \cup signalled /\ "held" \notin events
    /\ In(implQueue, "AcquireLayerTextures") =>
          pc = "textures" /\ "textures" \notin events \cup signalled
    /\ In(implQueue, "HasInitializedOutputSurface") => pc = "has" /\ "has" \notin signalled
    /\ In(implQueue, "InitializeOutputSurface") =>
          pc = "init" /\ stage # "init" /\ "init" \notin signalled
    /\ stage = "visible" => pc = "visible" /\ "visible" \notin signalled
    /\ stage = "init" => pc = "init" /\ "init" \notin signalled
    /\ stage = "readback" => pc = "sent" /\ "sent" \notin events \cup signalled
    /\ "sent" \in events => pc = "sent" /\ "sent" \notin signalled
    /\ "commit" \in events => pc = "commit" /\ "commit" \notin signalled /\ "held" \notin events
    /\ "held" \in events => pc = "commit" /\ "commit" \notin signalled
    /\ "textures" \in events => pc = "textures" /\ "textures" \notin signalled
    /\ signalled \subseteq {pc, "readback"}

\* The main thread is blocked while it reads back, and knows that it does.
ReadbackInv ==
    /\ ReadingBack(sm) \/ sm.readback = "NEEDS_BEGIN_MAIN_FRAME" =>
          main.inReadback /\ pc \in {"sent", "commit", "readback"}
    /\ sm.readback \in {"ACTIVATION", "DRAW_AND_READBACK"} => pc # "sent"
    /\ "sent" \in signalled => sm.readback = "COMMIT"
    /\ "sent" \in events => sm.readback = "NEEDS_BEGIN_MAIN_FRAME"
    /\ stage = "readback" => sm.readback \in {"NEEDS_BEGIN_MAIN_FRAME", "COMMIT"}
    /\ pc = "sent" => main.inReadback
    /\ "readback" \in signalled =>
          /\ main.inReadback /\ pc \in {"commit", "readback"}
          /\ ~ReadingBack(sm) /\ sm.readback # "NEEDS_BEGIN_MAIN_FRAME"
    /\ pc \in {"idle", "visible", "textures"} => ~main.inReadback

\* There is a renderer while the main thread takes its surface to be there, and a
\* surface is replaced only while the scheduler has none.
SurfaceInv ==
    /\ ~main.surfaceLost => surface.renderer
    /\ pc = "init" => main.surfaceLost /\ ~In(mainQueue, "Retry")
    /\ In(mainQueue, "Retry") => main.surfaceLost /\ ~HasInitializedOutputSurface(sm)
    /\ In(implQueue, "InitializeOutputSurface") => ~HasInitializedOutputSurface(sm)
    /\ "has" \in signalled /\ ~main.reply => ~HasInitializedOutputSurface(sm)
    /\ "init" \in signalled /\ ~main.reply => ~HasInitializedOutputSurface(sm)
    /\ stage = "init" => main.reply
    /\ stage = "init" \/ "init" \in signalled => (main.reply => surface.renderer)
    /\ Once(mainQueue, {"Retry"})
    /\ pc \in {"sent", "readback"} => ~main.surfaceLost
    /\ pc = "commit" /\ main.inReadback => ~main.surfaceLost

\* The layer textures are with the main thread from the moment it is told so until
\* it paints, and then with the frame on its way to the impl thread.
TextureInv ==
    /\ sm.needsTextures <=> "textures" \in events
    /\ main.texturesAcquired =>
          sm.texture # "IMPL_THREAD" /\ ~uploading /\ ~Starting /\ ~In(implQueue, "AbortHandled")
    /\ pc = "textures" => ~main.texturesAcquired
    /\ "textures" \in events \cup signalled => ~In(implQueue, "AbortHandled")
    /\ "textures" \in signalled => sm.texture = "MAIN_THREAD"
    /\ sm.texture = "MAIN_THREAD" =>
          \/ main.texturesAcquired \/ "textures" \in signalled
          \/ Starting \/ uploading \/ In(implQueue, "AbortHandled")

\* A request the main thread counts as sent is on its way.
RequestInv ==
    /\ main.commitRequested \/ main.animateRequested => main.requestSent
    /\ main.requestSent => sm.needsCommit \/ In(implQueue, "SetNeedsCommit") \/ FrameOut

Good ==
    /\ FrameInv /\ RestInv /\ PipeInv(sm) /\ TokenInv /\ CallInv
    /\ ReadbackInv /\ SurfaceInv /\ TextureInv /\ RequestInv

\* The tree of a readback stays active only while the readback has not come to its
\* end; and what ends it is a commit, for the BeginMainFrame behind a readback is
\* never answered with "nothing to commit".
TreeInv ==
    /\ sm.readbackTree => sm.readback # "IDLE"
    /\ pc = "readback" => ~main.canCancel
    /\ sm.readback = "REPLACEMENT_COMMIT" =>
          /\ ~In(implQueue, "AbortHandled")
          /\ main.canCancel => Starting \/ uploading \/ (pc = "commit" /\ main.inReadback)

\* A check that fails ends the behaviour: the rest of the invariant is about the
\* others.
IInv == TypeOK /\ PipelineConsistent /\ (failed = {} => Good)

-----------------------------------------------------------------------------
(* Lemmas: queues *)

\* Nothing the main thread waits for, or no answer, is in the queue.
None(q, tasks) == \A task \in tasks : ~In(q, task)

\* The first task is run.
LEMMA TailOfQueue ==
    ASSUME NEW S, NEW q \in Seq(S), q # <<>>
    PROVE  /\ Tail(q) \in Seq(S)
           /\ In(q, Head(q))
           /\ \A task : In(q, task) => task = Head(q) \/ In(Tail(q), task)
           /\ \A task : In(Tail(q), task) => In(q, task)
           /\ \A tasks : Once(q, tasks) => Once(Tail(q), tasks)
           /\ \A tasks : Once(q, tasks) /\ Head(q) \in tasks => None(Tail(q), tasks)
           /\ BlockingLast(q) => BlockingLast(Tail(q))
           /\ BlockingLast(q) /\ Head(q) \in Blocking => \A task : ~In(Tail(q), task)
<1> DEFINE r == Tail(q)
<1>1. /\ r \in Seq(S) /\ Len(q) \in Nat \ {0} /\ Len(r) = Len(q) - 1
      /\ \A i \in 1..Len(r) : r[i] = q[i + 1]
  BY HeadTailProperties, EmptySeq
<1>2. Head(q) = q[1] /\ DOMAIN q = 1..Len(q) /\ DOMAIN r = 1..Len(r)
  BY <1>1, LenProperties
<1> HIDE DEF r
<1>3. \A i \in DOMAIN r : i + 1 \in DOMAIN q /\ q[i + 1] = r[i] /\ i + 1 # 1
  BY <1>1, <1>2
<1>4. \A i \in DOMAIN q : i = 1 \/ (i - 1 \in DOMAIN r /\ r[i - 1] = q[i])
  BY <1>1, <1>2
<1>5. 1 \in DOMAIN q
  BY <1>1, <1>2
<1>6. In(q, Head(q))
  BY <1>2, <1>5 DEF In
<1>7. \A task : In(q, task) => task = Head(q) \/ In(r, task)
  BY <1>2, <1>4 DEF In
<1>8. \A task : In(r, task) => In(q, task)
  BY <1>3 DEF In
<1>9. ASSUME NEW tasks, Once(q, tasks) PROVE Once(r, tasks)
  <2> SUFFICES ASSUME NEW i \in DOMAIN r, NEW j \in DOMAIN r, r[i] \in tasks, r[j] \in tasks
               PROVE  i = j
    BY DEF Once
  <2>1. i + 1 = j + 1
    BY <1>3, <1>9 DEF Once
  <2> QED BY <2>1, <1>2, <1>1
<1>10. ASSUME NEW tasks, Once(q, tasks), Head(q) \in tasks PROVE None(r, tasks)
  <2> SUFFICES ASSUME NEW i \in DOMAIN r, r[i] \in tasks PROVE FALSE
    BY DEF None, In
  <2>1. i + 1 = 1
    BY <1>2, <1>3, <1>5, <1>10 DEF Once
  <2> QED BY <2>1, <1>3
<1>11. ASSUME BlockingLast(q) PROVE BlockingLast(r)
  <2> SUFFICES ASSUME NEW i \in DOMAIN r, r[i] \in Blocking PROVE i = Len(r)
    BY DEF BlockingLast
  <2>1. i + 1 = Len(q)
    BY <1>3, <1>11 DEF BlockingLast
  <2> QED BY <2>1, <1>1, <1>2
<1>12. ASSUME BlockingLast(q), Head(q) \in Blocking PROVE \A task : ~In(r, task)
  <2>1. Len(q) = 1
    BY <1>2, <1>5, <1>12 DEF BlockingLast
  <2>2. DOMAIN r = {}
    BY <2>1, <1>1, <1>2
  <2> QED BY <2>2 DEF In
<1> QED BY <1>1, <1>6, <1>7, <1>8, <1>9, <1>10, <1>11, <1>12 DEF r

\* Tasks are posted.
LEMMA ConcatOfQueues ==
    ASSUME NEW S, NEW q \in Seq(S), NEW r \in Seq(S)
    PROVE  /\ q \o r \in Seq(S)
           /\ \A task : In(q \o r, task) <=> In(q, task) \/ In(r, task)
           /\ \A tasks : Once(q, tasks) /\ Once(r, tasks) /\ (None(q, tasks) \/ None(r, tasks))
                            => Once(q \o r, tasks)
           /\ None(q, Blocking) /\ BlockingLast(r) => BlockingLast(q \o r)
<1> DEFINE c == q \o r
<1>1. /\ c \in Seq(S) /\ Len(c) = Len(q) + Len(r)
      /\ \A i \in 1..(Len(q) + Len(r)) : c[i] = IF i <= Len(q) THEN q[i] ELSE r[i - Len(q)]
  BY ConcatProperties
<1>2. /\ Len(q) \in Nat /\ Len(r) \in Nat
      /\ DOMAIN q = 1..Len(q) /\ DOMAIN r = 1..Len(r) /\ DOMAIN c = 1..Len(c)
  BY <1>1, LenProperties
<1> HIDE DEF c
<1>3. \A i \in DOMAIN q : i \in DOMAIN c /\ c[i] = q[i]
  BY <1>1, <1>2
<1>4. \A i \in DOMAIN r : i + Len(q) \in DOMAIN c /\ c[i + Len(q)] = r[i]
  <2> SUFFICES ASSUME NEW i \in DOMAIN r
               PROVE  i + Len(q) \in DOMAIN c /\ c[i + Len(q)] = r[i]
    OBVIOUS
  <2>1. i + Len(q) \in 1..(Len(q) + Len(r)) /\ ~(i + Len(q) <= Len(q)) /\ i + Len(q) - Len(q) = i
    BY <1>2
  <2> QED BY <2>1, <1>1, <1>2
<1>5. \A i \in DOMAIN c : \/ i \in DOMAIN q /\ c[i] = q[i]
                          \/ i - Len(q) \in DOMAIN r /\ c[i] = r[i - Len(q)]
  BY <1>1, <1>2
<1>6. \A task : In(c, task) <=> In(q, task) \/ In(r, task)
  <2>1. \A task : In(q, task) => In(c, task)
    BY <1>3 DEF In
  <2>2. \A task : In(r, task) => In(c, task)
    BY <1>4 DEF In
  <2>3. \A task : In(c, task) => In(q, task) \/ In(r, task)
    BY <1>5 DEF In
  <2> QED BY <2>1, <2>2, <2>3
<1>7. ASSUME NEW tasks, Once(q, tasks), Once(r, tasks), None(q, tasks) \/ None(r, tasks)
      PROVE  Once(c, tasks)
  <2> SUFFICES ASSUME NEW i \in DOMAIN c, NEW j \in DOMAIN c, c[i] \in tasks, c[j] \in tasks
               PROVE  i = j
    BY DEF Once
  <2>1. CASE None(q, tasks)
    <3>1. i - Len(q) \in DOMAIN r /\ j - Len(q) \in DOMAIN r /\ i - Len(q) = j - Len(q)
      BY <2>1, <1>5, <1>7 DEF None, In, Once
    <3> QED BY <3>1, <1>2
  <2>2. CASE None(r, tasks)
    BY <2>2, <1>5, <1>7 DEF None, In, Once
  <2> QED BY <2>1, <2>2, <1>7
<1>8. ASSUME None(q, Blocking), BlockingLast(r) PROVE BlockingLast(c)
  <2> SUFFICES ASSUME NEW i \in DOMAIN c, c[i] \in Blocking PROVE i = Len(c)
    BY DEF BlockingLast
  <2>1. i - Len(q) \in DOMAIN r /\ r[i - Len(q)] \in Blocking
    BY <1>5, <1>8 DEF None, In
  <2>2. i - Len(q) = Len(r)
    BY <2>1, <1>8 DEF BlockingLast
  <2> QED BY <2>2, <1>1, <1>2
<1> QED BY <1>1, <1>6, <1>7, <1>8 DEF c


\* Nothing, or one task, is posted.
LEMMA ShortQueues ==
    ASSUME NEW S
    PROVE  /\ <<>> \in Seq(S)
           /\ \A task : ~In(<<>>, task)
           /\ \A tasks : Once(<<>>, tasks)
           /\ BlockingLast(<<>>)
           /\ \A a \in S : /\ <<a>> \in Seq(S)
                           /\ \A task : In(<<a>>, task) <=> task = a
                           /\ \A tasks : Once(<<a>>, tasks)
                           /\ BlockingLast(<<a>>)
<1>1. <<>> \in Seq(S) /\ DOMAIN <<>> = {}
  BY EmptySeq
<1>2. /\ \A task : ~In(<<>>, task)
      /\ \A tasks : Once(<<>>, tasks)
      /\ BlockingLast(<<>>)
  BY <1>1 DEF In, Once, BlockingLast
<1>3. ASSUME NEW a \in S
      PROVE  /\ <<a>> \in Seq(S)
             /\ \A task : In(<<a>>, task) <=> task = a
             /\ \A tasks : Once(<<a>>, tasks)
             /\ BlockingLast(<<a>>)
  <2>1. <<a>> \in Seq(S) /\ Len(<<a>>) = 1 /\ DOMAIN <<a>> = {1} /\ <<a>>[1] = a
    OBVIOUS
  <2> DEFINE q == <<a>>
  <2> HIDE DEF q
  <2> QED BY <2>1 DEF In, Once, BlockingLast, q
<1> QED BY <1>1, <1>2, <1>3

\* A task is posted to the main thread.
LEMMA AppendToQueue ==
    ASSUME NEW S, NEW q \in Seq(S), NEW a \in S
    PROVE  /\ Append(q, a) \in Seq(S)
           /\ \A task : In(Append(q, a), task) <=> In(q, task) \/ task = a
           /\ \A tasks : Once(q, tasks) /\ (None(q, tasks) \/ a \notin tasks)
                            => Once(Append(q, a), tasks)
<1>1. Append(q, a) = q \o <<a>>
  BY AppendIsConcat
<1>2. /\ <<a>> \in Seq(S)
      /\ \A task : In(<<a>>, task) <=> task = a
      /\ \A tasks : Once(<<a>>, tasks)
  BY ShortQueues
<1>3. \A tasks : a \notin tasks => None(<<a>>, tasks)
  BY <1>2 DEF None
<1> DEFINE r == <<a>>
<1> HIDE DEF r
<1>4. /\ q \o r \in Seq(S)
      /\ \A task : In(q \o r, task) <=> In(q, task) \/ In(r, task)
      /\ \A tasks : Once(q, tasks) /\ Once(r, tasks) /\ (None(q, tasks) \/ None(r, tasks))
                       => Once(q \o r, tasks)
  BY <1>2, ConcatOfQueues DEF r
<1>5. \A tasks : Once(r, tasks) /\ (a \notin tasks => None(r, tasks))
  BY <1>2, <1>3 DEF r
<1>6. \A task : In(r, task) <=> task = a
  BY <1>2 DEF r
<1>7. Append(q, a) = q \o r
  BY <1>1 DEF r
<1> QED BY <1>4, <1>5, <1>6, <1>7

\* The retry that was posted is taken out of the queue.
LEMMA WithoutRetryQueue ==
    ASSUME mainQueue \in Seq(MainTasks)
    PROVE  /\ WithoutRetry \in Seq(MainTasks)
           /\ \A task : In(WithoutRetry, task) => In(mainQueue, task)
           /\ \A task : In(mainQueue, task) /\ task # "Retry" => In(WithoutRetry, task)
           /\ \A tasks : Once(mainQueue, tasks) => Once(WithoutRetry, tasks)
           /\ Once(mainQueue, {"Retry"}) => ~In(WithoutRetry, "Retry")
<1>1. CASE Retries = {}
  <2>1. WithoutRetry = mainQueue
    BY <1>1 DEF WithoutRetry
  <2>2. ~In(mainQueue, "Retry")
    BY <1>1 DEF Retries, In
  <2> QED BY <2>1, <2>2
<1>2. CASE Retries # {}
  <2> DEFINE k == CHOOSE j \in Retries : TRUE
             q == mainQueue
             a == SubSeq(q, 1, k - 1)
             b == SubSeq(q, k + 1, Len(q))
             r == WithoutRetry
  <2>1. k \in DOMAIN q /\ q[k] = "Retry"
    BY <1>2 DEF Retries
  <2>2. r = a \o b
    BY <1>2 DEF WithoutRetry
  <2> HIDE DEF k, r
  <2>3. DOMAIN q = 1..Len(q) /\ Len(q) \in Nat /\ \A i \in 1..Len(q) : q[i] \in MainTasks
    BY LenProperties
  <2>4. k \in 1..Len(q)
    BY <2>1, <2>3
  <2> HIDE DEF q
  <2>5. /\ a \in Seq(MainTasks) /\ Len(a) = k - 1
        /\ \A i \in 1..(k - 1) : a[i] = q[i]
    <3>1. 1 \in Int /\ k - 1 \in Int /\ \A i \in 1..(k - 1) : q[i] \in MainTasks
      BY <2>3, <2>4
    <3>2. /\ a \in Seq(MainTasks)
          /\ Len(a) = IF 1 <= k - 1 THEN k - 1 - 1 + 1 ELSE 0
          /\ \A i \in 1..(k - 1 - 1 + 1) : a[i] = q[1 + i - 1]
      BY <3>1, SubSeqProperties
    <3> HIDE DEF a
    <3> QED BY <3>2, <2>4, <2>3
  <2>6. /\ b \in Seq(MainTasks) /\ Len(b) = Len(q) - k
        /\ \A i \in 1..(Len(q) - k) : b[i] = q[k + i]
    <3>1. k + 1 \in Int /\ Len(q) \in Int /\ \A i \in (k + 1)..Len(q) : q[i] \in MainTasks
      BY <2>3, <2>4
    <3>2. /\ b \in Seq(MainTasks)
          /\ Len(b) = IF k + 1 <= Len(q) THEN Len(q) - (k + 1) + 1 ELSE 0
          /\ \A i \in 1..(Len(q) - (k + 1) + 1) : b[i] = q[k + 1 + i - 1]
      BY <3>1, SubSeqProperties
    <3> HIDE DEF b
    <3>3. Len(b) = Len(q) - k /\ Len(q) - (k + 1) + 1 = Len(q) - k
      <4> DEFINE n == Len(q)
      <4>1. n \in Nat /\ k \in 1..n
        BY <2>3, <2>4
      <4>2. Len(b) = IF k + 1 <= n THEN n - (k + 1) + 1 ELSE 0
        BY <3>2
      <4> HIDE DEF n
      <4>3. n - (k + 1) + 1 = n - k /\ (~(k + 1 <= n) => n - k = 0)
        BY <4>1
      <4> QED BY <4>2, <4>3 DEF n
    <3>4. \A i \in 1..(Len(q) - k) : k + 1 + i - 1 = k + i
      BY <2>4, <2>3
    <3> QED BY <3>2, <3>3, <3>4
  <2> HIDE DEF a, b
  <2>7. /\ r \in Seq(MainTasks) /\ Len(r) = Len(q) - 1 /\ DOMAIN r = 1..Len(r)
        /\ \A i \in 1..Len(r) : r[i] = IF i <= k - 1 THEN a[i] ELSE b[i - (k - 1)]
    <3>1. /\ a \o b \in Seq(MainTasks) /\ Len(a \o b) = Len(a) + Len(b)
          /\ \A i \in 1..(Len(a) + Len(b)) :
                (a \o b)[i] = IF i <= Len(a) THEN a[i] ELSE b[i - Len(a)]
      BY <2>5, <2>6, ConcatProperties
    <3>2. Len(a) + Len(b) = Len(q) - 1
      BY <2>5, <2>6, <2>3, <2>4
    <3>3. DOMAIN r = 1..Len(r)
      BY <3>1, <2>2, LenProperties
    <3> QED BY <3>1, <3>2, <3>3, <2>2, <2>5
  <2>8. \A i \in DOMAIN r : IF i < k THEN i \in DOMAIN q /\ r[i] = q[i]
                                     ELSE i + 1 \in DOMAIN q /\ r[i] = q[i + 1]
    <3> SUFFICES ASSUME NEW i \in 1..Len(r)
                 PROVE  IF i < k THEN i \in DOMAIN q /\ r[i] = q[i]
                                 ELSE i + 1 \in DOMAIN q /\ r[i] = q[i + 1]
      BY <2>7
    <3>1. CASE i < k
      <4>1. i <= k - 1 /\ i \in 1..(k - 1) /\ i \in 1..Len(q)
        BY <3>1, <2>3, <2>4, <2>7
      <4>2. r[i] = a[i] /\ a[i] = q[i]
        BY <4>1, <2>5, <2>7
      <4> QED BY <3>1, <4>1, <4>2, <2>3
    <3>2. CASE ~(i < k)
      <4>1. ~(i <= k - 1) /\ i - (k - 1) \in 1..(Len(q) - k) /\ k + (i - (k - 1)) = i + 1
        BY <3>2, <2>3, <2>4, <2>7
      <4>2. r[i] = b[i - (k - 1)]
        BY <4>1, <2>7
      <4>3. b[i - (k - 1)] = q[k + (i - (k - 1))]
        BY <4>1, <2>6
      <4>4. i + 1 \in DOMAIN q
        BY <2>3, <2>7
      <4> QED BY <3>2, <4>1, <4>2, <4>3, <4>4
    <3> QED BY <3>1, <3>2
  <2>9. \A i \in DOMAIN q : i # k => IF i < k THEN i \in DOMAIN r ELSE i - 1 \in DOMAIN r
    BY <2>3, <2>4, <2>7
  <2>10. \A i \in DOMAIN q : i # k => \E j \in DOMAIN r : r[j] = q[i]
    <3> SUFFICES ASSUME NEW i \in DOMAIN q, i # k PROVE \E j \in DOMAIN r : r[j] = q[i]
      OBVIOUS
    <3>1. CASE i < k
      BY <3>1, <2>8, <2>9
    <3>2. CASE ~(i < k)
      <4>1. i - 1 \in DOMAIN r /\ ~(i - 1 < k) /\ i - 1 + 1 = i
        BY <3>2, <2>9, <2>3, <2>4
      <4> QED BY <4>1, <2>8
    <3> QED BY <3>1, <3>2
  <2>11. \A task : In(r, task) => In(q, task)
    BY <2>8 DEF In
  <2>12. \A task : In(q, task) /\ task # "Retry" => In(r, task)
    BY <2>1, <2>10 DEF In
  <2>13. ASSUME NEW tasks, Once(q, tasks) PROVE Once(r, tasks)
    <3> SUFFICES ASSUME NEW i \in DOMAIN r, NEW j \in DOMAIN r, r[i] \in tasks, r[j] \in tasks
                 PROVE  i = j
      BY DEF Once
    <3>1. (IF i < k THEN i ELSE i + 1) = (IF j < k THEN j ELSE j + 1)
      BY <2>8, <2>13 DEF Once
    <3> QED BY <3>1, <2>4, <2>7
  <2>14. Once(q, {"Retry"}) => ~In(r, "Retry")
    <3> SUFFICES ASSUME Once(q, {"Retry"}), NEW i \in DOMAIN r, r[i] = "Retry" PROVE FALSE
      BY DEF In
    <3>1. (IF i < k THEN i ELSE i + 1) = k
      BY <2>1, <2>8 DEF Once
    <3> QED BY <3>1, <2>4, <2>7
  <2> QED BY <2>7, <2>11, <2>12, <2>13, <2>14 DEF q, r
<1> QED BY <1>1, <1>2


-----------------------------------------------------------------------------
(* Type correctness *)

\* What the operators of the state machine compute is a state.
LEMMA OperatorsTyped ==
    ASSUME NEW s \in State
    PROVE  /\ OnSendBeginMainFrame(s) \in State
           /\ \A aborted \in BOOLEAN : UpdateStateOnCommit(s, aborted) \in State
           /\ UpdateStateOnActivation(s) \in State
           /\ \A didSwap \in BOOLEAN : UpdateStateOnDraw(s, didSwap) \in State
           /\ SetNeedsForcedCommitForReadback([s EXCEPT !.needsCommit = TRUE]) \in State
           /\ \A didHandle \in BOOLEAN : BeginMainFrameAborted(s, didHandle) \in State
           /\ \A success \in BOOLEAN : DidDrawIfPossibleCompleted(s, success) \in State
           /\ DidLoseOutputSurface(s) \in State
           /\ DidCreateAndInitializeOutputSurface(s) \in State
           /\ NewFrame(s) \in State
           /\ OnBeginImplFrame(s) \in State
<1>1. OnSendBeginMainFrame(s) \in State
  <2> DEFINE r == IF s.readback = "NEEDS_BEGIN_MAIN_FRAME" THEN "COMMIT" ELSE s.readback
  <2>1. r \in ReadbackState /\ "FRAME_IN_PROGRESS" \in CommitState
    BY DEF State, CommitState, ReadbackState
  <2>2. OnSendBeginMainFrame(s) = [s EXCEPT !.commit = "FRAME_IN_PROGRESS", !.needsCommit = FALSE,
                                            !.readback = r, !.sentMainFrame = TRUE]
    BY DEF OnSendBeginMainFrame
  <2> HIDE DEF r
  <2> QED BY <2>1, <2>2, ZenonT(30) DEF State
<1>2. ASSUME NEW aborted \in BOOLEAN PROVE UpdateStateOnCommit(s, aborted) \in State
  <2> DEFINE tree == "impl_side_painting" \in s.settings /\ ~aborted
             readback == CASE s.readback = "COMMIT" ->
                                IF tree THEN "ACTIVATION" ELSE "DRAW_AND_READBACK"
                           [] s.readback = "REPLACEMENT_COMMIT" ->
                                IF tree THEN "REPLACEMENT_ACTIVATION" ELSE "IDLE"
                           [] OTHER -> s.readback
             forced == IF Advances(readback) /\ s.forced = "COMMIT"
                       THEN IF tree THEN "ACTIVATION" ELSE "DRAW"
                       ELSE s.forced
             first == Advances(readback) /\ s.outputSurface = "FIRST_COMMIT"
             waits == ~aborted \/ readback # "IDLE" \/ forced # "IDLE"
             draws == ~tree /\ (~aborted \/ readback = "DRAW_AND_READBACK" \/ forced = "DRAW")
             redraw == s.needsRedraw \/ (first /\ ~tree) \/ draws
             o == IF ~first THEN s.outputSurface ELSE IF tree THEN "FIRST_ACTIVATION" ELSE "ACTIVE"
             c == IF waits THEN "WAITING_FOR_FIRST_DRAW" ELSE "IDLE"
             d == s.needsFirstDraw \/ draws
             w == s.swapped /\ ~s.drawFailed
             t == IF tree \/ redraw THEN "IMPL_THREAD" ELSE "UNLOCKED"
             k == IF tree \/ aborted THEN s.readbackTree ELSE s.readback = "COMMIT"
  <2>1. readback \in ReadbackState
    BY DEF State, ReadbackState
  <2>2. forced \in ForcedRedrawState /\ o \in OutputSurfaceState
    BY DEF State, ForcedRedrawState, OutputSurfaceState
  <2>3. c \in CommitState /\ t \in TextureState
    BY DEF CommitState, TextureState
  <2>4. /\ tree \in BOOLEAN /\ redraw \in BOOLEAN /\ d \in BOOLEAN /\ w \in BOOLEAN
        /\ k \in BOOLEAN
    BY DEF State
  <2>5. UpdateStateOnCommit(s, aborted) =
          [s EXCEPT !.pendingTree = tree, !.readback = readback, !.forced = forced,
                    !.outputSurface = o, !.commit = c, !.needsRedraw = redraw,
                    !.needsFirstDraw = d, !.readyToActivate = FALSE, !.swapped = w, !.texture = t,
                    !.readbackTree = k]
    BY Zenon DEF UpdateStateOnCommit
  <2> HIDE DEF tree, readback, forced, first, waits, draws, o, c, redraw, d, w, t, k
  <2>6. [s EXCEPT !.pendingTree = tree, !.readback = readback, !.forced = forced,
                  !.outputSurface = o, !.commit = c, !.needsRedraw = redraw,
                  !.needsFirstDraw = d, !.readyToActivate = FALSE, !.swapped = w, !.texture = t,
                  !.readbackTree = k]
          \in State
    BY <2>1, <2>2, <2>3, <2>4, ZenonT(30) DEF State
  <2> QED BY <2>5, <2>6
<1>3. UpdateStateOnActivation(s) \in State
  <2> DEFINE o == IF s.outputSurface = "FIRST_ACTIVATION" THEN "ACTIVE" ELSE s.outputSurface
             f == IF s.forced = "ACTIVATION" THEN "DRAW" ELSE s.forced
             r == CASE s.readback = "ACTIVATION" -> "DRAW_AND_READBACK"
                    [] s.readback = "REPLACEMENT_ACTIVATION" -> "IDLE"
                    [] OTHER -> s.readback
             k == s.readback = "ACTIVATION"
  <2>1. /\ r \in ReadbackState /\ f \in ForcedRedrawState /\ o \in OutputSurfaceState
        /\ k \in BOOLEAN
    BY DEF State, ReadbackState, ForcedRedrawState, OutputSurfaceState
  <2>2. UpdateStateOnActivation(s) =
          [s EXCEPT !.outputSurface = o, !.forced = f, !.readback = r, !.pendingTree = FALSE,
                    !.readyToActivate = FALSE, !.needsFirstDraw = TRUE, !.needsRedraw = TRUE,
                    !.readbackTree = k]
    BY Zenon DEF UpdateStateOnActivation
  <2> HIDE DEF o, f, r, k
  <2> QED BY <2>1, <2>2, ZenonT(90) DEF State
<1>4. ASSUME NEW didSwap \in BOOLEAN PROVE UpdateStateOnDraw(s, didSwap) \in State
  <2> DEFINE readback == s.readback = "DRAW_AND_READBACK"
             r == IF readback THEN "REPLACEMENT_COMMIT" ELSE s.readback
             f == IF ~readback /\ s.forced = "DRAW" THEN "IDLE" ELSE s.forced
             c == CommitAfterDraw(s)
             t == IF s.texture = "IMPL_THREAD" THEN "UNLOCKED" ELSE s.texture
             w == s.swapped \/ didSwap
  <2>1. r \in ReadbackState /\ f \in ForcedRedrawState
    BY DEF State, ReadbackState, ForcedRedrawState
  <2>2. c \in CommitState /\ t \in TextureState /\ w \in BOOLEAN
    BY DEF State, CommitAfterDraw, CommitState, TextureState
  <2>3. UpdateStateOnDraw(s, didSwap) =
          [s EXCEPT !.readback = r, !.forced = f, !.commit = c, !.texture = t,
                    !.needsRedraw = FALSE, !.drawFailed = FALSE, !.needsFirstDraw = FALSE,
                    !.swapped = w]
    BY Zenon DEF UpdateStateOnDraw
  <2> HIDE DEF r, f, c, t, w
  <2> QED BY <2>1, <2>2, <2>3, ZenonT(90) DEF State
<1>5. SetNeedsForcedCommitForReadback([s EXCEPT !.needsCommit = TRUE]) \in State
  BY DEF SetNeedsForcedCommitForReadback, State, ReadbackState
<1>6. \A didHandle \in BOOLEAN : BeginMainFrameAborted(s, didHandle) \in State
  BY <1>2, SMTT(40), ZenonT(40) DEF BeginMainFrameAborted, State, CommitState
<1>7. ASSUME NEW success \in BOOLEAN PROVE DidDrawIfPossibleCompleted(s, success) \in State
  <2>1. CASE success
    <3>1. "IDLE" \in ForcedRedrawState /\ 0 \in 0..MaxFailedDraws
      BY MaxFailedDrawsAssumption DEF ForcedRedrawState
    <3>2. DidDrawIfPossibleCompleted(s, success) =
            [s EXCEPT !.drawFailed = FALSE, !.failedDraws = 0, !.forced = "IDLE"]
      BY <2>1 DEF DidDrawIfPossibleCompleted
    <3> QED BY <3>1, <3>2, ZenonT(30) DEF State
  <2>2. CASE ~success /\ s.forced # "IDLE"
    <3>1. DidDrawIfPossibleCompleted(s, success) =
            [s EXCEPT !.drawFailed = TRUE, !.needsRedraw = TRUE]
      BY <2>2 DEF DidDrawIfPossibleCompleted
    <3> QED BY <3>1, ZenonT(30) DEF State
  <2>3. CASE ~success /\ s.forced = "IDLE"
    <3> DEFINE force == /\ "timeout_and_draw_when_animation_checkerboards" \in s.settings
                        /\ s.failedDraws + 1 >= MaxFailedDraws
               n == IF force THEN 0
                    ELSE IF s.failedDraws < MaxFailedDraws THEN s.failedDraws + 1
                    ELSE s.failedDraws
               f == IF force THEN "COMMIT" ELSE s.forced
    <3>1. s.failedDraws \in 0..MaxFailedDraws /\ s.forced \in ForcedRedrawState
      BY DEF State
    <3>2. n \in 0..MaxFailedDraws
      BY <3>1, MaxFailedDrawsAssumption
    <3>3. f \in ForcedRedrawState
      BY <3>1 DEF ForcedRedrawState
    <3>4. DidDrawIfPossibleCompleted(s, success) =
            [s EXCEPT !.drawFailed = TRUE, !.needsRedraw = TRUE, !.needsCommit = TRUE,
                      !.failedDraws = n, !.forced = f]
      BY <2>3 DEF DidDrawIfPossibleCompleted
    <3> HIDE DEF n, f
    <3> QED BY <3>2, <3>3, <3>4, ZenonT(30) DEF State
  <2> QED BY <2>1, <2>2, <2>3
<1>8. DidLoseOutputSurface(s) \in State
  <2>1. "LOST" \in OutputSurfaceState /\ "IDLE" \in BeginImplFrameState
    BY DEF OutputSurfaceState, BeginImplFrameState
  <2>2. [s EXCEPT !.outputSurface = "LOST", !.needsRedraw = FALSE, !.frame = "IDLE"] \in State
    BY <2>1, ZenonT(30) DEF State
  <2> QED BY <2>2 DEF DidLoseOutputSurface
<1>9. DidCreateAndInitializeOutputSurface(s) \in State
  <2> DEFINE n == s.needsCommit \/ s.createdFirst
  <2>1. "FIRST_COMMIT" \in OutputSurfaceState /\ n \in BOOLEAN
    BY DEF OutputSurfaceState
  <2>2. DidCreateAndInitializeOutputSurface(s) =
          [s EXCEPT !.outputSurface = "FIRST_COMMIT", !.needsCommit = n, !.createdFirst = TRUE]
    BY DEF DidCreateAndInitializeOutputSurface
  <2> HIDE DEF n
  <2> QED BY <2>1, <2>2, ZenonT(30) DEF State
<1>10. NewFrame(s) \in State
  BY ZenonT(30) DEF NewFrame, State
<1>11. OnBeginImplFrame(s) \in State
  <2>1. "STARTING" \in BeginImplFrameState
    BY DEF BeginImplFrameState
  <2> QED BY <1>10, <2>1 DEF OnBeginImplFrame, State
<1> QED BY <1>1, <1>2, <1>3, <1>4, <1>5, <1>6, <1>7, <1>8, <1>9, <1>10, <1>11

\* A commit changes the state of the scheduler, and the tree may be ready at once.
LEMMA CommitChanges ==
    ASSUME Commit
    PROVE  \E ready \in BOOLEAN :
              sm' = [UpdateStateOnCommit(sm, FALSE) EXCEPT !.readyToActivate = ready]
<1>1. PICK ready \in {FALSE, "impl_side_painting" \in sm.settings} :
              sm' = [UpdateStateOnCommit(sm, FALSE) EXCEPT !.readyToActivate = ready]
  BY Zenon DEF Commit
<1>2. ready \in BOOLEAN
  <2> DEFINE p == "impl_side_painting" \in sm.settings
  <2>0. p \in BOOLEAN
    OBVIOUS
  <2>1. ready \in {FALSE, p} /\ p \in BOOLEAN
    BY <2>0
  <2> HIDE DEF p
  <2> QED BY <2>1
<1> QED BY <1>1, <1>2

\* The rounds of the loop keep the types.
LEMMA LoopTyped ==
    ASSUME TypeOK, Loop
    PROVE  TypeOK'
<1> USE DEF TypeOK, mainVars, proxyVars, Signal, Assert
<1>1. CASE AcquireLayerTexturesForMainThread
  <2>1. [sm EXCEPT !.texture = "MAIN_THREAD", !.needsTextures = FALSE] \in State
    BY ZenonT(30) DEF State, TextureState
  <2> QED BY <1>1, <2>1 DEF AcquireLayerTexturesForMainThread, Completions
<1>2. CASE UpdateVisibleTiles
  BY <1>2, SMTT(40), ZenonT(40) DEF UpdateVisibleTiles, State
<1>3. CASE ActivatePendingTree
  <2>1. UpdateStateOnActivation(sm) \in State
    BY OperatorsTyped
  <2> DEFINE s == UpdateStateOnActivation(sm)
  <2> HIDE DEF s
  <2>2. \A b \in BOOLEAN : [s EXCEPT !.canDraw = b] \in State
    BY <2>1, ZenonT(30) DEF State, s
  <2>3. sm.canDraw \in BOOLEAN /\ surface.renderer \in BOOLEAN
    BY DEF State
  <2>4. sm' \in State
    BY <1>3, <2>2, <2>3 DEF ActivatePendingTree, s
  <2> QED BY <1>3, <2>4 DEF ActivatePendingTree, Completions
<1>4. CASE Commit
  <2>1. UpdateStateOnCommit(sm, FALSE) \in State
    BY OperatorsTyped
  <2> DEFINE s == UpdateStateOnCommit(sm, FALSE)
  <2>2. PICK ready \in BOOLEAN : sm' = [s EXCEPT !.readyToActivate = ready]
    BY <1>4, CommitChanges
  <2> HIDE DEF s
  <2>5. [s EXCEPT !.readyToActivate = ready] \in State
    BY <2>1, ZenonT(30) DEF State, s
  <2>3. main' \in MainState
    BY <1>4 DEF Commit, MainState
  <2>4. events' \subseteq Events /\ signalled' \subseteq Completions
    BY <1>4 DEF Commit, Events, Completions
  <2> QED BY <1>4, <2>2, <2>3, <2>4, <2>5 DEF Commit
<1>5. CASE DrawAndSwapIfPossible
  <2>1. PICK drawn \in BOOLEAN, swapped \in BOOLEAN, incomplete \in BOOLEAN, lost \in BOOLEAN :
          LET s1 == UpdateStateOnDraw(sm, TRUE)
              s2 == IF swapped THEN [s1 EXCEPT !.incompleteTile = incomplete] ELSE s1
              s3 == IF lost THEN DidLoseOutputSurface(s2) ELSE s2
              s4 == DidDrawIfPossibleCompleted(s3, drawn)
          IN  IF lost THEN Lose(s4) ELSE sm' = s4 /\ UNCHANGED <<requested, deadline>>
    BY <1>5, SMTT(40), ZenonT(40) DEF DrawAndSwapIfPossible
  <2> DEFINE s1 == UpdateStateOnDraw(sm, TRUE)
             s2 == IF swapped THEN [s1 EXCEPT !.incompleteTile = incomplete] ELSE s1
             s3 == IF lost THEN DidLoseOutputSurface(s2) ELSE s2
  <2>2. s1 \in State
    BY OperatorsTyped
  <2>3. s2 \in State
    <3> HIDE DEF s1
    <3> QED BY <2>2 DEF State
  <2>4. s3 \in State
    <3> HIDE DEF s2
    <3> QED BY <2>3, OperatorsTyped
  <2>5. DidDrawIfPossibleCompleted(s3, drawn) \in State
    <3> HIDE DEF s3
    <3> QED BY <2>4, OperatorsTyped
  <2>6. sm' \in State /\ requested' \in BOOLEAN /\ deadline' \in BOOLEAN
    BY <2>1, <2>5 DEF Lose
  <2> QED BY <1>5, <2>6 DEF DrawAndSwapIfPossible
<1>6. CASE DrawAndSwapForced
  <2>1. PICK swapped \in BOOLEAN, incomplete \in BOOLEAN, lost \in BOOLEAN :
          LET s1 == UpdateStateOnDraw(sm, TRUE)
              s2 == IF swapped THEN [s1 EXCEPT !.incompleteTile = incomplete] ELSE s1
          IN  IF lost THEN Lose(DidLoseOutputSurface(s2))
              ELSE sm' = s2 /\ UNCHANGED <<requested, deadline>>
    BY <1>6 DEF DrawAndSwapForced
  <2> DEFINE s1 == UpdateStateOnDraw(sm, TRUE)
             s2 == IF swapped THEN [s1 EXCEPT !.incompleteTile = incomplete] ELSE s1
  <2>2. s1 \in State
    BY OperatorsTyped
  <2>3. s2 \in State
    <3> HIDE DEF s1
    <3> QED BY <2>2, SMTT(40), ZenonT(40) DEF State
  <2>4. DidLoseOutputSurface(s2) \in State
    <3> HIDE DEF s2
    <3> QED BY <2>3, OperatorsTyped
  <2>6. sm' \in State /\ requested' \in BOOLEAN /\ deadline' \in BOOLEAN
    BY <2>1, <2>3, <2>4 DEF Lose
  <2> QED BY <1>6, <2>6 DEF DrawAndSwapForced
<1>7. CASE DrawAndSwapAbort
  <2>1. UpdateStateOnDraw(sm, FALSE) \in State
    BY OperatorsTyped
  <2> QED BY <1>7, <2>1 DEF DrawAndSwapAbort
<1>8. CASE DrawAndReadback
  <2>1. UpdateStateOnDraw(sm, FALSE) \in State
    BY OperatorsTyped
  <2>2. DidLoseOutputSurface(UpdateStateOnDraw(sm, FALSE)) \in State
    BY <2>1, OperatorsTyped
  <2>3. sm' \in State /\ requested' \in BOOLEAN /\ deadline' \in BOOLEAN
    BY <1>8, <2>1, <2>2 DEF DrawAndReadback, Lose
  <2>4. events' \subseteq Events /\ signalled' \subseteq Completions
    BY <1>8 DEF DrawAndReadback, Completions
  <2> QED BY <1>8, <2>3, <2>4 DEF DrawAndReadback
<1>9. CASE ManageTiles
  BY <1>9 DEF ManageTiles, State
<1>10. CASE SendBeginMainFrame
  <2>1. OnSendBeginMainFrame(sm) \in State
    BY OperatorsTyped
  <2>2. mainQueue' \in Seq(MainTasks)
    BY <1>10, AppendToQueue DEF SendBeginMainFrame, MainTasks
  <2>3. events' \subseteq Events /\ signalled' \subseteq Completions
    BY <1>10 DEF SendBeginMainFrame, Completions
  <2> QED BY <1>10, <2>1, <2>2, <2>3 DEF SendBeginMainFrame
<1>11. CASE BeginOutputSurfaceCreation
  <2>1. mainQueue' \in Seq(MainTasks)
    BY <1>11, AppendToQueue DEF BeginOutputSurfaceCreation, MainTasks
  <2>2. sm' \in State
    BY <1>11 DEF BeginOutputSurfaceCreation, State, OutputSurfaceState
  <2> QED BY <1>11, <2>1, <2>2 DEF BeginOutputSurfaceCreation
<1>12. CASE EndOfLoop
  <2>1. BeginImplFrameNeeded(sm) \in BOOLEAN
    BY DEF BeginImplFrameNeeded, BeginImplFrameNeededToDraw
  <2>2. requested' \in BOOLEAN /\ poll' \in BOOLEAN
    BY <1>12, <2>1 DEF EndOfLoop, SetupNextBeginImplFrameIfNeeded
  <2>3. surface' \in [needs : BOOLEAN, ready : BOOLEAN, ticking : BOOLEAN, renderer : BOOLEAN]
    BY <1>12, <2>1 DEF EndOfLoop, SetupNextBeginImplFrameIfNeeded
  <2>4. sm' \in State
    BY <1>12, SMTT(40), ZenonT(40) DEF EndOfLoop, State, BeginImplFrameState
  <2>5. deadline' \in BOOLEAN
    BY <1>12 DEF EndOfLoop, ShouldTriggerBeginImplFrameDeadlineEarly
  <2>6. stage' \in Stages
    BY <1>12 DEF EndOfLoop, Stages
  <2>7. events' \subseteq Events /\ signalled' \subseteq Completions
    BY <1>12 DEF EndOfLoop, Events, Completions
  <2> QED BY <1>12, <2>2, <2>3, <2>4, <2>5, <2>6, <2>7 DEF EndOfLoop
<1> QED BY <1>1, <1>2, <1>3, <1>4, <1>5, <1>6, <1>7, <1>8, <1>9, <1>10, <1>11, <1>12 DEF Loop


\* The tasks, timers and callbacks of the impl thread keep the types.
LEMMA ImplTyped ==
    ASSUME TypeOK,
           \/ ImplTask \/ ImplTimer \/ DidLoseOutputSurfaceOnImplThread
           \/ \E call \in ClientCalls : ClientCall(call)
    PROVE  TypeOK'
<1> USE DEF TypeOK, schedulerVars, mainVars, proxyVars, Assert, Process
<1>0. ASSUME NEW task, Task(task) PROVE implQueue' \in Seq(ImplTasks)
  BY <1>0, TailOfQueue DEF Task
<1>1. CASE SetCanStart
  <2>1. sm' \in State
    BY <1>1 DEF SetCanStart, State
  <2> QED BY <1>0, <1>1, <2>1 DEF SetCanStart, Stages
<1>2. CASE SetNeedsCommitOnImplThread
  <2>1. sm' \in State
    BY <1>2 DEF SetNeedsCommitOnImplThread, State
  <2> QED BY <1>0, <1>2, <2>1 DEF SetNeedsCommitOnImplThread, Stages
<1>3. ASSUME NEW visible \in BOOLEAN, SetVisibleOnImplThread(visible) PROVE TypeOK'
  <2>1. sm' \in State
    BY <1>3 DEF SetVisibleOnImplThread, State
  <2> QED BY <1>0, <1>3, <2>1 DEF SetVisibleOnImplThread, Stages
<1>4. CASE ForceCommitForReadbackOnImplThread
  <2>1. sm' \in State
    BY <1>4, OperatorsTyped DEF ForceCommitForReadbackOnImplThread
  <2> QED BY <1>0, <1>4, <2>1 DEF ForceCommitForReadbackOnImplThread, Stages, Events
<1>5. CASE StartCommitOnImplThread
  <2>1. \A evicted \in {FALSE, "impl_side_painting" \notin sm.settings} :
           [sm EXCEPT !.needsCommit = @ \/ evicted] \in State
    BY SMTT(40), ZenonT(40) DEF State
  <2>2. sm' \in State /\ stage' \in Stages
    BY <1>5, <2>1 DEF StartCommitOnImplThread, Stages
  <2> QED BY <1>0, <1>5, <2>2 DEF StartCommitOnImplThread, Events
<1>6. ASSUME NEW didHandle \in BOOLEAN, BeginMainFrameAbortedOnImplThread(didHandle) PROVE TypeOK'
  <2>1. sm' \in State
    BY <1>6, OperatorsTyped DEF BeginMainFrameAbortedOnImplThread
  <2> QED BY <1>0, <1>6, <2>1 DEF BeginMainFrameAbortedOnImplThread, Stages
<1>7. CASE AcquireLayerTexturesForMainThreadOnImplThread
  <2>1. sm' \in State
    BY <1>7 DEF AcquireLayerTexturesForMainThreadOnImplThread, State
  <2> QED BY <1>0, <1>7, <2>1 DEF AcquireLayerTexturesForMainThreadOnImplThread, Stages, Events
<1>8. CASE HasInitializedOutputSurfaceOnImplThread
  <2>1. main' \in MainState
    BY <1>8 DEF HasInitializedOutputSurfaceOnImplThread, MainState, HasInitializedOutputSurface
  <2> QED BY <1>0, <1>8, <2>1 DEF HasInitializedOutputSurfaceOnImplThread, Completions
<1>9. CASE InitializeOutputSurfaceOnImplThread
  <2>1. main' \in MainState
    BY <1>9 DEF InitializeOutputSurfaceOnImplThread, MainState
  <2> DEFINE s == DidCreateAndInitializeOutputSurface(sm)
  <2>2. s \in State
    BY OperatorsTyped
  <2>3. \A b \in BOOLEAN : [s EXCEPT !.canDraw = b] \in State
    <3> HIDE DEF s
    <3> QED BY <2>2, ZenonT(30) DEF State
  <2>4. sm' \in State
    BY <1>9, <2>3 DEF InitializeOutputSurfaceOnImplThread
  <2>5. surface' \in [needs : BOOLEAN, ready : BOOLEAN, ticking : BOOLEAN, renderer : BOOLEAN]
    BY <1>9 DEF InitializeOutputSurfaceOnImplThread
  <2>6. stage' \in Stages /\ signalled' \subseteq Completions
    BY <1>9 DEF InitializeOutputSurfaceOnImplThread, Stages, Completions
  <2> QED BY <1>0, <1>9, <2>1, <2>4, <2>5, <2>6 DEF InitializeOutputSurfaceOnImplThread
<1>10. CASE ReadyToFinalizeTextureUpdates
  <2>1. sm' \in State
    BY <1>10 DEF ReadyToFinalizeTextureUpdates, State, CommitState
  <2> QED BY <1>10, <2>1 DEF ReadyToFinalizeTextureUpdates, Stages
<1>11. CASE BeginImplFrame
  <2>1. sm' \in State
    BY <1>11, OperatorsTyped DEF BeginImplFrame
  <2> QED BY <1>11, <2>1 DEF BeginImplFrame, Stages
<1>12. CASE OnBeginImplFrameDeadline
  <2>1. sm' \in State
    BY <1>12 DEF OnBeginImplFrameDeadline, State, BeginImplFrameState
  <2> QED BY <1>12, <2>1 DEF OnBeginImplFrameDeadline, Stages
<1>13. CASE PollForAnticipatedDrawTriggers
  <2> DEFINE s == NewFrame(sm)
  <2>1. s \in State
    BY OperatorsTyped
  <2>2. [s EXCEPT !.polling = TRUE] \in State
    <3> HIDE DEF s
    <3> QED BY <2>1 DEF State
  <2> QED BY <1>13, <2>2 DEF PollForAnticipatedDrawTriggers, Stages
<1>14. CASE DidLoseOutputSurfaceOnImplThread
  <2>1. sm' \in State
    BY <1>14, OperatorsTyped DEF DidLoseOutputSurfaceOnImplThread, Lose
  <2> QED BY <1>14, <2>1 DEF DidLoseOutputSurfaceOnImplThread, Lose, Stages
<1>15. ASSUME NEW call \in ClientCalls, ClientCall(call) PROVE TypeOK'
  <2>1. Told(call) \in State
    <3>1. surface.renderer \in BOOLEAN /\ (sm.readyToActivate \/ sm.pendingTree) \in BOOLEAN
      BY DEF State
    <3>2. ASSUME NEW b \in BOOLEAN
          PROVE  /\ [sm EXCEPT !.needsRedraw = b] \in State /\ [sm EXCEPT !.needsCommit = b] \in State
                 /\ [sm EXCEPT !.needsManageTiles = b] \in State /\ [sm EXCEPT !.canDraw = b] \in State
                 /\ [sm EXCEPT !.readyToActivate = b] \in State /\ [sm EXCEPT !.smoothness = b] \in State
      <4>0. sm \in State
        BY DEF TypeOK
      <4>1. [sm EXCEPT !.needsRedraw = b] \in State /\ [sm EXCEPT !.needsCommit = b] \in State
        BY <4>0 DEF State
      <4>2. [sm EXCEPT !.needsManageTiles = b] \in State /\ [sm EXCEPT !.canDraw = b] \in State
        BY <4>0 DEF State
      <4>3. [sm EXCEPT !.readyToActivate = b] \in State /\ [sm EXCEPT !.smoothness = b] \in State
        BY <4>0 DEF State
      <4> QED BY <4>1, <4>2, <4>3
    <3> QED BY <3>1, <3>2 DEF Told, ClientCalls
  <2> QED BY <1>15, <2>1 DEF ClientCall, Stages
<1> QED BY <1>1, <1>2, <1>3, <1>4, <1>5, <1>6, <1>7, <1>8, <1>9, <1>10, <1>11, <1>12, <1>13, <1>14,
           <1>15 DEF ImplTask, ImplTimer

\* Members the main thread changes.
LEMMA MainStates ==
    ASSUME NEW m \in MainState
    PROVE  /\ [m EXCEPT !.inReadback = FALSE] \in MainState
           /\ [m EXCEPT !.inReadback = TRUE] \in MainState
           /\ [m EXCEPT !.surfaceLost = FALSE] \in MainState
           /\ \A attempts \in 0..MaxRecreate : \A b \in BOOLEAN :
                [m EXCEPT !.attempts = attempts, !.canBeInitialized = b] \in MainState
           /\ \A again, animate, resend \in BOOLEAN : Painted(m, again, animate, resend) \in MainState
<1>1. /\ [m EXCEPT !.inReadback = FALSE] \in MainState
      /\ [m EXCEPT !.inReadback = TRUE] \in MainState
      /\ [m EXCEPT !.surfaceLost = FALSE] \in MainState
  BY DEF MainState
<1>2. \A attempts \in 0..MaxRecreate : \A b \in BOOLEAN :
         [m EXCEPT !.attempts = attempts, !.canBeInitialized = b] \in MainState
  BY ZenonT(30) DEF MainState
<1>3. ASSUME NEW again \in BOOLEAN, NEW animate \in BOOLEAN, NEW resend \in BOOLEAN
      PROVE  Painted(m, again, animate, resend) \in MainState
  <2>1. (~resend) \in BOOLEAN
    OBVIOUS
  <2> DEFINE c == ~resend
  <2>2. Painted(m, again, animate, resend) =
          [m EXCEPT !.commitRequested = again, !.requestSent = resend,
                    !.animateRequested = animate, !.canCancel = c, !.texturesAcquired = FALSE]
    BY DEF Painted
  <2> HIDE DEF c
  <2>3. c \in BOOLEAN
    BY <2>1 DEF c
  <2> QED BY <2>2, <2>3, ZenonT(30) DEF MainState
<1> QED BY <1>1, <1>2, <1>3

\* What is posted, and what the main thread goes on as, have their types.
LEMMA PostTyped ==
    ASSUME TypeOK, NEW tasks \in Seq(ImplTasks), NEW next \in PCs, NEW m \in MainState,
           Post(tasks, next, m)
    PROVE  implQueue' \in Seq(ImplTasks) /\ pc' \in PCs /\ main' \in MainState
<1>1. implQueue \o tasks \in Seq(ImplTasks)
  BY ConcatProperties DEF TypeOK
<1> QED BY <1>1 DEF Post


\* One task is a queue, and tasks followed by one are.
LEMMA TasksTyped ==
    /\ <<>> \in Seq(ImplTasks)
    /\ \A task \in ImplTasks : <<task>> \in Seq(ImplTasks)
    /\ \A tasks \in Seq(ImplTasks) : \A task \in ImplTasks : tasks \o <<task>> \in Seq(ImplTasks)
<1>1. <<>> \in Seq(ImplTasks) /\ \A task \in ImplTasks : <<task>> \in Seq(ImplTasks)
  BY ShortQueues
<1>2. ASSUME NEW tasks \in Seq(ImplTasks), NEW task \in ImplTasks
      PROVE  tasks \o <<task>> \in Seq(ImplTasks)
  BY <1>1, ConcatProperties
<1> QED BY <1>1, <1>2

\* So do the parts of the creation of an output surface.
LEMMA SurfaceReturnsTyped ==
    ASSUME TypeOK, NEW tasks \in Seq(ImplTasks), NEW m \in MainState, SurfaceReturns(tasks, m)
    PROVE  implQueue' \in Seq(ImplTasks) /\ pc' \in PCs /\ main' \in MainState
<1>1. CASE m.inReadback /\ ~m.surfaceLost
  <2>1. Post(tasks \o <<"ForceCommitForReadback">>, "sent", m)
    BY <1>1 DEF SurfaceReturns
  <2>2. tasks \o <<"ForceCommitForReadback">> \in Seq(ImplTasks) /\ "sent" \in PCs
    BY TasksTyped DEF ImplTasks, PCs
  <2> QED BY <2>1, <2>2, PostTyped
<1>2. CASE ~(m.inReadback /\ ~m.surfaceLost)
  <2>1. Post(tasks, "idle", [m EXCEPT !.inReadback = FALSE])
    BY <1>2 DEF SurfaceReturns
  <2>2. [m EXCEPT !.inReadback = FALSE] \in MainState /\ "idle" \in PCs
    BY MainStates DEF PCs
  <2> QED BY <2>1, <2>2, PostTyped
<1> QED BY <1>1, <1>2

LEMMA FailsTyped ==
    ASSUME TypeOK, NEW tasks \in Seq(ImplTasks), NEW m \in MainState, Fails(tasks, m)
    PROVE  /\ implQueue' \in Seq(ImplTasks) /\ pc' \in PCs /\ main' \in MainState
           /\ mainQueue' \in Seq(MainTasks)
<1> DEFINE gaveUp == m.attempts + 1 >= MaxRecreate
           n == IF gaveUp THEN MaxRecreate ELSE m.attempts + 1
           b == m.canBeInitialized /\ ~gaveUp
           f == [m EXCEPT !.attempts = n, !.canBeInitialized = b]
<1>1. n \in 0..MaxRecreate
  <2>1. m.attempts \in 0..MaxRecreate
    BY DEF MainState
  <2> QED BY <2>1, CompositorsAssumption
<1>2. b \in BOOLEAN
  BY DEF MainState
<1>3. f \in MainState
  <2> HIDE DEF n, b
  <2> QED BY <1>1, <1>2, MainStates
<1>4. SurfaceReturns(tasks, f)
  BY DEF Fails
<1>5. WithoutRetry \in Seq(MainTasks)
  BY WithoutRetryQueue DEF TypeOK
<1>6. Append(WithoutRetry, "Retry") \in Seq(MainTasks)
  BY <1>5, AppendToQueue DEF MainTasks
<1>7. mainQueue' \in Seq(MainTasks)
  BY <1>5, <1>6 DEF Fails
<1> HIDE DEF f
<1> QED BY <1>3, <1>4, <1>7, SurfaceReturnsTyped

LEMMA DoCreateTyped ==
    ASSUME TypeOK, NEW tasks \in Seq(ImplTasks), NEW m \in MainState, DoCreate(tasks, m)
    PROVE  /\ implQueue' \in Seq(ImplTasks) /\ pc' \in PCs /\ main' \in MainState
           /\ mainQueue' \in Seq(MainTasks)
<1>1. CASE Post(tasks \o <<"InitializeOutputSurface">>, "init", m) /\ mainQueue' = WithoutRetry
  <2>1. tasks \o <<"InitializeOutputSurface">> \in Seq(ImplTasks) /\ "init" \in PCs
    BY TasksTyped DEF ImplTasks, PCs
  <2>2. mainQueue' \in Seq(MainTasks)
    BY <1>1, WithoutRetryQueue DEF TypeOK
  <2> QED BY <1>1, <2>1, <2>2, PostTyped
<1>2. CASE Fails(tasks, m)
  BY <1>2, FailsTyped
<1> QED BY <1>1, <1>2 DEF DoCreate

\* And so does painting.
LEMMA PaintTyped ==
    ASSUME TypeOK, Paint
    PROVE  implQueue' \in Seq(ImplTasks) /\ pc' \in PCs /\ main' \in MainState
<1>1. PICK animate \in BOOLEAN, commit \in BOOLEAN, again \in BOOLEAN, updated \in BOOLEAN :
        LET canCancel == main.canCancel /\ ~animate /\ ~commit /\ ~main.inReadback
            aborts == ~updated /\ canCancel
            resend == Resend(again, animate, aborts)
        IN  /\ Assert("update", ~main.surfaceLost)
            /\ Post((IF resend THEN <<"SetNeedsCommit">> ELSE <<>>)
                      \o <<IF aborts THEN "AbortHandled" ELSE "StartCommit">>,
                    IF aborts THEN "idle" ELSE "commit",
                    Painted(main, again, animate, resend))
  BY Zenon DEF Paint
<1> DEFINE aborts == ~updated /\ (main.canCancel /\ ~animate /\ ~commit /\ ~main.inReadback)
           resend == Resend(again, animate, aborts)
           first == IF resend THEN <<"SetNeedsCommit">> ELSE <<>>
           last == IF aborts THEN "AbortHandled" ELSE "StartCommit"
           next == IF aborts THEN "idle" ELSE "commit"
           m == Painted(main, again, animate, resend)
<1>2. Post(first \o <<last>>, next, m)
  BY <1>1
<1>3. first \in Seq(ImplTasks) /\ last \in ImplTasks /\ next \in PCs
  <2>1. "SetNeedsCommit" \in ImplTasks /\ last \in ImplTasks /\ next \in PCs
    BY DEF ImplTasks, PCs
  <2> HIDE DEF resend
  <2> QED BY <2>1, TasksTyped
<1>4. resend \in BOOLEAN
  BY DEF Resend
<1>5. m \in MainState
  <2> HIDE DEF resend
  <2> QED BY <1>4, MainStates DEF TypeOK
<1> HIDE DEF first, last, next, m
<1>6. first \o <<last>> \in Seq(ImplTasks)
  BY <1>3, TasksTyped
<1> QED BY <1>2, <1>3, <1>5, <1>6, PostTyped

\* The steps of the main thread keep the types.
LEMMA MainTyped ==
    ASSUME TypeOK, MainReturns \/ MainRuns \/ Embedder
    PROVE  TypeOK'
<1> DEFINE Posted == implQueue' \in Seq(ImplTasks) /\ pc' \in PCs /\ main' \in MainState
<1>0. ASSUME Posted, mainQueue' \in Seq(MainTasks), signalled' \subseteq Completions,
             UNCHANGED <<schedulerVars, proxyVars>>
      PROVE  TypeOK'
  BY <1>0 DEF TypeOK, schedulerVars, proxyVars
<1> HIDE DEF Posted
<1> USE DEF TypeOK
<1>1. ASSUME NEW event, Resume(event) PROVE signalled' \subseteq Completions
  BY <1>1 DEF Resume
<1>2. ASSUME NEW task, MainTask(task) PROVE mainQueue' \in Seq(MainTasks)
  BY <1>2, TailOfQueue DEF MainTask
<1>3. \A m \in MainState : CommitRequest(m) \in Seq(ImplTasks)
  BY TasksTyped DEF CommitRequest, ImplTasks
<1>4. ASSUME NEW tasks \in Seq(ImplTasks), NEW next \in PCs, NEW m \in MainState,
             Post(tasks, next, m)
      PROVE  Posted
  BY <1>4, PostTyped DEF Posted
<1>5. /\ <<>> \in Seq(ImplTasks)
      /\ \A task \in ImplTasks : <<task>> \in Seq(ImplTasks)
      /\ "idle" \in PCs
  BY TasksTyped DEF PCs
<1>6. CASE SetVisibleReturns
  BY <1>0, <1>1, <1>4, <1>5, <1>6 DEF SetVisibleReturns
<1>7. CASE AcquireLayerTexturesReturns
  <2>1. [main EXCEPT !.texturesAcquired = TRUE, !.canCancel = FALSE] \in MainState
    BY ZenonT(30) DEF MainState
  <2> QED BY <1>0, <1>1, <1>4, <1>5, <1>7, <2>1 DEF AcquireLayerTexturesReturns
<1>8. CASE BeginMainFrameReturns
  <2>1. [main EXCEPT !.canCancel = FALSE] \in MainState /\ "readback" \in PCs
    BY DEF MainState, PCs
  <2> QED BY <1>0, <1>1, <1>4, <1>5, <1>8, <2>1 DEF BeginMainFrameReturns
<1>9. CASE BeginMainFrameSent
  BY <1>0, <1>1, <1>9, PaintTyped DEF BeginMainFrameSent, Posted
<1>10. CASE CompositeAndReadbackReturns
  BY <1>0, <1>1, <1>4, <1>5, <1>10, MainStates DEF CompositeAndReadbackReturns
<1>11. CASE HasInitializedReturns
  <2> DEFINE newlyLost == ~main.surfaceLost
             ask == IF newlyLost /\ ~main.commitRequested THEN CommitRequest(main) ELSE <<>>
             sent == main.requestSent \/ ~main.commitRequested
             lost == IF newlyLost
                     THEN [main EXCEPT !.surfaceLost = TRUE, !.attempts = 0, !.canCancel = FALSE,
                                       !.commitRequested = TRUE, !.requestSent = sent]
                     ELSE main
  <2>1. ask \in Seq(ImplTasks)
    BY <1>3, <1>5
  <2>2. sent \in BOOLEAN /\ 0 \in 0..MaxRecreate
    BY CompositorsAssumption DEF MainState
  <2>3. lost \in MainState
    <3> HIDE DEF sent
    <3>1. [main EXCEPT !.surfaceLost = TRUE, !.attempts = 0, !.canCancel = FALSE,
                       !.commitRequested = TRUE, !.requestSent = sent] \in MainState
      BY <2>2, ZenonT(30) DEF MainState
    <3> QED BY <3>1
  <2>4. IF main.reply THEN SurfaceReturns(<<>>, main) /\ UNCHANGED mainQueue
                      ELSE DoCreate(ask, lost)
    BY <1>11 DEF HasInitializedReturns
  <2> HIDE DEF ask, lost
  <2>5. Posted /\ mainQueue' \in Seq(MainTasks)
    BY <1>5, <2>1, <2>3, <2>4, SurfaceReturnsTyped, DoCreateTyped DEF Posted
  <2> QED BY <1>0, <1>1, <1>11, <2>5 DEF HasInitializedReturns
<1>12. CASE InitializeReturns
  <2>1. IF main.reply
        THEN SurfaceReturns(<<>>, [main EXCEPT !.surfaceLost = FALSE]) /\ mainQueue' = WithoutRetry
        ELSE Fails(<<>>, main)
    BY <1>12 DEF InitializeReturns
  <2>2. [main EXCEPT !.surfaceLost = FALSE] \in MainState
    BY MainStates
  <2>3. Posted /\ mainQueue' \in Seq(MainTasks)
    BY <1>5, <2>1, <2>2, SurfaceReturnsTyped, FailsTyped, WithoutRetryQueue DEF Posted
  <2> QED BY <1>0, <1>1, <1>12, <2>3 DEF InitializeReturns
<1>13. CASE BeginMainFrame
  <2>1. CASE main.deferCommits
    <3>1. [main EXCEPT !.deferred = TRUE] \in MainState
      BY DEF MainState
    <3> QED BY <1>0, <1>2, <1>4, <1>5, <1>13, <2>1, <3>1 DEF BeginMainFrame
  <2>2. CASE ~main.deferCommits /\ ~main.visible
    <3>1. [main EXCEPT !.commitRequested = FALSE, !.requestSent = FALSE,
                       !.animateRequested = FALSE] \in MainState /\ "AbortUnhandled" \in ImplTasks
      BY DEF MainState, ImplTasks
    <3> QED BY <1>0, <1>2, <1>4, <1>5, <1>13, <2>2, <3>1 DEF BeginMainFrame
  <2>3. CASE ~main.deferCommits /\ main.visible
    <3>1. Posted
      BY <1>13, <2>3, PaintTyped DEF BeginMainFrame, Posted
    <3> QED BY <1>0, <1>2, <1>13, <3>1 DEF BeginMainFrame
  <2> QED BY <2>1, <2>2, <2>3 DEF MainState
<1>14. CASE CreateAndInitializeOutputSurface
  <2>1. "HasInitializedOutputSurface" \in ImplTasks /\ "has" \in PCs
    BY DEF ImplTasks, PCs
  <2> QED BY <1>0, <1>2, <1>4, <1>5, <1>14, <2>1 DEF CreateAndInitializeOutputSurface
<1>15. CASE Retry
  <2>1. Posted /\ mainQueue' \in Seq(MainTasks)
    BY <1>5, <1>15, DoCreateTyped DEF Retry, Posted
  <2> QED BY <1>0, <1>15, <2>1 DEF Retry
<1>16. CASE SetNeedsCommit
  <2> DEFINE m == [main EXCEPT !.canCancel = FALSE]
             n == [m EXCEPT !.commitRequested = TRUE, !.requestSent = TRUE]
  <2>1. m \in MainState
    BY DEF MainState
  <2>2. n \in MainState
    <3> HIDE DEF m
    <3> QED BY <2>1 DEF MainState
  <2>3. IF main.commitRequested THEN Post(<<>>, "idle", m) ELSE Post(CommitRequest(m), "idle", n)
    BY <1>16 DEF SetNeedsCommit
  <2> HIDE DEF m, n
  <2>4. Posted
    BY <1>3, <1>4, <1>5, <2>1, <2>2, <2>3
  <2> QED BY <1>0, <1>16, <2>4 DEF SetNeedsCommit
<1>17. CASE SetNeedsAnimate
  <2>1. [main EXCEPT !.animateRequested = TRUE, !.canCancel = FALSE, !.requestSent = TRUE]
           \in MainState
    BY ZenonT(30) DEF MainState
  <2> QED BY <1>0, <1>3, <1>4, <1>5, <1>17, <2>1 DEF SetNeedsAnimate
<1>18. CASE SetNeedsUpdateLayers
  <2>1. [main EXCEPT !.requestSent = TRUE] \in MainState
    BY DEF MainState
  <2> QED BY <1>0, <1>3, <1>4, <1>5, <1>18, <2>1 DEF SetNeedsUpdateLayers
<1>19. CASE SetVisible
  <2>0. \A b \in BOOLEAN : [main EXCEPT !.visible = b] \in MainState
    BY ZenonT(30) DEF MainState
  <2>1. [main EXCEPT !.visible = ~@] \in MainState
    BY <2>0, (~main.visible) \in BOOLEAN
  <2>2. (IF main.visible THEN "Hide" ELSE "Show") \in ImplTasks /\ "visible" \in PCs
    BY DEF ImplTasks, PCs
  <2>3. <<IF main.visible THEN "Hide" ELSE "Show">> \in Seq(ImplTasks)
    BY <1>5, <2>2
  <2>4. Posted
    BY <1>4, <1>19, <2>1, <2>2, <2>3 DEF SetVisible
  <2> QED BY <1>0, <1>19, <2>4 DEF SetVisible
<1>20. CASE AcquireLayerTextures
  <2>1. "AcquireLayerTextures" \in ImplTasks /\ "textures" \in PCs
    BY DEF ImplTasks, PCs
  <2> QED BY <1>0, <1>4, <1>5, <1>20, <2>1 DEF AcquireLayerTextures
<1>21. CASE SetNextCommitWaitsForActivation
  <2>1. [main EXCEPT !.waitsForActivation = TRUE] \in MainState
    BY DEF MainState
  <2> QED BY <1>0, <1>4, <1>5, <1>21, <2>1 DEF SetNextCommitWaitsForActivation
<1>22. CASE SetDeferCommits
  <2>0. \A b \in BOOLEAN : [main EXCEPT !.deferCommits = b, !.deferred = FALSE] \in MainState
    BY ZenonT(30) DEF MainState
  <2>1. [main EXCEPT !.deferCommits = ~@, !.deferred = FALSE] \in MainState
    BY <2>0, (~main.deferCommits) \in BOOLEAN
  <2>2. Append(mainQueue, "BeginMainFrame") \in Seq(MainTasks)
    BY AppendToQueue DEF MainTasks
  <2>3. mainQueue' \in Seq(MainTasks)
    BY <1>22, <2>2 DEF SetDeferCommits
  <2>4. Posted
    BY <1>4, <1>5, <1>22, <2>1 DEF SetDeferCommits
  <2> QED BY <1>0, <1>22, <2>3, <2>4 DEF SetDeferCommits
<1>23. CASE CompositeAndReadback
  <2>1. /\ {"HasInitializedOutputSurface", "ForceCommitForReadback"} \subseteq ImplTasks
        /\ "has" \in PCs /\ "sent" \in PCs /\ [main EXCEPT !.inReadback = TRUE] \in MainState
    BY MainStates DEF ImplTasks, PCs
  <2>2. Posted
    BY <1>4, <1>5, <1>23, <2>1 DEF CompositeAndReadback
  <2> QED BY <1>0, <1>23, <2>2 DEF CompositeAndReadback
<1> QED BY <1>6, <1>7, <1>8, <1>9, <1>10, <1>11, <1>12, <1>13, <1>14, <1>15, <1>16, <1>17, <1>18,
           <1>19, <1>20, <1>21, <1>22, <1>23 DEF MainReturns, MainRuns, Embedder


\* A step of any kind keeps the types.
LEMMA NextTyped ==
    ASSUME TypeOK, [Next]_vars
    PROVE  TypeOK'
<1>1. CASE UNCHANGED vars
  BY <1>1 DEF vars, TypeOK, schedulerVars, proxyVars, mainVars
<1>2. CASE Next
  BY <1>2, LoopTyped, ImplTyped, MainTyped DEF Next
<1> QED BY <1>1, <1>2

LEMMA InitTyped == Init => TypeOK
<1> SUFFICES ASSUME Init PROVE TypeOK
  OBVIOUS
<1>1. PICK c \in Compositors :
        /\ sm = [InitialState(c.settings) EXCEPT !.visible = TRUE]
        /\ main = [calls |-> c.calls,
                   commitRequested |-> FALSE, requestSent |-> FALSE, animateRequested |-> FALSE,
                   canCancel |-> TRUE, texturesAcquired |-> TRUE, deferCommits |-> FALSE,
                   deferred |-> FALSE, visible |-> TRUE, surfaceLost |-> TRUE,
                   canBeInitialized |-> TRUE, attempts |-> 0, inReadback |-> FALSE,
                   waitsForActivation |-> FALSE, reply |-> FALSE]
  BY DEF Init
<1>2. c.settings \in SUBSET Settings /\ c.calls \in SUBSET Calls
  BY CompositorsAssumption
<1>3. main \in MainState
  <2>1. 0 \in 0..MaxRecreate
    BY CompositorsAssumption
  <2> QED BY <1>1, <1>2, <2>1 DEF MainState
<1>4. sm \in State
  <2>1. /\ "LOST" \in OutputSurfaceState /\ "IDLE" \in BeginImplFrameState /\ "IDLE" \in CommitState
        /\ "UNLOCKED" \in TextureState /\ "IDLE" \in ReadbackState /\ "IDLE" \in ForcedRedrawState
        /\ 0 \in 0..MaxFailedDraws
    BY MaxFailedDrawsAssumption DEF OutputSurfaceState, BeginImplFrameState, CommitState,
                                    TextureState, ReadbackState, ForcedRedrawState
  <2>2. InitialState(c.settings) \in State
    BY <1>2, <2>1 DEF InitialState, State
  <2> DEFINE s == InitialState(c.settings)
  <2> HIDE DEF s
  <2>3. [s EXCEPT !.visible = TRUE] \in State
    BY <2>2 DEF State, s
  <2> QED BY <1>1, <2>3 DEF s
<1>5. implQueue \in Seq(ImplTasks)
  BY TasksTyped DEF Init, ImplTasks
<1>6. mainQueue \in Seq(MainTasks)
  BY ShortQueues DEF Init
<1> QED BY <1>3, <1>4, <1>5, <1>6 DEF Init, TypeOK, Stages, PCs

\* The state of the scheduler, of the proxy and of the two message loops has its
\* types, whatever the settings and the calls.
THEOREM TypeCorrect == Spec => []TypeOK
<1>1. Init => TypeOK
  BY InitTyped
<1>2. TypeOK /\ [Next]_vars => TypeOK'
  BY NextTyped
<1> QED BY <1>1, <1>2, PTL DEF Spec

-----------------------------------------------------------------------------
(* What is shown *)

\* A round that draws to the screen does so with textures the impl thread may use,
\* and with a tree that is not a readback's.
LEMMA DrawsAllowed ==
    ASSUME NextAction(sm) \in {"DRAW_AND_SWAP_IF_POSSIBLE", "DRAW_AND_SWAP_FORCED"}
    PROVE  /\ sm.texture # "MAIN_THREAD"
           /\ sm.readback # "DRAW_AND_READBACK" /\ ~AwaitsReplacement(sm)
           /\ sm.frame = "INSIDE_DEADLINE" /\ sm.canDraw /\ sm.visible
<1>1. ShouldDraw(sm) /\ DrawAction(sm) \in {"DRAW_AND_SWAP_IF_POSSIBLE", "DRAW_AND_SWAP_FORCED"}
  BY DEF NextAction
<1>2. sm.readback # "DRAW_AND_READBACK" /\ ~PendingDrawsShouldBeAborted(sm)
  BY <1>1 DEF DrawAction
<1> QED BY <1>1, <1>2 DEF ShouldDraw, PendingDrawsShouldBeAborted, PendingActivationsShouldBeForced

\* Any other step leaves a frame that was not swapped unswapped.
LEMMA OnlyDrawsSwap ==
    ASSUME TypeOK, Next, ~DrawAndSwapIfPossible, ~DrawAndSwapForced, ~sm.swapped
    PROVE  ~sm'.swapped
<1> USE DEF TypeOK
<1>1. CASE Loop
  <2>1. CASE AcquireLayerTexturesForMainThread
    BY <2>1 DEF AcquireLayerTexturesForMainThread, State
  <2>2. CASE UpdateVisibleTiles
    BY <2>2 DEF UpdateVisibleTiles, State
  <2>3. CASE ActivatePendingTree
    BY <2>3 DEF ActivatePendingTree, UpdateStateOnActivation, State
  <2>4. CASE Commit
    <3> DEFINE s == UpdateStateOnCommit(sm, FALSE)
    <3>1. s \in State
      BY OperatorsTyped
    <3>2. s.swapped = (sm.swapped /\ ~sm.drawFailed)
      BY DEF UpdateStateOnCommit, State
    <3>3. PICK ready \in BOOLEAN : sm' = [s EXCEPT !.readyToActivate = ready]
      BY <2>4, CommitChanges
    <3> HIDE DEF s
    <3> QED BY <3>1, <3>2, <3>3 DEF State
  <2>5. CASE DrawAndSwapAbort
    BY <2>5 DEF DrawAndSwapAbort, UpdateStateOnDraw, State
  <2>6. CASE DrawAndReadback
    <3> DEFINE s == UpdateStateOnDraw(sm, FALSE)
    <3>1. s \in State
      BY OperatorsTyped
    <3>2. ~s.swapped
      BY DEF UpdateStateOnDraw, State
    <3>3. sm' = s \/ sm' = DidLoseOutputSurface(s)
      BY <2>6 DEF DrawAndReadback, Lose
    <3> HIDE DEF s
    <3> QED BY <3>1, <3>2, <3>3 DEF DidLoseOutputSurface, State
  <2>7. CASE ManageTiles
    BY <2>7 DEF ManageTiles, State
  <2>8. CASE SendBeginMainFrame
    BY <2>8 DEF SendBeginMainFrame, OnSendBeginMainFrame, State
  <2>9. CASE BeginOutputSurfaceCreation
    BY <2>9 DEF BeginOutputSurfaceCreation, State
  <2>10. CASE EndOfLoop
    BY <2>10 DEF EndOfLoop, State
  <2> QED BY <1>1, <2>1, <2>2, <2>3, <2>4, <2>5, <2>6, <2>7, <2>8, <2>9, <2>10 DEF Loop
<1>2. CASE ImplTask
  <2>1. CASE SetCanStart
    BY <2>1 DEF SetCanStart, State
  <2>2. CASE SetNeedsCommitOnImplThread
    BY <2>2 DEF SetNeedsCommitOnImplThread, State
  <2>3. ASSUME NEW visible \in BOOLEAN, SetVisibleOnImplThread(visible) PROVE ~sm'.swapped
    BY <2>3 DEF SetVisibleOnImplThread, State
  <2>4. CASE ForceCommitForReadbackOnImplThread
    BY <2>4 DEF ForceCommitForReadbackOnImplThread, SetNeedsForcedCommitForReadback, State
  <2>5. CASE StartCommitOnImplThread
    BY <2>5 DEF StartCommitOnImplThread, State
  <2>6. ASSUME NEW didHandle \in BOOLEAN, BeginMainFrameAbortedOnImplThread(didHandle)
        PROVE  ~sm'.swapped
    BY <2>6 DEF BeginMainFrameAbortedOnImplThread, BeginMainFrameAborted, UpdateStateOnCommit, State
  <2>7. CASE AcquireLayerTexturesForMainThreadOnImplThread
    BY <2>7 DEF AcquireLayerTexturesForMainThreadOnImplThread, State
  <2>8. CASE HasInitializedOutputSurfaceOnImplThread
    BY <2>8 DEF HasInitializedOutputSurfaceOnImplThread, schedulerVars
  <2>9. CASE InitializeOutputSurfaceOnImplThread
    BY <2>9 DEF InitializeOutputSurfaceOnImplThread, DidCreateAndInitializeOutputSurface, State
  <2> QED BY <1>2, <2>1, <2>2, <2>3, <2>4, <2>5, <2>6, <2>7, <2>8, <2>9 DEF ImplTask
<1>3. CASE ImplTimer
  BY <1>3 DEF ImplTimer, ReadyToFinalizeTextureUpdates, BeginImplFrame, OnBeginImplFrameDeadline,
              PollForAnticipatedDrawTriggers, OnBeginImplFrame, NewFrame, State
<1>4. CASE MainReturns \/ MainRuns \/ Embedder
  <2>1. UNCHANGED sm
    BY <1>4 DEF MainReturns, MainRuns, Embedder, schedulerVars, SetVisibleReturns,
         AcquireLayerTexturesReturns, BeginMainFrameReturns, BeginMainFrameSent,
         CompositeAndReadbackReturns, HasInitializedReturns, InitializeReturns, BeginMainFrame,
         CreateAndInitializeOutputSurface, Retry, SetNeedsCommit, SetNeedsAnimate,
         SetNeedsUpdateLayers, SetVisible, AcquireLayerTextures, SetNextCommitWaitsForActivation,
         SetDeferCommits, CompositeAndReadback
  <2> QED BY <2>1
<1>5. CASE DidLoseOutputSurfaceOnImplThread
  BY <1>5 DEF DidLoseOutputSurfaceOnImplThread, Lose, DidLoseOutputSurface, State
<1>6. ASSUME NEW call \in ClientCalls, ClientCall(call) PROVE ~sm'.swapped
  BY <1>6 DEF ClientCall, Told, ClientCalls, State
<1> QED BY <1>1, <1>2, <1>3, <1>4, <1>5, <1>6 DEF Next

-----------------------------------------------------------------------------
(* Lemmas: what the operators of the state machine do to the pipeline *)

\* A commit takes the frame that was in progress out of the main thread's hands and
\* gives it to a tree, to a draw, or to nobody.
CommittedTo(s, t) ==
    /\ PipeInv(t)
    /\ ~CommitPending(t) /\ t.texture # "MAIN_THREAD"
    /\ t.frame = s.frame /\ t.polling = s.polling /\ t.needsTextures = s.needsTextures
    /\ s.needsCommit => t.needsCommit
    /\ HasInitializedOutputSurface(t) = HasInitializedOutputSurface(s)
    /\ s.readback = "COMMIT" => t.readback \in {"ACTIVATION", "DRAW_AND_READBACK"}
    /\ s.readback # "COMMIT" => t.readback \in {"IDLE", "REPLACEMENT_ACTIVATION"}

LEMMA CommitEffect ==
    ASSUME NEW s \in State, NEW aborted \in BOOLEAN, PipeInv(s), CommitPending(s),
           CommitAllowed(s), aborted => s.readback # "COMMIT"
    PROVE  CommittedTo(s, UpdateStateOnCommit(s, aborted))
<1> DEFINE t == UpdateStateOnCommit(s, aborted)
           tree == "impl_side_painting" \in s.settings /\ ~aborted
           readback == CASE s.readback = "COMMIT" ->
                              IF tree THEN "ACTIVATION" ELSE "DRAW_AND_READBACK"
                         [] s.readback = "REPLACEMENT_COMMIT" ->
                              IF tree THEN "REPLACEMENT_ACTIVATION" ELSE "IDLE"
                         [] OTHER -> s.readback
           forced == IF Advances(readback) /\ s.forced = "COMMIT"
                     THEN IF tree THEN "ACTIVATION" ELSE "DRAW"
                     ELSE s.forced
           first == Advances(readback) /\ s.outputSurface = "FIRST_COMMIT"
           waits == ~aborted \/ readback # "IDLE" \/ forced # "IDLE"
<1>1. /\ t.pendingTree = tree /\ t.readback = readback /\ t.forced = forced
      /\ t.outputSurface = (IF ~first THEN s.outputSurface
                            ELSE IF tree THEN "FIRST_ACTIVATION" ELSE "ACTIVE")
      /\ t.commit = (IF waits THEN "WAITING_FOR_FIRST_DRAW" ELSE "IDLE")
      /\ t.texture \in {"IMPL_THREAD", "UNLOCKED"}
      /\ t.frame = s.frame /\ t.polling = s.polling /\ t.needsTextures = s.needsTextures
      /\ t.needsCommit = s.needsCommit
  BY DEF UpdateStateOnCommit, State
<1> HIDE DEF t
<1>2. s.readback \in {"IDLE", "COMMIT", "REPLACEMENT_COMMIT"} /\ ~s.pendingTree
  BY DEF PipeInv, CommitAllowed, CommitPending
<1>3. s.forced \in {"IDLE", "COMMIT"} /\ s.outputSurface # "FIRST_ACTIVATION"
  BY <1>2 DEF PipeInv, CommitPending, State, ForcedRedrawState
<1>4. /\ s.readback = "COMMIT" => readback \in {"ACTIVATION", "DRAW_AND_READBACK"}
      /\ s.readback # "COMMIT" => readback \in {"IDLE", "REPLACEMENT_ACTIVATION"}
      /\ readback \in {"ACTIVATION", "REPLACEMENT_ACTIVATION"} => tree
      /\ readback = "DRAW_AND_READBACK" => ~tree /\ s.readback = "COMMIT"
      /\ tree => ~aborted
      /\ s.readback = "COMMIT" => ~aborted
  BY <1>2
<1>5. /\ forced = "ACTIVATION" => tree /\ Advances(readback)
      /\ forced = "DRAW" => ~tree /\ Advances(readback)
  BY <1>3
<1>6. HasInitializedOutputSurface(t) = HasInitializedOutputSurface(s)
  BY <1>1 DEF HasInitializedOutputSurface
<1>7. ~CommitPending(t)
  BY <1>1 DEF CommitPending
<1>8. (tree \/ readback # "IDLE" \/ forced # "IDLE") => t.commit = "WAITING_FOR_FIRST_DRAW"
  BY <1>1, <1>4
<1>9. t.outputSurface = "FIRST_ACTIVATION" => tree
  BY <1>1, <1>3
<1>10. PipeInv(t)
  <2> HIDE DEF tree, readback, forced
  <2> QED BY <1>1, <1>4, <1>5, <1>7, <1>8, <1>9 DEF PipeInv, Advances
<1> QED BY <1>1, <1>4, <1>6, <1>7, <1>10 DEF CommittedTo, t

\* A draw ends what waited for it; after a readback the frame behind it goes on.
DrawnTo(s, t) ==
    /\ PipeInv(t)
    /\ t.texture = IF s.texture = "IMPL_THREAD" THEN "UNLOCKED" ELSE s.texture
    /\ t.polling = s.polling /\ t.needsTextures = s.needsTextures
    /\ s.needsCommit => t.needsCommit
    /\ IF s.readback = "DRAW_AND_READBACK"
       THEN t.readback = "REPLACEMENT_COMMIT" /\ t.commit = "FRAME_IN_PROGRESS"
       ELSE /\ t.readback = s.readback
            /\ t.commit = s.commit \/ (s.commit = "WAITING_FOR_FIRST_DRAW" /\ t.commit = "IDLE")

\* The surface stays, or the context was found lost.
KeepsSurface(s, t) == t.outputSurface = s.outputSurface /\ t.frame = s.frame
LosesSurface(s, t) == t.outputSurface = "LOST" /\ t.frame = "IDLE"

LEMMA DrawEffect ==
    ASSUME NEW s \in State, NEW didSwap \in BOOLEAN, PipeInv(s), ~AwaitsReplacement(s)
    PROVE  LET t == UpdateStateOnDraw(s, didSwap) IN DrawnTo(s, t) /\ KeepsSurface(s, t)
<1> DEFINE t == UpdateStateOnDraw(s, didSwap)
<1>1. /\ t.readback = (IF s.readback = "DRAW_AND_READBACK" THEN "REPLACEMENT_COMMIT" ELSE s.readback)
      /\ t.forced = (IF s.readback # "DRAW_AND_READBACK" /\ s.forced = "DRAW" THEN "IDLE"
                     ELSE s.forced)
      /\ t.commit = CommitAfterDraw(s)
      /\ t.texture = (IF s.texture = "IMPL_THREAD" THEN "UNLOCKED" ELSE s.texture)
      /\ t.pendingTree = s.pendingTree
      /\ t.polling = s.polling /\ t.needsTextures = s.needsTextures
      /\ t.needsCommit = s.needsCommit
      /\ t.outputSurface = s.outputSurface /\ t.frame = s.frame
  BY DEF UpdateStateOnDraw, State
<1> HIDE DEF t
<1>2. IF s.readback = "DRAW_AND_READBACK" THEN t.commit = "FRAME_IN_PROGRESS"
      ELSE t.commit = s.commit \/ (s.commit = "WAITING_FOR_FIRST_DRAW" /\ t.commit = "IDLE")
  BY <1>1 DEF CommitAfterDraw, PipeInv
<1>3. s.pendingTree => t.commit = s.commit
  BY <1>1 DEF CommitAfterDraw, PipeInv
<1>4. PipeInv(t)
  BY <1>1, <1>2, <1>3 DEF PipeInv, CommitPending, AwaitsReplacement
<1> QED BY <1>1, <1>2, <1>4 DEF DrawnTo, KeepsSurface, t

\* So it is after the swap was recorded, the surface was lost and the draw counted.
LEMMA SwapEffect ==
    ASSUME NEW s \in State, NEW t \in State, NEW b \in BOOLEAN, DrawnTo(s, t)
    PROVE  LET u == [t EXCEPT !.incompleteTile = b]
           IN  u \in State /\ DrawnTo(s, u) /\ (KeepsSurface(s, t) => KeepsSurface(s, u))
<1> DEFINE u == [t EXCEPT !.incompleteTile = b]
<1>1. u \in State
  BY DEF State
<1>2. /\ u.readback = t.readback /\ u.forced = t.forced /\ u.commit = t.commit
      /\ u.texture = t.texture /\ u.pendingTree = t.pendingTree /\ u.polling = t.polling
      /\ u.needsTextures = t.needsTextures /\ u.needsCommit = t.needsCommit
      /\ u.outputSurface = t.outputSurface /\ u.frame = t.frame
  BY DEF State
<1> HIDE DEF u
<1> QED BY <1>1, <1>2 DEF DrawnTo, PipeInv, KeepsSurface, CommitPending, u

LEMMA LoseEffect ==
    ASSUME NEW s \in State, NEW t \in State, DrawnTo(s, t), KeepsSurface(s, t),
           HasInitializedOutputSurface(s) \/ s.frame = "IDLE"
    PROVE  LET u == DidLoseOutputSurface(t)
           IN  /\ u \in State /\ DrawnTo(s, u)
               /\ LosesSurface(s, u) \/ (KeepsSurface(s, u) /\ ~HasInitializedOutputSurface(s))
<1> DEFINE u == DidLoseOutputSurface(t)
<1>1. u \in State
  BY OperatorsTyped
<1>2. /\ u.readback = t.readback /\ u.forced = t.forced /\ u.commit = t.commit
      /\ u.texture = t.texture /\ u.pendingTree = t.pendingTree /\ u.polling = t.polling
      /\ u.needsTextures = t.needsTextures /\ u.needsCommit = t.needsCommit
      /\ IF HasInitializedOutputSurface(t)
         THEN u.outputSurface = "LOST" /\ u.frame = "IDLE"
         ELSE u.outputSurface = t.outputSurface /\ u.frame = t.frame
  BY DEF DidLoseOutputSurface, State
<1> HIDE DEF u
<1>3. DrawnTo(s, u)
  BY <1>2 DEF DrawnTo, PipeInv, CommitPending
<1>4. HasInitializedOutputSurface(t) = HasInitializedOutputSurface(s)
  BY DEF KeepsSurface, HasInitializedOutputSurface
<1> QED BY <1>1, <1>2, <1>3, <1>4 DEF KeepsSurface, LosesSurface, u

LEMMA CompletedEffect ==
    ASSUME NEW s \in State, NEW t \in State, NEW success \in BOOLEAN, DrawnTo(s, t)
    PROVE  LET u == DidDrawIfPossibleCompleted(t, success)
           IN  /\ DrawnTo(s, u)
               /\ KeepsSurface(s, t) => KeepsSurface(s, u)
               /\ LosesSurface(s, t) => LosesSurface(s, u)
<1> DEFINE u == DidDrawIfPossibleCompleted(t, success)
<1>1. /\ u.readback = t.readback /\ u.commit = t.commit
      /\ u.forced \in {"IDLE", "COMMIT", t.forced}
      /\ u.texture = t.texture /\ u.pendingTree = t.pendingTree /\ u.polling = t.polling
      /\ u.needsTextures = t.needsTextures /\ u.outputSurface = t.outputSurface
      /\ u.frame = t.frame /\ (t.needsCommit => u.needsCommit)
  BY DEF DidDrawIfPossibleCompleted, State
<1> HIDE DEF u
<1> QED BY <1>1 DEF DrawnTo, PipeInv, KeepsSurface, LosesSurface, CommitPending, u

\* An activation lets what waited for the tree be drawn.
LEMMA ActivationEffect ==
    ASSUME NEW s \in State, PipeInv(s), s.pendingTree
    PROVE  LET t == UpdateStateOnActivation(s) IN
           /\ PipeInv(t)
           /\ t.commit = s.commit /\ t.texture = s.texture /\ t.frame = s.frame
           /\ t.polling = s.polling /\ t.needsTextures = s.needsTextures
           /\ t.needsCommit = s.needsCommit
           /\ HasInitializedOutputSurface(t) = HasInitializedOutputSurface(s)
           /\ t.readback = CASE s.readback = "ACTIVATION" -> "DRAW_AND_READBACK"
                             [] s.readback = "REPLACEMENT_ACTIVATION" -> "IDLE"
                             [] OTHER -> s.readback
<1> DEFINE t == UpdateStateOnActivation(s)
<1>1. /\ t.commit = s.commit /\ t.texture = s.texture /\ t.frame = s.frame
      /\ t.polling = s.polling /\ t.needsTextures = s.needsTextures
      /\ t.needsCommit = s.needsCommit
      /\ t.outputSurface = (IF s.outputSurface = "FIRST_ACTIVATION" THEN "ACTIVE"
                            ELSE s.outputSurface)
      /\ t.forced = (IF s.forced = "ACTIVATION" THEN "DRAW" ELSE s.forced)
      /\ t.readback = (CASE s.readback = "ACTIVATION" -> "DRAW_AND_READBACK"
                         [] s.readback = "REPLACEMENT_ACTIVATION" -> "IDLE"
                         [] OTHER -> s.readback)
      /\ t.pendingTree = FALSE
  BY DEF UpdateStateOnActivation, State
<1> HIDE DEF t
<1>2. HasInitializedOutputSurface(t) = HasInitializedOutputSurface(s)
  BY <1>1 DEF HasInitializedOutputSurface
<1>3. PipeInv(t)
  BY <1>1 DEF PipeInv, CommitPending
<1> QED BY <1>1, <1>2, <1>3 DEF t


-----------------------------------------------------------------------------
(* The invariant is inductive: rounds of the loop *)

\* What the invariant says of the pipeline implies what the properties say of it.
LEMMA GoodConsistent ==
    ASSUME failed = {}, Good
    PROVE  PipelineConsistent
BY DEF Good, PipeInv, TextureInv, PipelineConsistent, PipelineAssertionsHold, CheckInvariants,
       TexturesExclusive

LEMMA GoodConsistentNext ==
    ASSUME failed' = {}, Good'
    PROVE  PipelineConsistent'
BY DEF Good, PipeInv, TextureInv, PipelineConsistent, PipelineAssertionsHold, CheckInvariants,
       TexturesExclusive

LEMMA AcquireGood ==
    ASSUME TypeOK, failed = {}, Good, AcquireLayerTexturesForMainThread
    PROVE  failed' = {} /\ Good'
<1> USE DEF AcquireLayerTexturesForMainThread, Round, Good, mainVars
<1>1. sm.needsTextures /\ sm.texture = "UNLOCKED"
  BY DEF NextAction, ShouldUpdateVisibleTiles, ShouldDraw, DrawAction,
         ShouldAcquireLayerTexturesForMainThread
<1>2. "textures" \in events
  BY <1>1 DEF TextureInv
<1>3. failed' = {} /\ events' = events \ {"textures"} /\ signalled' = signalled \cup {"textures"}
  BY <1>2 DEF Assert, Signal
<1>4. /\ sm'.texture = "MAIN_THREAD" /\ sm'.needsTextures = FALSE
      /\ sm'.outputSurface = sm.outputSurface /\ sm'.frame = sm.frame /\ sm'.commit = sm.commit
      /\ sm'.readback = sm.readback /\ sm'.forced = sm.forced /\ sm'.pendingTree = sm.pendingTree
      /\ sm'.needsCommit = sm.needsCommit /\ sm'.polling = sm.polling
  BY DEF TypeOK, State
<1>5. pc = "textures" /\ "textures" \notin signalled
  BY <1>2 DEF CallInv
<1>6. ~Starting /\ ~uploading
  BY <1>5 DEF CallInv, Starting, TokenInv
<1>7. FrameInv' /\ RestInv' /\ PipeInv(sm)'
  BY <1>4 DEF FrameInv, RestInv, PipeInv, HasInitializedOutputSurface, CommitPending
<1>8. TokenInv'
  BY <1>3, <1>4 DEF TokenInv, CommitPending, ReadingBack, Aborting, Starting, FrameOut
<1>9. CallInv'
  <2>1. ~In(implQueue, "AcquireLayerTextures")
    BY <1>2 DEF CallInv
  <2> QED BY <2>1, <1>3, <1>5 DEF CallInv
<1>10. ReadbackInv'
  BY <1>3, <1>4 DEF ReadbackInv, ReadingBack
<1>11. SurfaceInv'
  BY <1>3, <1>4 DEF SurfaceInv, HasInitializedOutputSurface
<1>12. TextureInv'
  BY <1>2, <1>3, <1>4, <1>5, <1>6 DEF TextureInv, Starting
<1>13. RequestInv'
  BY <1>4 DEF RequestInv, FrameOut
<1> QED BY <1>3, <1>7, <1>8, <1>9, <1>10, <1>11, <1>12, <1>13

\* What the draws have in common.
LEMMA DrawGood ==
    ASSUME Good, stage # "idle", DrawnTo(sm, sm'),
           \/ KeepsSurface(sm, sm') /\ UNCHANGED <<requested, deadline>>
           \/ /\ LosesSurface(sm, sm') \/ (KeepsSurface(sm, sm') /\ ~HasInitializedOutputSurface(sm))
              /\ requested' = FALSE /\ deadline' = FALSE,
           UNCHANGED <<poll, stage, surface, uploading, implQueue, main, pc, mainQueue>>,
           IF sm.readback = "DRAW_AND_READBACK" THEN Signal("readback")
                                                ELSE UNCHANGED <<signalled, events>>
    PROVE  Good'
<1> USE DEF Good
<1>1. /\ events' \in {events, events \ {"readback"}}
      /\ signalled' \in {signalled, signalled \cup {"readback"}}
      /\ sm.readback # "DRAW_AND_READBACK" => signalled' = signalled
  BY DEF Signal
<1>2. FrameInv'
  BY DEF FrameInv, KeepsSurface, LosesSurface, HasInitializedOutputSurface, DrawnTo
<1>3. RestInv' /\ PipeInv(sm)'
  BY DEF RestInv, DrawnTo
<1>4. sm.readback = "DRAW_AND_READBACK" =>
        /\ main.inReadback /\ pc \in {"commit", "readback"}
        /\ sm.commit = "WAITING_FOR_FIRST_DRAW" /\ FrameOut
        /\ "sent" \notin events \cup signalled /\ stage # "readback"
  BY DEF ReadbackInv, PipeInv, TokenInv, ReadingBack
<1>5. TokenInv'
  BY <1>1, <1>4 DEF TokenInv, CommitPending, ReadingBack, Aborting, Starting, FrameOut, DrawnTo
<1>6. CallInv'
  BY <1>1 DEF CallInv
<1>7. ReadbackInv'
  BY <1>1, <1>4 DEF ReadbackInv, ReadingBack, DrawnTo
<1>8. SurfaceInv'
  BY <1>1 DEF SurfaceInv, HasInitializedOutputSurface, KeepsSurface, LosesSurface
<1>9. TextureInv'
  BY <1>1 DEF TextureInv, Starting, DrawnTo
<1>10. RequestInv'
  BY DEF RequestInv, FrameOut, DrawnTo
<1> QED BY <1>2, <1>3, <1>5, <1>6, <1>7, <1>8, <1>9, <1>10


\* What the step does to the parts of the scheduler the invariant speaks of.
SamePipe(s, t) ==
    /\ t.outputSurface = s.outputSurface /\ t.frame = s.frame /\ t.commit = s.commit
    /\ t.readback = s.readback /\ t.forced = s.forced /\ t.pendingTree = s.pendingTree
    /\ t.texture = s.texture /\ t.needsTextures = s.needsTextures /\ t.polling = s.polling
    /\ s.needsCommit => t.needsCommit

\* A step that changes none of these, in the loop or on the way into it.
LEMMA QuietGood ==
    ASSUME Good, SamePipe(sm, sm'),
           stage' # "idle", stage' = stage \/ (stage = "idle" /\ stage' = "none"),
           UNCHANGED <<requested, deadline, poll, surface, events, uploading, implQueue, main, pc,
                       signalled, mainQueue>>
    PROVE  Good'
<1> USE DEF Good, SamePipe
<1>1. FrameInv' /\ RestInv' /\ PipeInv(sm)'
  BY DEF FrameInv, RestInv, PipeInv, HasInitializedOutputSurface, CommitPending
<1>2. TokenInv'
  BY DEF TokenInv, CommitPending, ReadingBack, Aborting, Starting, FrameOut
<1>3. CallInv'
  BY DEF CallInv
<1>4. ReadbackInv'
  BY DEF ReadbackInv, ReadingBack
<1>5. SurfaceInv' /\ TextureInv' /\ RequestInv'
  BY DEF SurfaceInv, TextureInv, RequestInv, HasInitializedOutputSurface, Starting, FrameOut
<1> QED BY <1>1, <1>2, <1>3, <1>4, <1>5

LEMMA TilesGood ==
    ASSUME TypeOK, failed = {}, Good, UpdateVisibleTiles \/ ManageTiles
    PROVE  failed' = {} /\ Good'
<1>1. SamePipe(sm, sm')
  BY SMTT(40), ZenonT(40) DEF UpdateVisibleTiles, ManageTiles, SamePipe, TypeOK, State
<1>2. stage # "idle" /\ UNCHANGED <<requested, deadline, poll, surface, events, uploading, implQueue,
                                    main, pc, signalled, mainQueue, stage, failed>>
  BY DEF UpdateVisibleTiles, ManageTiles, Round, mainVars, proxyVars
<1> QED BY <1>1, <1>2, QuietGood

LEMMA ActivateGood ==
    ASSUME TypeOK, failed = {}, Good, ActivatePendingTree
    PROVE  failed' = {} /\ Good'
<1> USE DEF Good, mainVars
<1>1. sm.pendingTree
  BY DEF ActivatePendingTree, Round, NextAction, ShouldActivatePendingTree, ShouldDraw, DrawAction
<1> DEFINE t == UpdateStateOnActivation(sm)
<1>2. t \in State /\ \A b \in BOOLEAN : [t EXCEPT !.canDraw = b] \in State
  <2>1. t \in State
    BY OperatorsTyped DEF TypeOK
  <2> HIDE DEF t
  <2> QED BY <2>1 DEF State
<1>3. PICK b \in BOOLEAN : sm' = [t EXCEPT !.canDraw = b]
  BY DEF ActivatePendingTree, TypeOK, State
<1>4. /\ PipeInv(t)
      /\ t.commit = sm.commit /\ t.texture = sm.texture /\ t.frame = sm.frame
      /\ t.polling = sm.polling /\ t.needsTextures = sm.needsTextures
      /\ t.needsCommit = sm.needsCommit
      /\ HasInitializedOutputSurface(t) = HasInitializedOutputSurface(sm)
      /\ t.readback = CASE sm.readback = "ACTIVATION" -> "DRAW_AND_READBACK"
                        [] sm.readback = "REPLACEMENT_ACTIVATION" -> "IDLE"
                        [] OTHER -> sm.readback
  BY <1>1, ActivationEffect DEF TypeOK
<1> HIDE DEF t
<1>5. SamePipe(t, sm')
  BY <1>2, <1>3 DEF SamePipe, State
<1>6. /\ sm'.commit = sm.commit /\ sm'.texture = sm.texture /\ sm'.frame = sm.frame
      /\ sm'.polling = sm.polling /\ sm'.needsTextures = sm.needsTextures
      /\ sm.needsCommit => sm'.needsCommit
      /\ HasInitializedOutputSurface(sm') = HasInitializedOutputSurface(sm)
      /\ sm'.readback = CASE sm.readback = "ACTIVATION" -> "DRAW_AND_READBACK"
                          [] sm.readback = "REPLACEMENT_ACTIVATION" -> "IDLE"
                          [] OTHER -> sm.readback
  BY <1>4, <1>5 DEF SamePipe, HasInitializedOutputSurface
<1>7. PipeInv(sm)'
  BY <1>4, <1>5 DEF SamePipe, PipeInv, CommitPending
<1>8. /\ stage # "idle" /\ events' = events \ {"held"}
      /\ signalled' = IF "held" \in events THEN signalled \cup {"commit"} ELSE signalled
      /\ UNCHANGED <<requested, deadline, poll, stage, surface, uploading, implQueue, main, pc,
                     mainQueue, failed>>
  BY DEF ActivatePendingTree, Round
<1>9. FrameInv' /\ RestInv'
  BY <1>6, <1>8 DEF FrameInv, RestInv
<1>10. TokenInv'
  BY <1>6, <1>8 DEF TokenInv, CommitPending, ReadingBack, Aborting, Starting, FrameOut
<1>11. CallInv'
  <2>1. CASE "held" \in events
    <3>1. ~In(implQueue, "StartCommit") /\ "commit" \notin events /\ pc = "commit"
      BY <2>1 DEF CallInv
    <3> QED BY <2>1, <3>1, <1>8 DEF CallInv
  <2>2. CASE "held" \notin events
    BY <2>2, <1>8 DEF CallInv
  <2> QED BY <2>1, <2>2
<1>12. ReadbackInv'
  BY <1>6, <1>8 DEF ReadbackInv, ReadingBack
<1>13. SurfaceInv' /\ TextureInv' /\ RequestInv'
  BY <1>6, <1>8 DEF SurfaceInv, TextureInv, RequestInv, Starting, FrameOut
<1> QED BY <1>7, <1>8, <1>9, <1>10, <1>11, <1>12, <1>13


LEMMA CommitGood ==
    ASSUME TypeOK, failed = {}, Good, Commit
    PROVE  failed' = {} /\ Good'
<1> USE DEF Good
<1>1. sm.commit = "READY_TO_COMMIT"
  BY DEF Commit, Round, NextAction, ShouldDraw, DrawAction
<1>2. uploading /\ "commit" \in events
  BY <1>1 DEF TokenInv
<1>3. CommitAllowed(sm) /\ CommitPending(sm)
  BY <1>1 DEF PipeInv, CommitAllowed, CommitPending, TypeOK, State, ReadbackState
<1>4. /\ pc = "commit" /\ "commit" \notin signalled /\ "held" \notin events
      /\ signalled \subseteq {"commit", "readback"} /\ stage # "readback" /\ "sent" \notin events
  BY <1>2 DEF CallInv
<1> DEFINE t == UpdateStateOnCommit(sm, FALSE)
<1>5. t \in State
  BY OperatorsTyped DEF TypeOK
<1>6. CommittedTo(sm, t)
  BY <1>3, CommitEffect DEF TypeOK
<1>7. PICK ready \in BOOLEAN : sm' = [t EXCEPT !.readyToActivate = ready]
  BY CommitChanges
<1> HIDE DEF t
<1>8. SamePipe(t, sm')
  BY <1>5, <1>7 DEF SamePipe, State
<1>9. CommittedTo(sm, sm')
  BY <1>6, <1>8 DEF CommittedTo, SamePipe, PipeInv, CommitPending, HasInitializedOutputSurface
<1>10. /\ stage # "idle" /\ failed' = {} /\ uploading' = FALSE
       /\ \/ events' = (events \ {"commit"}) \cup {"held"} /\ signalled' = signalled
          \/ events' = events \ {"commit"} /\ signalled' = signalled \cup {"commit"}
       /\ UNCHANGED <<requested, deadline, poll, stage, surface, implQueue, pc, mainQueue>>
  BY <1>2, <1>3 DEF Commit, Round, Assert, Signal
<1>11. /\ main'.deferred = main.deferred /\ main'.deferCommits = main.deferCommits
       /\ main'.inReadback = main.inReadback /\ main'.surfaceLost = main.surfaceLost
       /\ main'.reply = main.reply /\ main'.texturesAcquired = main.texturesAcquired
       /\ main'.commitRequested = main.commitRequested
       /\ main'.animateRequested = main.animateRequested /\ main'.requestSent = main.requestSent
  BY DEF Commit, TypeOK, MainState
<1>12. FrameInv' /\ RestInv' /\ PipeInv(sm)'
  BY <1>9, <1>10 DEF FrameInv, RestInv, CommittedTo
<1>13. ~Starting /\ ~Aborting /\ (FrameOut <=> sm.readback = "COMMIT")
  BY <1>2, <1>3 DEF TokenInv, ReadingBack, CommitAllowed
<1>14. FrameOut' = FrameOut /\ ~Starting' /\ ~Aborting'
  BY <1>10, <1>11, <1>13 DEF FrameOut, Starting, Aborting
<1>15. /\ ReadingBack(sm)' <=> sm.readback = "COMMIT"
       /\ sm'.readback # "NEEDS_BEGIN_MAIN_FRAME" /\ sm'.readback # "COMMIT"
       /\ ~CommitPending(sm)'
  BY <1>9 DEF CommittedTo, ReadingBack
<1>16. TokenInv'
  <2>1. Once(mainQueue, {"BeginMainFrame"})' /\ Once(implQueue, Answers)' /\ "commit" \notin events'
        /\ (main.deferred => ~In(mainQueue, "BeginMainFrame") /\ main.deferCommits)'
    BY <1>10, <1>11 DEF TokenInv
  <2> QED BY <2>1, <1>10, <1>13, <1>14, <1>15 DEF TokenInv, CommitPending
<1>17. CallInv'
  <2>1. ~In(implQueue, "StartCommit")
    BY <1>13 DEF Starting
  <2> QED BY <2>1, <1>4, <1>10 DEF CallInv
<1>18. ReadbackInv'
  BY <1>4, <1>10, <1>11, <1>15, <1>3 DEF ReadbackInv, CommitAllowed, ReadingBack
<1>19. SurfaceInv'
  BY <1>9, <1>10, <1>11 DEF SurfaceInv, CommittedTo
<1>20. TextureInv'
  BY <1>2, <1>4, <1>9, <1>10, <1>11, <1>13, <1>14 DEF TextureInv, CommittedTo, Aborting
<1>21. RequestInv'
  BY <1>9, <1>10, <1>11, <1>14 DEF RequestInv, CommittedTo
<1> QED BY <1>10, <1>12, <1>16, <1>17, <1>18, <1>19, <1>20, <1>21

\* What the draws assert holds.
LEMMA DrawAssertions ==
    ASSUME TypeOK, failed = {}, Good,
           \/ DrawAndSwapIfPossible \/ DrawAndSwapForced \/ DrawAndSwapAbort \/ DrawAndReadback
    PROVE  /\ failed' = {} /\ stage # "idle" /\ ~AwaitsReplacement(sm)
           /\ DrawAndReadback <=> sm.readback = "DRAW_AND_READBACK"
<1>1. /\ ShouldDraw(sm) /\ stage # "idle"
      /\ NextAction(sm) = DrawAction(sm)
  BY DEF DrawAndSwapIfPossible, DrawAndSwapForced, DrawAndSwapAbort, DrawAndReadback, Round, NextAction
<1>2. ~AwaitsReplacement(sm)
  BY <1>1 DEF ShouldDraw
<1>3. DrawAndReadback <=> sm.readback = "DRAW_AND_READBACK"
  BY <1>1 DEF DrawAndSwapIfPossible, DrawAndSwapForced, DrawAndSwapAbort, DrawAndReadback, Round,
              DrawAction
<1>4. /\ sm.readback = "DRAW_AND_READBACK" => sm.commit = "WAITING_FOR_FIRST_DRAW" /\ ~sm.pendingTree
      /\ sm.forced = "DRAW" => sm.commit = "WAITING_FOR_FIRST_DRAW"
  BY DEF Good, PipeInv
<1>5. CASE DrawAndSwapAbort
  BY <1>1, <1>2, <1>3, <1>4, <1>5 DEF DrawAndSwapAbort, Assert
<1>6. CASE ~DrawAndSwapAbort
  <2>1. surface.renderer
    <3>1. CASE DrawAndReadback
      <4>1. pc \in {"commit", "readback"} /\ main.inReadback
        BY <3>1, <1>3 DEF Good, ReadbackInv, ReadingBack
      <4> QED BY <4>1 DEF Good, SurfaceInv
    <3>2. CASE ~DrawAndReadback
      <4>1. sm.frame = "INSIDE_DEADLINE"
        BY <1>6, <3>2, DrawsAllowed DEF DrawAndSwapIfPossible, DrawAndSwapForced, Round
      <4> QED BY <4>1 DEF Good, FrameInv
    <3> QED BY <3>1, <3>2
  <2>2. DrawAsserted
    BY <1>6 DEF DrawAndSwapIfPossible, DrawAndSwapForced, DrawAndReadback
  <2>3. failed' = {}
    BY <1>4, <2>1, <2>2 DEF DrawAsserted, Assert
  <2> QED BY <2>3, <1>1, <1>2, <1>3
<1> QED BY <1>5, <1>6


LEMMA DrawsGood ==
    ASSUME TypeOK, failed = {}, Good,
           \/ DrawAndSwapIfPossible \/ DrawAndSwapForced \/ DrawAndSwapAbort \/ DrawAndReadback
    PROVE  failed' = {} /\ Good'
<1> DEFINE Kept == KeepsSurface(sm, sm') /\ UNCHANGED <<requested, deadline>>
           Lost == /\ \/ LosesSurface(sm, sm')
                      \/ KeepsSurface(sm, sm') /\ ~HasInitializedOutputSurface(sm)
                   /\ requested' = FALSE /\ deadline' = FALSE
<1>1. /\ failed' = {} /\ stage # "idle" /\ ~AwaitsReplacement(sm)
      /\ DrawAndReadback <=> sm.readback = "DRAW_AND_READBACK"
  BY DrawAssertions
<1>2. UNCHANGED <<poll, stage, surface, uploading, implQueue, main, pc, mainQueue>>
  BY Zenon DEF DrawAndSwapIfPossible, DrawAndSwapForced, DrawAndSwapAbort, DrawAndReadback, mainVars,
               proxyVars
<1>3. IF sm.readback = "DRAW_AND_READBACK" THEN Signal("readback") ELSE UNCHANGED <<signalled, events>>
  <2>1. DrawAndReadback => Signal("readback")
    BY DEF DrawAndReadback
  <2>2. ~DrawAndReadback => UNCHANGED <<signalled, events>>
    BY Zenon DEF DrawAndSwapIfPossible, DrawAndSwapForced, DrawAndSwapAbort, proxyVars
  <2> QED BY <1>1, <2>1, <2>2
<1>4. HasInitializedOutputSurface(sm) \/ sm.frame = "IDLE"
  BY DEF Good, FrameInv
<1>5. sm \in State /\ PipeInv(sm)
  BY DEF TypeOK, Good
<1>6. \A didSwap \in BOOLEAN : LET t == UpdateStateOnDraw(sm, didSwap)
                               IN  t \in State /\ DrawnTo(sm, t) /\ KeepsSurface(sm, t)
  BY <1>1, <1>5, DrawEffect, OperatorsTyped
<1> DEFINE s1 == UpdateStateOnDraw(sm, TRUE)
           r1 == UpdateStateOnDraw(sm, FALSE)
<1>7. /\ s1 \in State /\ DrawnTo(sm, s1) /\ KeepsSurface(sm, s1)
      /\ r1 \in State /\ DrawnTo(sm, r1) /\ KeepsSurface(sm, r1)
  BY <1>6
<1>8. \A t \in State : DrawnTo(sm, t) /\ KeepsSurface(sm, t) =>
        LET u == DidLoseOutputSurface(t)
        IN  /\ u \in State /\ DrawnTo(sm, u)
            /\ LosesSurface(sm, u) \/ (KeepsSurface(sm, u) /\ ~HasInitializedOutputSurface(sm))
  BY <1>4, <1>5, LoseEffect
<1>9. DrawnTo(sm, sm') /\ (Kept \/ Lost)
  <2>1. CASE DrawAndSwapAbort
    BY <2>1, <1>7 DEF DrawAndSwapAbort
  <2>2. CASE DrawAndReadback
    <3>1. \/ sm' = r1 /\ UNCHANGED <<requested, deadline>>
          \/ sm' = DidLoseOutputSurface(r1) /\ requested' = FALSE /\ deadline' = FALSE
      BY <2>2 DEF DrawAndReadback, Lose
    <3> HIDE DEF r1
    <3> QED BY <3>1, <1>7, <1>8
  <2>3. CASE DrawAndSwapForced \/ DrawAndSwapIfPossible
    <3>1. PICK swapped \in BOOLEAN, incomplete \in BOOLEAN, lost \in BOOLEAN, drawn \in BOOLEAN :
            LET s2 == IF swapped THEN [s1 EXCEPT !.incompleteTile = incomplete] ELSE s1
                s3 == IF lost THEN DidLoseOutputSurface(s2) ELSE s2
            IN  /\ sm' \in {s3, DidDrawIfPossibleCompleted(s3, drawn)}
                /\ IF lost THEN requested' = FALSE /\ deadline' = FALSE
                           ELSE UNCHANGED <<requested, deadline>>
      <4>1. CASE DrawAndSwapForced
        <5>1. PICK swapped \in BOOLEAN, incomplete \in BOOLEAN, lost \in BOOLEAN :
                LET s2 == IF swapped THEN [s1 EXCEPT !.incompleteTile = incomplete] ELSE s1
                IN  /\ incomplete => swapped
                    /\ IF lost THEN Lose(DidLoseOutputSurface(s2))
                       ELSE sm' = s2 /\ UNCHANGED <<requested, deadline>>
          BY <4>1, Zenon DEF DrawAndSwapForced
        <5> DEFINE s2 == IF swapped THEN [s1 EXCEPT !.incompleteTile = incomplete] ELSE s1
        <5>2. IF lost THEN Lose(DidLoseOutputSurface(s2)) ELSE sm' = s2 /\ UNCHANGED <<requested, deadline>>
          BY <5>1
        <5> HIDE DEF s2
        <5> DEFINE s3 == IF lost THEN DidLoseOutputSurface(s2) ELSE s2
        <5>3. /\ sm' \in {s3, DidDrawIfPossibleCompleted(s3, TRUE)}
              /\ IF lost THEN requested' = FALSE /\ deadline' = FALSE
                         ELSE UNCHANGED <<requested, deadline>>
          BY <5>2 DEF Lose
        <5> QED BY <5>3, Zenon DEF s2
      <4>2. CASE DrawAndSwapIfPossible
        <5>1. PICK drawn \in BOOLEAN, swapped \in BOOLEAN, incomplete \in BOOLEAN, lost \in BOOLEAN :
                LET s2 == IF swapped THEN [s1 EXCEPT !.incompleteTile = incomplete] ELSE s1
                    s3 == IF lost THEN DidLoseOutputSurface(s2) ELSE s2
                    s4 == DidDrawIfPossibleCompleted(s3, drawn)
                IN  /\ (swapped \/ lost) => drawn
                    /\ incomplete => swapped
                    /\ IF lost THEN Lose(s4) ELSE sm' = s4 /\ UNCHANGED <<requested, deadline>>
          BY <4>2, Zenon DEF DrawAndSwapIfPossible
        <5> DEFINE s2 == IF swapped THEN [s1 EXCEPT !.incompleteTile = incomplete] ELSE s1
                   s3 == IF lost THEN DidLoseOutputSurface(s2) ELSE s2
        <5>2. IF lost THEN Lose(DidDrawIfPossibleCompleted(s3, drawn))
              ELSE sm' = DidDrawIfPossibleCompleted(s3, drawn) /\ UNCHANGED <<requested, deadline>>
          BY <5>1
        <5> HIDE DEF s3
        <5>3. /\ sm' \in {s3, DidDrawIfPossibleCompleted(s3, drawn)}
              /\ IF lost THEN requested' = FALSE /\ deadline' = FALSE
                         ELSE UNCHANGED <<requested, deadline>>
          BY <5>2 DEF Lose
        <5> QED BY <5>3, Zenon DEF s3
      <4> QED BY <2>3, <4>1, <4>2
    <3> DEFINE s2 == IF swapped THEN [s1 EXCEPT !.incompleteTile = incomplete] ELSE s1
               s3 == IF lost THEN DidLoseOutputSurface(s2) ELSE s2
               s4 == DidDrawIfPossibleCompleted(s3, drawn)
    <3>2. s2 \in State /\ DrawnTo(sm, s2) /\ KeepsSurface(sm, s2)
      <4> HIDE DEF s1
      <4> QED BY <1>5, <1>7, SwapEffect
    <3>3. /\ sm' \in {s3, s4}
          /\ IF lost THEN requested' = FALSE /\ deadline' = FALSE ELSE UNCHANGED <<requested, deadline>>
      BY <3>1, Zenon
    <3> HIDE DEF s2
    <3>4. /\ s3 \in State /\ DrawnTo(sm, s3)
          /\ IF lost THEN LosesSurface(sm, s3) \/ (KeepsSurface(sm, s3) /\ ~HasInitializedOutputSurface(sm))
                     ELSE KeepsSurface(sm, s3)
      BY <3>2, <1>8
    <3> HIDE DEF s3
    <3>5. /\ DrawnTo(sm, s4)
          /\ KeepsSurface(sm, s3) => KeepsSurface(sm, s4)
          /\ LosesSurface(sm, s3) => LosesSurface(sm, s4)
      BY <1>5, <3>4, CompletedEffect
    <3> HIDE DEF s4
    <3> QED BY <3>3, <3>4, <3>5
  <2> QED BY <2>1, <2>2, <2>3
<1> QED BY <1>1, <1>2, <1>3, <1>9, DrawGood


LEMMA SendGood ==
    ASSUME TypeOK, failed = {}, Good, SendBeginMainFrame
    PROVE  failed' = {} /\ Good'
<1> USE DEF Good, mainVars
<1>1. ShouldSendBeginMainFrame(sm) /\ stage # "idle"
  BY DEF SendBeginMainFrame, Round, NextAction, ShouldDraw, DrawAction
<1>2. /\ sm.commit = "IDLE" /\ ~sm.pendingTree
      /\ sm.visible \/ sm.readback = "NEEDS_BEGIN_MAIN_FRAME"
  BY <1>1 DEF ShouldSendBeginMainFrame
<1>3. ~ReadingBack(sm) /\ sm.forced \notin {"ACTIVATION", "DRAW"} /\ sm.outputSurface # "FIRST_ACTIVATION"
  BY <1>2 DEF PipeInv, ReadingBack, CommitPending
<1>4. ~FrameOut /\ ~Starting /\ ~Aborting /\ ~uploading
  BY <1>2, <1>3 DEF TokenInv, CommitPending
<1>5. /\ sm'.commit = "FRAME_IN_PROGRESS" /\ sm'.pendingTree = sm.pendingTree
      /\ sm'.readback = (IF sm.readback = "NEEDS_BEGIN_MAIN_FRAME" THEN "COMMIT" ELSE sm.readback)
      /\ sm'.outputSurface = sm.outputSurface /\ sm'.frame = sm.frame /\ sm'.forced = sm.forced
      /\ sm'.polling = sm.polling /\ sm'.texture = sm.texture /\ sm'.needsTextures = sm.needsTextures
  BY DEF SendBeginMainFrame, OnSendBeginMainFrame, TypeOK, State
<1>6. /\ failed' = {} /\ mainQueue' = Append(mainQueue, "BeginMainFrame") /\ Signal("sent")
      /\ UNCHANGED <<requested, deadline, poll, stage, surface, uploading, implQueue, main, pc>>
  BY <1>2 DEF SendBeginMainFrame, Assert
<1>7. /\ \A task : In(mainQueue', task) <=> In(mainQueue, task) \/ task = "BeginMainFrame"
      /\ \A tasks : Once(mainQueue, tasks) /\ (None(mainQueue, tasks) \/ "BeginMainFrame" \notin tasks)
                      => Once(mainQueue', tasks)
  BY <1>6, AppendToQueue DEF TypeOK, MainTasks
<1>8. /\ In(mainQueue', "BeginMainFrame") /\ (In(mainQueue', "Retry") <=> In(mainQueue, "Retry"))
      /\ Once(mainQueue', {"BeginMainFrame"}) /\ Once(mainQueue', {"Retry"})
  BY <1>4, <1>7 DEF FrameOut, None, TokenInv, SurfaceInv
<1>9. FrameOut' /\ ~main.deferred
  BY <1>4, <1>8 DEF FrameOut
<1>10. FrameInv' /\ RestInv' /\ PipeInv(sm)'
  <2>1. FrameInv'
    BY <1>5, <1>6 DEF FrameInv, HasInitializedOutputSurface
  <2>2. RestInv'
    BY <1>1, <1>6 DEF RestInv
  <2>3. PipeInv(sm)'
    BY <1>2, <1>3, <1>5 DEF PipeInv, CommitPending, ReadingBack
  <2> QED BY <2>1, <2>2, <2>3
<1>11. /\ \/ events' = events /\ signalled' = signalled /\ "sent" \notin events
          \/ events' = events \ {"sent"} /\ signalled' = signalled \cup {"sent"} /\ "sent" \in events
  BY <1>6 DEF Signal
<1>12. TokenInv'
  <2>1. ~Starting' /\ ~Aborting' /\ ~uploading' /\ (uploading <=> "commit" \in events)'
    BY <1>4, <1>6, <1>11 DEF TokenInv, Starting, Aborting
  <2>2. Once(implQueue, Answers)'
    BY <1>6 DEF TokenInv
  <2> QED BY <2>1, <2>2, <1>5, <1>6, <1>8, <1>9 DEF TokenInv, CommitPending
<1>13. CallInv'
  <2>1. "sent" \in events => ~In(implQueue, "ForceCommitForReadback") /\ stage # "readback"
    BY DEF CallInv
  <2> QED BY <2>1, <1>6, <1>11 DEF CallInv
<1>14. ReadbackInv'
  BY <1>3, <1>5, <1>6, <1>11 DEF ReadbackInv, ReadingBack
<1>15. SurfaceInv'
  BY <1>5, <1>6, <1>8, <1>11 DEF SurfaceInv, HasInitializedOutputSurface
<1>16. TextureInv'
  BY <1>5, <1>6, <1>11 DEF TextureInv, Starting
<1>17. RequestInv'
  BY <1>6, <1>9 DEF RequestInv
<1> QED BY <1>6, <1>10, <1>12, <1>13, <1>14, <1>15, <1>16, <1>17

LEMMA CreationGood ==
    ASSUME TypeOK, failed = {}, Good, BeginOutputSurfaceCreation
    PROVE  failed' = {} /\ Good'
<1> USE DEF Good, mainVars, proxyVars
<1>1. ShouldBeginOutputSurfaceCreation(sm) /\ stage # "idle"
  BY DEF BeginOutputSurfaceCreation, Round, NextAction, ShouldDraw, DrawAction
<1>2. /\ sm.commit = "IDLE" /\ ~sm.pendingTree /\ ~sm.needsFirstDraw /\ sm.outputSurface = "LOST"
  BY <1>1 DEF ShouldBeginOutputSurfaceCreation
<1>3. /\ sm'.outputSurface = "CREATING" /\ sm'.commit = sm.commit /\ sm'.pendingTree = sm.pendingTree
      /\ sm'.readback = sm.readback /\ sm'.frame = sm.frame /\ sm'.forced = sm.forced
      /\ sm'.polling = sm.polling /\ sm'.texture = sm.texture /\ sm'.needsTextures = sm.needsTextures
      /\ sm'.needsCommit = sm.needsCommit
  BY DEF BeginOutputSurfaceCreation, TypeOK, State
<1>4. /\ failed' = {} /\ mainQueue' = Append(mainQueue, "CreateAndInitializeOutputSurface")
      /\ UNCHANGED <<requested, deadline, poll, stage, surface, events, uploading, implQueue, main, pc,
                     signalled>>
  BY <1>2 DEF BeginOutputSurfaceCreation, Assert
<1>5. /\ \A task : In(mainQueue', task) <=>
                     In(mainQueue, task) \/ task = "CreateAndInitializeOutputSurface"
      /\ \A tasks : Once(mainQueue, tasks)
                      /\ (None(mainQueue, tasks) \/ "CreateAndInitializeOutputSurface" \notin tasks)
                      => Once(mainQueue', tasks)
  BY <1>4, AppendToQueue DEF TypeOK, MainTasks
<1>6. /\ In(mainQueue', "BeginMainFrame") <=> In(mainQueue, "BeginMainFrame")
      /\ In(mainQueue', "Retry") <=> In(mainQueue, "Retry")
      /\ Once(mainQueue', {"BeginMainFrame"}) /\ Once(mainQueue', {"Retry"})
  BY <1>5 DEF TokenInv, SurfaceInv
<1>7. FrameInv' /\ RestInv' /\ PipeInv(sm)'
  BY <1>1, <1>2, <1>3, <1>4 DEF FrameInv, RestInv, PipeInv, CommitPending, HasInitializedOutputSurface
<1>8. TokenInv'
  BY <1>3, <1>4, <1>6 DEF TokenInv, CommitPending, ReadingBack, Aborting, Starting, FrameOut
<1>9. CallInv' /\ ReadbackInv'
  BY <1>3, <1>4 DEF CallInv, ReadbackInv, ReadingBack
<1>10. SurfaceInv'
  BY <1>2, <1>3, <1>4, <1>6 DEF SurfaceInv, HasInitializedOutputSurface
<1>11. TextureInv' /\ RequestInv'
  BY <1>3, <1>4, <1>6 DEF TextureInv, RequestInv, Starting, FrameOut
<1> QED BY <1>4, <1>7, <1>8, <1>9, <1>10, <1>11


\* When the loop is over there is nothing left to do.
LEMMA LoopIsOver ==
    ASSUME NextAction(sm) = "NONE"
    PROVE  sm.commit # "READY_TO_COMMIT" /\ ~ShouldManageTiles(sm)
BY DEF NextAction, DrawAction

LEMMA EndOfLoopGood ==
    ASSUME TypeOK, failed = {}, Good, EndOfLoop
    PROVE  failed' = {} /\ Good'
<1> USE DEF Good, mainVars
<1> DEFINE starts == stage = "starting" /\ HasInitializedOutputSurface(sm)
           ends == stage = "deadline" /\ HasInitializedOutputSurface(sm)
           sent == stage = "readback" /\ CommitPending(sm)
           synchronous == "using_synchronous_renderer_compositor" \in sm.settings
           needed == BeginImplFrameNeeded(sm)
           call == ShouldCallSetNeedsBeginImplFrame(needed)
<1>1. stage # "idle" /\ sm.commit # "READY_TO_COMMIT" /\ ~ShouldManageTiles(sm)
  BY LoopIsOver DEF EndOfLoop, Round
<1>2. (starts <=> sm.frame = "STARTING") /\ (ends <=> sm.frame = "INSIDE_DEADLINE") /\ ~(starts /\ ends)
  BY DEF FrameInv
<1>3. failed' = {}
  BY <1>2 DEF EndOfLoop, Assert
<1>4. /\ requested' = IF call THEN needed ELSE requested
      /\ surface' = IF call /\ surface.renderer
                    THEN [surface EXCEPT !.needs = needed, !.ready = TRUE, !.ticking = needed]
                    ELSE surface
      /\ poll' = (ShouldPollForAnticipatedDrawTriggers(sm) /\ stage # "poll")
  BY DEF EndOfLoop, SetupNextBeginImplFrameIfNeeded
<1>5. /\ sm' = CASE starts -> [sm EXCEPT !.frame = IF synchronous THEN "INSIDE_DEADLINE"
                                                ELSE "INSIDE_BEGIN_FRAME"]
                 [] ends -> [sm EXCEPT !.frame = "IDLE"]
                 [] OTHER -> [sm EXCEPT !.polling = @ /\ stage # "poll"]
      /\ stage' = IF starts /\ synchronous THEN "deadline" ELSE "idle"
      /\ deadline' = IF starts THEN ~synchronous
                     ELSE deadline \/ ShouldTriggerBeginImplFrameDeadlineEarly(sm)
      /\ signalled' = signalled \cup {e \in {"visible", "init"} : e = stage}
                                \cup {e \in {"sent"} : sent}
      /\ events' = IF stage = "readback" /\ ~sent THEN events \cup {"sent"} ELSE events
      /\ UNCHANGED <<uploading, implQueue, main, pc, mainQueue>>
  BY DEF EndOfLoop
<1>6. sm \in State /\ surface \in [needs : BOOLEAN, ready : BOOLEAN, ticking : BOOLEAN, renderer : BOOLEAN]
  BY DEF TypeOK
<1> HIDE DEF needed, call, synchronous
<1>7. /\ sm'.outputSurface = sm.outputSurface /\ sm'.commit = sm.commit
      /\ sm'.pendingTree = sm.pendingTree /\ sm'.readback = sm.readback /\ sm'.forced = sm.forced
      /\ sm'.texture = sm.texture /\ sm'.needsTextures = sm.needsTextures
      /\ sm'.needsCommit = sm.needsCommit
  BY <1>5, <1>6 DEF State
<1>8. /\ sm'.needsRedraw = sm.needsRedraw /\ sm'.incompleteTile = sm.incompleteTile
      /\ sm'.visible = sm.visible /\ sm'.canDraw = sm.canDraw /\ sm'.swapped = sm.swapped
      /\ sm'.needsManageTiles = sm.needsManageTiles /\ sm'.settings = sm.settings
  BY <1>5, <1>6 DEF State
<1>9. sm'.frame = IF starts THEN IF synchronous THEN "INSIDE_DEADLINE" ELSE "INSIDE_BEGIN_FRAME"
                  ELSE IF ends THEN "IDLE" ELSE sm.frame
  BY <1>5, <1>6 DEF State
<1>10. HasInitializedOutputSurface(sm') <=> HasInitializedOutputSurface(sm)
  BY <1>7 DEF HasInitializedOutputSurface
<1>11. needed => HasInitializedOutputSurface(sm)
  BY DEF needed, BeginImplFrameNeeded, BeginImplFrameNeededToDraw, ProactiveBeginImplFrameWanted
<1>12. (needed /\ ~requested => call) /\ (ends => call)
  BY <1>2 DEF call, ShouldCallSetNeedsBeginImplFrame
<1>13. /\ surface'.renderer = surface.renderer
       /\ call /\ needed /\ surface.renderer => surface'.needs /\ surface'.ready /\ surface'.ticking
       /\ ~call => surface' = surface
  BY <1>4, <1>6
<1>14. ~starts => (deadline' <=> deadline)
  BY <1>5 DEF FrameInv, ShouldTriggerBeginImplFrameDeadlineEarly
<1>15. FrameInv'
  <2>1. /\ requested' => HasInitializedOutputSurface(sm)
        /\ HasInitializedOutputSurface(sm) => surface.renderer
        /\ sm.frame # "IDLE" => HasInitializedOutputSurface(sm)
        /\ deadline <=> sm.frame = "INSIDE_BEGIN_FRAME"
    BY <1>4, <1>11 DEF FrameInv
  <2>2. sm'.frame # "IDLE" => HasInitializedOutputSurface(sm)
    BY <2>1, <1>9
  <2>3. deadline' <=> sm'.frame = "INSIDE_BEGIN_FRAME"
    <3>1. starts => (deadline' <=> ~synchronous)
      BY <1>5
    <3>2. starts => (sm'.frame = "INSIDE_BEGIN_FRAME" <=> ~synchronous)
      BY <1>9
    <3>3. ~starts => (sm'.frame = "INSIDE_BEGIN_FRAME" <=> sm.frame = "INSIDE_BEGIN_FRAME")
      BY <1>2, <1>9
    <3> QED BY <2>1, <3>1, <3>2, <3>3, <1>14
  <2>4. sm'.frame # "STARTING" /\ stage' \notin {"starting", "poll"}
    BY <1>2, <1>5, <1>9
  <2>5. sm'.frame = "INSIDE_DEADLINE" <=> stage' = "deadline" /\ HasInitializedOutputSurface(sm)
    BY <1>2, <1>5, <1>9
  <2>6. requested' /\ sm'.frame = "IDLE" => surface'.needs /\ surface'.ready /\ surface'.ticking
    <3>1. CASE call
      BY <3>1, <2>1, <1>4, <1>13
    <3>2. CASE ~call
      <4>1. sm'.frame = "IDLE" => sm.frame = "IDLE"
        BY <3>2, <1>9, <1>12
      <4> QED BY <4>1, <3>2, <1>4, <1>13 DEF FrameInv
    <3> QED BY <3>1, <3>2
  <2> QED BY <2>1, <2>2, <2>3, <2>4, <2>5, <2>6, <1>10, <1>13 DEF FrameInv
<1>16. RestInv'
  <2>1. BeginImplFrameNeeded(sm') <=> needed
    BY <1>7, <1>8, <1>10 DEF needed, BeginImplFrameNeeded, BeginImplFrameNeededToDraw,
         SupportsProactiveBeginImplFrame, ProactiveBeginImplFrameWanted
  <2>2. needed => requested'
    BY <1>4, <1>12
  <2>3. sm.needsManageTiles /\ sm.visible /\ HasInitializedOutputSurface(sm) => needed \/ poll'
    <3>1. stage = "poll" => ~sm.needsManageTiles
      BY <1>1 DEF FrameInv, ShouldManageTiles
    <3> QED BY <3>1, <1>4 DEF needed, BeginImplFrameNeeded, ShouldPollForAnticipatedDrawTriggers,
                              ProactiveBeginImplFrameWanted
  <2> QED BY <2>1, <2>2, <2>3, <1>8, <1>10 DEF RestInv
<1>17. PipeInv(sm)'
  BY <1>7 DEF PipeInv, CommitPending
<1>18. TokenInv'
  BY <1>1, <1>5, <1>7 DEF TokenInv, CommitPending, ReadingBack, Aborting, Starting, FrameOut
<1>19. /\ signalled' = signalled \cup {e \in {"visible", "init"} : e = stage}
                                 \cup {e \in {"sent"} : sent}
       /\ stage' \in {"deadline", "idle"} /\ UNCHANGED <<implQueue, main, pc, mainQueue, uploading>>
       /\ \/ events' = events /\ (stage = "readback" => sent)
          \/ events' = events \cup {"sent"} /\ stage = "readback" /\ ~sent
  BY <1>5
<1>20. CallInv'
  <2>1. /\ stage = "visible" => ~In(implQueue, "Show") /\ ~In(implQueue, "Hide") /\ pc = "visible"
        /\ stage = "init" => ~In(implQueue, "InitializeOutputSurface") /\ pc = "init"
        /\ stage = "readback" => ~In(implQueue, "ForceCommitForReadback") /\ pc = "sent"
    BY DEF CallInv
  <2>2. signalled' \subseteq {pc, "readback"}
    BY <2>1, <1>19 DEF CallInv
  <2>3. /\ "commit" \in signalled' <=> "commit" \in signalled
        /\ "textures" \in signalled' <=> "textures" \in signalled
        /\ "has" \in signalled' <=> "has" \in signalled
        /\ "visible" \in signalled' => "visible" \in signalled \/ stage = "visible"
        /\ "init" \in signalled' => "init" \in signalled \/ stage = "init"
        /\ "sent" \in signalled' => "sent" \in signalled \/ sent
    BY <1>19
  <2>4. "sent" \in events' => "sent" \in events \/ (stage = "readback" /\ ~sent)
    BY <1>19
  <2>5. \A e \in {"commit", "textures", "held"} : e \in events' <=> e \in events
    BY <1>19
  <2>6. "sent" \in events' => pc = "sent" /\ "sent" \notin signalled'
    BY <2>3, <2>4 DEF CallInv
  <2> QED BY <2>1, <2>2, <2>3, <2>4, <2>5, <2>6, <1>19 DEF CallInv
<1>21. ReadbackInv'
  <2>1. stage = "readback" => IF sent THEN sm.readback = "COMMIT"
                                      ELSE sm.readback = "NEEDS_BEGIN_MAIN_FRAME"
    BY DEF ReadbackInv, PipeInv
  <2> QED BY <2>1, <1>7, <1>19 DEF ReadbackInv, ReadingBack
<1>22. SurfaceInv'
  BY <1>10, <1>13, <1>19 DEF SurfaceInv
<1>23. TextureInv'
  BY <1>7, <1>19 DEF TextureInv, Starting
<1>24. RequestInv'
  BY <1>7, <1>19 DEF RequestInv, FrameOut
<1> QED BY <1>3, <1>15, <1>16, <1>17, <1>18, <1>20, <1>21, <1>22, <1>23, <1>24

LEMMA LoopGood ==
    ASSUME TypeOK, failed = {}, Good, Loop
    PROVE  failed' = {} /\ Good'
BY AcquireGood, TilesGood, ActivateGood, CommitGood, DrawsGood, SendGood, CreationGood, EndOfLoopGood
   DEF Loop


-----------------------------------------------------------------------------
(* The invariant is inductive: tasks of the impl thread *)

\* What is left of the queue: everything but the task; nothing behind a task the main
\* thread waits for; no other answer behind an answer.
LeftBy(task) ==
    /\ stage = "idle" /\ In(implQueue, task)
    /\ \A t : In(implQueue', t) => In(implQueue, t)
    /\ \A t : In(implQueue, t) /\ t # task => In(implQueue', t)
    /\ Once(implQueue', Answers) /\ BlockingLast(implQueue')
    /\ task \in Answers => \A t \in Answers : ~In(implQueue', t)
    /\ task \in Blocking => \A t : ~In(implQueue', t)

LEMMA TaskLeaves ==
    ASSUME TypeOK, Good, NEW task, Task(task)
    PROVE  LeftBy(task)
<1>1. /\ implQueue \in Seq(ImplTasks) /\ implQueue # <<>> /\ Head(implQueue) = task
      /\ implQueue' = Tail(implQueue) /\ stage = "idle"
  BY DEF TypeOK, Task
<1>2. Once(implQueue, Answers) /\ BlockingLast(implQueue)
  BY DEF Good, TokenInv, CallInv
<1> DEFINE q == implQueue
<1>3. /\ In(q, Head(q))
      /\ \A t : In(q, t) => t = Head(q) \/ In(Tail(q), t)
      /\ \A t : In(Tail(q), t) => In(q, t)
      /\ \A tasks : Once(q, tasks) => Once(Tail(q), tasks)
      /\ \A tasks : Once(q, tasks) /\ Head(q) \in tasks => None(Tail(q), tasks)
      /\ BlockingLast(q) => BlockingLast(Tail(q))
      /\ BlockingLast(q) /\ Head(q) \in Blocking => \A t : ~In(Tail(q), t)
  BY <1>1, TailOfQueue
<1> QED BY <1>1, <1>2, <1>3 DEF LeftBy, None

\* A task that tells the scheduler something.
LEMMA TellingTasksGood ==
    ASSUME TypeOK, failed = {}, Good,
           \/ SetCanStart \/ SetNeedsCommitOnImplThread
           \/ \E visible \in BOOLEAN : SetVisibleOnImplThread(visible)
    PROVE  failed' = {} /\ Good'
<1> USE DEF Good
<1>1. PICK task \in {"SetCanStart", "SetNeedsCommit", "Show", "Hide"} :
        /\ Task(task)
        /\ stage' = IF task \in {"Show", "Hide"} THEN "visible" ELSE "none"
        /\ task = "SetNeedsCommit" => sm'.needsCommit
  BY DEF SetCanStart, SetNeedsCommitOnImplThread, SetVisibleOnImplThread, Task, Process, TypeOK, State
<1>2. SamePipe(sm, sm')
  BY DEF SetCanStart, SetNeedsCommitOnImplThread, SetVisibleOnImplThread, SamePipe, TypeOK, State
<1>3. UNCHANGED <<requested, deadline, poll, surface, events, uploading, main, pc, signalled,
                  mainQueue, failed>>
  BY DEF SetCanStart, SetNeedsCommitOnImplThread, SetVisibleOnImplThread, proxyVars, mainVars
<1>4. LeftBy(task)
  BY <1>1, TaskLeaves
<1>5. FrameInv' /\ RestInv' /\ PipeInv(sm)'
  BY <1>1, <1>2, <1>3, <1>4 DEF FrameInv, RestInv, PipeInv, CommitPending,
       HasInitializedOutputSurface, SamePipe, LeftBy
<1>6. /\ Starting' <=> Starting
      /\ In(implQueue', "AbortHandled") <=> In(implQueue, "AbortHandled")
      /\ Aborting' <=> Aborting
  BY <1>4 DEF LeftBy, Starting, Aborting
<1>7. FrameOut' <=> FrameOut
  BY <1>3 DEF FrameOut
<1>8. TokenInv'
  BY <1>1, <1>2, <1>3, <1>4, <1>6, <1>7 DEF TokenInv, CommitPending, ReadingBack, SamePipe, LeftBy
<1>9. CallInv'
  <2>1. task \in {"Show", "Hide"} => pc = "visible" /\ "visible" \notin signalled
    BY <1>4 DEF CallInv, LeftBy
  <2>2. task \in {"Show", "Hide"} => ~In(implQueue', "Show") /\ ~In(implQueue', "Hide")
    BY <1>4 DEF LeftBy, Blocking
  <2> QED BY <2>1, <2>2, <1>1, <1>3, <1>4 DEF CallInv, LeftBy
<1>10. ReadbackInv'
  BY <1>1, <1>2, <1>3 DEF ReadbackInv, ReadingBack, SamePipe
<1>11. SurfaceInv'
  BY <1>1, <1>2, <1>3, <1>4 DEF SurfaceInv, HasInitializedOutputSurface, SamePipe, LeftBy
<1>12. TextureInv'
  BY <1>2, <1>3, <1>6 DEF TextureInv, SamePipe
<1>13. RequestInv'
  BY <1>1, <1>2, <1>3, <1>4, <1>7 DEF RequestInv, SamePipe, LeftBy
<1> QED BY <1>3, <1>5, <1>8, <1>9, <1>10, <1>11, <1>12, <1>13

LEMMA ForceCommitGood ==
    ASSUME TypeOK, failed = {}, Good, ForceCommitForReadbackOnImplThread
    PROVE  PipelineConsistent' /\ (failed' = {} => Good')
<1> USE DEF Good
<1>1. LeftBy("ForceCommitForReadback") /\ stage = "idle"
  BY TaskLeaves DEF ForceCommitForReadbackOnImplThread, LeftBy
<1>2. /\ events' = events \cup {"readback"} /\ stage' = "readback"
      /\ UNCHANGED <<requested, deadline, poll, surface, uploading, main, pc, signalled, mainQueue>>
  BY <1>1 DEF ForceCommitForReadbackOnImplThread, Process, mainVars
<1>3. /\ sm'.readback = IF sm.commit = "FRAME_IN_PROGRESS" THEN "COMMIT" ELSE "NEEDS_BEGIN_MAIN_FRAME"
      /\ sm'.outputSurface = sm.outputSurface /\ sm'.frame = sm.frame /\ sm'.commit = sm.commit
      /\ sm'.forced = sm.forced /\ sm'.pendingTree = sm.pendingTree /\ sm'.texture = sm.texture
      /\ sm'.needsTextures = sm.needsTextures /\ sm'.polling = sm.polling /\ sm'.needsCommit
  BY DEF ForceCommitForReadbackOnImplThread, SetNeedsForcedCommitForReadback, TypeOK, State
<1>4. PipelineConsistent'
  <2>1. failed' \subseteq {"readback"}
    BY DEF ForceCommitForReadbackOnImplThread, Assert
  <2> QED BY <2>1, <1>2, <1>3 DEF PipelineConsistent, PipelineAssertionsHold, CheckInvariants,
                                  TexturesExclusive, TextureInv
<1>5. ASSUME failed' = {} PROVE Good'
  <2>1. sm.readback \in {"IDLE", "REPLACEMENT_COMMIT"}
    BY <1>5 DEF ForceCommitForReadbackOnImplThread, Assert
  <2>2. /\ pc = "sent" /\ "sent" \notin events \cup signalled /\ \A t : ~In(implQueue', t)
        /\ \A t : In(implQueue, t) => t = "ForceCommitForReadback"
    BY <1>1 DEF LeftBy, CallInv, Blocking
  <2>3. ~uploading /\ ~Starting /\ ~Aborting /\ "commit" \notin events /\ main.inReadback
    BY <2>2 DEF CallInv, TokenInv, Starting, Aborting, ReadbackInv
  <2>4. ~CommitPending(sm) \/ sm.commit = "FRAME_IN_PROGRESS"
    BY <1>1 DEF TokenInv, CommitPending
  <2>5. FrameOut <=> sm.commit = "FRAME_IN_PROGRESS"
    BY <2>1, <2>3 DEF TokenInv, ReadingBack
  <2>6. FrameInv' /\ RestInv'
    BY <1>1, <1>2, <1>3 DEF FrameInv, RestInv, HasInitializedOutputSurface
  <2>7. PipeInv(sm)'
    BY <2>4, <1>3 DEF PipeInv, CommitPending
  <2>8. ~Starting' /\ ~Aborting' /\ (FrameOut' <=> FrameOut)
    BY <2>2, <1>2 DEF Starting, Aborting, FrameOut
  <2>9. TokenInv'
    <3>1. /\ Once(mainQueue, {"BeginMainFrame"})' /\ Once(implQueue', Answers)
          /\ (main.deferred => ~In(mainQueue, "BeginMainFrame") /\ main.deferCommits)'
          /\ sm.commit # "READY_TO_COMMIT"
      BY <1>1, <1>2, <2>3 DEF TokenInv, LeftBy
    <3> QED BY <3>1, <2>3, <2>5, <2>8, <1>2, <1>3 DEF TokenInv, ReadingBack
  <2>10. CallInv'
    <3>1. BlockingLast(implQueue')
      BY <1>1 DEF LeftBy
    <3> QED BY <3>1, <1>2, <2>2 DEF CallInv
  <2>11. ReadbackInv'
    BY <1>2, <1>3, <2>2, <2>3 DEF ReadbackInv, ReadingBack
  <2>12. SurfaceInv'
    BY <1>1, <1>2, <1>3, <2>2 DEF SurfaceInv, HasInitializedOutputSurface
  <2>13. TextureInv'
    BY <1>2, <1>3, <2>2, <2>3, <2>8 DEF TextureInv, Aborting
  <2>14. RequestInv'
    BY <1>2, <1>3 DEF RequestInv
  <2> QED BY <2>6, <2>7, <2>9, <2>10, <2>11, <2>12, <2>13, <2>14
<1> QED BY <1>4, <1>5


LEMMA StartCommitGood ==
    ASSUME TypeOK, failed = {}, Good, StartCommitOnImplThread
    PROVE  failed' = {} /\ Good'
<1> USE DEF Good
<1>1. LeftBy("StartCommit") /\ stage = "idle"
  BY TaskLeaves DEF StartCommitOnImplThread, LeftBy
<1>2. /\ pc = "commit" /\ "commit" \notin events \cup signalled /\ "held" \notin events
      /\ \A t : ~In(implQueue', t)
      /\ \A t : In(implQueue, t) => t = "StartCommit"
  BY <1>1 DEF LeftBy, CallInv, Blocking
<1>3. Starting /\ sm.commit = "FRAME_IN_PROGRESS" /\ ~Aborting
  BY <1>1, <1>2 DEF LeftBy, Starting, Aborting, TokenInv
<1>4. /\ failed' = {} /\ events' = events \cup {"commit"} /\ uploading' = TRUE
      /\ UNCHANGED <<requested, deadline, poll, surface, main, pc, signalled, mainQueue>>
  BY <1>2, <1>3 DEF StartCommitOnImplThread, Assert, CommitPending, mainVars
<1>5. PICK evicted \in BOOLEAN :
        /\ sm' = [sm EXCEPT !.needsCommit = @ \/ evicted]
        /\ IF evicted THEN Process("none") ELSE UNCHANGED stage
  <2> DEFINE p == "impl_side_painting" \notin sm.settings
  <2>1. PICK evicted \in {FALSE, p} :
          /\ sm' = [sm EXCEPT !.needsCommit = @ \/ evicted]
          /\ IF evicted THEN Process("none") ELSE UNCHANGED stage
    BY Zenon DEF StartCommitOnImplThread
  <2>2. p \in BOOLEAN
    OBVIOUS
  <2> HIDE DEF p
  <2>3. evicted \in BOOLEAN
    BY <2>1, <2>2
  <2> QED BY <2>1, <2>3, Zenon
<1>6. SamePipe(sm, sm')
  BY <1>5 DEF SamePipe, TypeOK, State
<1>7. \/ stage' = "none"
      \/ stage' = "idle" /\ (BeginImplFrameNeeded(sm') <=> BeginImplFrameNeeded(sm))
           /\ sm'.needsManageTiles = sm.needsManageTiles /\ sm'.visible = sm.visible
  <2>1. CASE evicted
    BY <2>1, <1>1, <1>5 DEF Process
  <2>2. CASE ~evicted
    <3>1. /\ sm'.needsManageTiles = sm.needsManageTiles /\ sm'.visible = sm.visible
          /\ sm'.needsRedraw = sm.needsRedraw /\ sm'.incompleteTile = sm.incompleteTile
          /\ sm'.canDraw = sm.canDraw /\ sm'.swapped = sm.swapped /\ sm'.settings = sm.settings
          /\ sm'.outputSurface = sm.outputSurface /\ sm'.forced = sm.forced
          /\ sm'.commit = sm.commit /\ sm'.pendingTree = sm.pendingTree
          /\ sm'.needsCommit <=> sm.needsCommit
      BY <2>2, <1>5 DEF TypeOK, State
    <3> QED BY <3>1, <2>2, <1>1, <1>5 DEF BeginImplFrameNeeded, BeginImplFrameNeededToDraw,
               SupportsProactiveBeginImplFrame, ProactiveBeginImplFrameWanted,
               HasInitializedOutputSurface
  <2> QED BY <2>1, <2>2
<1>8. FrameInv'
  BY <1>1, <1>4, <1>6, <1>7 DEF FrameInv, HasInitializedOutputSurface, SamePipe
<1>9. RestInv'
  BY <1>1, <1>4, <1>6, <1>7 DEF RestInv, HasInitializedOutputSurface, SamePipe
<1>10. PipeInv(sm)'
  BY <1>6 DEF PipeInv, CommitPending, SamePipe
<1>11. ~Starting' /\ ~Aborting' /\ (FrameOut' <=> FrameOut)
  BY <1>2, <1>4 DEF Starting, Aborting, FrameOut
<1>12. TokenInv'
  <2>1. /\ Once(mainQueue, {"BeginMainFrame"})' /\ Once(implQueue', Answers)
        /\ (main.deferred => ~In(mainQueue, "BeginMainFrame") /\ main.deferCommits)'
        /\ FrameOut <=> ReadingBack(sm)
    BY <1>1, <1>3, <1>4 DEF TokenInv, LeftBy
  <2> QED BY <2>1, <1>3, <1>4, <1>6, <1>11 DEF TokenInv, ReadingBack, SamePipe, CommitPending
<1>13. CallInv'
  <2>1. BlockingLast(implQueue')
    BY <1>1 DEF LeftBy
  <2> QED BY <2>1, <1>2, <1>4, <1>7 DEF CallInv
<1>14. ReadbackInv'
  BY <1>4, <1>6, <1>7 DEF ReadbackInv, ReadingBack, SamePipe
<1>15. SurfaceInv'
  BY <1>2, <1>4, <1>6, <1>7 DEF SurfaceInv, HasInitializedOutputSurface, SamePipe
<1>16. TextureInv'
  BY <1>2, <1>3, <1>4, <1>6, <1>11 DEF TextureInv, SamePipe, Aborting
<1>17. RequestInv'
  BY <1>2, <1>4, <1>6, <1>11 DEF RequestInv, SamePipe
<1> QED BY <1>4, <1>8, <1>9, <1>10, <1>12, <1>13, <1>14, <1>15, <1>16, <1>17

LEMMA AbortedGood ==
    ASSUME TypeOK, failed = {}, Good, NEW didHandle \in BOOLEAN,
           BeginMainFrameAbortedOnImplThread(didHandle)
    PROVE  failed' = {} /\ Good'
<1> USE DEF Good
<1> DEFINE task == IF didHandle THEN "AbortHandled" ELSE "AbortUnhandled"
<1>1. LeftBy(task) /\ stage = "idle"
  BY TaskLeaves DEF BeginMainFrameAbortedOnImplThread, LeftBy
<1>2. /\ In(implQueue, task)
      /\ \A t : In(implQueue', t) => In(implQueue, t)
      /\ In(implQueue, "SetNeedsCommit") => In(implQueue', "SetNeedsCommit")
      /\ Once(implQueue', Answers) /\ BlockingLast(implQueue')
      /\ ~Starting' /\ ~Aborting' /\ ~In(implQueue', "AbortHandled")
      /\ ~Starting /\ (~didHandle => ~In(implQueue, "AbortHandled"))
  BY <1>1 DEF LeftBy, Answers, Starting, Aborting
<1>3. Aborting /\ sm.commit = "FRAME_IN_PROGRESS" /\ ~uploading /\ ~FrameOut
  BY <1>2 DEF Aborting, TokenInv
<1>4. sm.readback \in {"IDLE", "REPLACEMENT_COMMIT"} /\ ~sm.pendingTree /\ CommitAllowed(sm)
  BY <1>3 DEF TokenInv, PipeInv, ReadingBack, CommitAllowed, TypeOK, State, ReadbackState
<1>5. /\ failed' = {} /\ stage' = "none"
      /\ UNCHANGED <<requested, deadline, poll, surface, events, uploading, main, pc, signalled, mainQueue>>
  BY <1>1, <1>3, <1>4 DEF BeginMainFrameAbortedOnImplThread, Assert, Process, mainVars, proxyVars
<1>6. /\ PipeInv(sm')
      /\ ~CommitPending(sm')
      /\ sm'.frame = sm.frame /\ sm'.polling = sm.polling /\ sm'.needsTextures = sm.needsTextures
      /\ sm.needsCommit => sm'.needsCommit
      /\ HasInitializedOutputSurface(sm') <=> HasInitializedOutputSurface(sm)
      /\ ~ReadingBack(sm') /\ sm'.readback # "NEEDS_BEGIN_MAIN_FRAME"
      /\ IF didHandle THEN sm'.texture # "MAIN_THREAD" ELSE sm'.texture = sm.texture
  <2>1. CASE didHandle
    <3>1. sm' = UpdateStateOnCommit(sm, TRUE)
      BY <2>1 DEF BeginMainFrameAbortedOnImplThread, BeginMainFrameAborted
    <3>2. CommittedTo(sm, sm')
      BY <3>1, <1>3, <1>4, CommitEffect DEF TypeOK, CommitPending
    <3> QED BY <3>2, <2>1, <1>4 DEF CommittedTo, ReadingBack
  <2>2. CASE ~didHandle
    <3>1. sm' = [sm EXCEPT !.commit = "IDLE", !.needsCommit = TRUE]
      BY <2>2 DEF BeginMainFrameAbortedOnImplThread, BeginMainFrameAborted
    <3>2. /\ sm'.commit = "IDLE" /\ sm'.needsCommit
          /\ sm'.frame = sm.frame /\ sm'.polling = sm.polling /\ sm'.needsTextures = sm.needsTextures
          /\ sm'.outputSurface = sm.outputSurface /\ sm'.readback = sm.readback
          /\ sm'.texture = sm.texture /\ sm'.forced = sm.forced /\ sm'.pendingTree = sm.pendingTree
      BY <3>1 DEF TypeOK, State
    <3>3. PipeInv(sm')
      BY <3>2, <1>3, <1>4 DEF PipeInv, CommitPending
    <3> QED BY <3>2, <3>3, <2>2, <1>4 DEF HasInitializedOutputSurface, CommitPending, ReadingBack
  <2> QED BY <2>1, <2>2
<1>7. FrameInv' /\ RestInv'
  BY <1>1, <1>5, <1>6 DEF FrameInv, RestInv
<1>8. FrameOut' <=> FrameOut
  BY <1>5 DEF FrameOut
<1>9. TokenInv'
  <2>1. /\ Once(mainQueue, {"BeginMainFrame"})'
        /\ (main.deferred => ~In(mainQueue, "BeginMainFrame") /\ main.deferCommits)'
        /\ (uploading <=> "commit" \in events)'
    BY <1>5 DEF TokenInv
  <2> QED BY <2>1, <1>2, <1>3, <1>5, <1>6, <1>8 DEF TokenInv, CommitPending
<1>10. CallInv'
  BY <1>1, <1>2, <1>5 DEF CallInv
<1>11. ReadbackInv'
  BY <1>1, <1>4, <1>5, <1>6 DEF ReadbackInv, ReadingBack
<1>12. SurfaceInv'
  BY <1>1, <1>2, <1>5, <1>6 DEF SurfaceInv
<1>13. TextureInv'
  <2>1. CASE didHandle
    BY <2>1, <1>2, <1>3, <1>5, <1>6 DEF TextureInv
  <2>2. CASE ~didHandle
    BY <2>2, <1>2, <1>3, <1>5, <1>6 DEF TextureInv
  <2> QED BY <2>1, <2>2
<1>14. RequestInv'
  BY <1>2, <1>3, <1>5, <1>6, <1>8 DEF RequestInv
<1> QED BY <1>5, <1>6, <1>7, <1>9, <1>10, <1>11, <1>12, <1>13, <1>14

LEMMA AcquireTaskGood ==
    ASSUME TypeOK, failed = {}, Good, AcquireLayerTexturesForMainThreadOnImplThread
    PROVE  failed' = {} /\ Good'
<1> USE DEF Good
<1>1. LeftBy("AcquireLayerTextures") /\ stage = "idle"
  BY TaskLeaves DEF AcquireLayerTexturesForMainThreadOnImplThread, LeftBy
<1>2. /\ pc = "textures" /\ "textures" \notin events \cup signalled
      /\ \A t : ~In(implQueue', t)
      /\ \A t : In(implQueue, t) => t = "AcquireLayerTextures"
      /\ BlockingLast(implQueue') /\ Once(implQueue', Answers)
  BY <1>1 DEF LeftBy, CallInv, Blocking
<1>3. ~uploading /\ ~Starting /\ ~Aborting /\ ~In(implQueue, "AbortHandled")
  BY <1>2 DEF CallInv, TokenInv, Starting, Aborting
<1>4. ~sm.needsTextures /\ sm.texture # "MAIN_THREAD"
  BY <1>2, <1>3 DEF TextureInv
<1>5. /\ failed' = {} /\ events' = events \cup {"textures"} /\ stage' = "none"
      /\ UNCHANGED <<requested, deadline, poll, surface, uploading, main, pc, signalled, mainQueue>>
  BY <1>1, <1>2, <1>4 DEF AcquireLayerTexturesForMainThreadOnImplThread, Assert, Process, mainVars
<1>6. /\ sm'.needsTextures /\ sm'.texture = sm.texture
      /\ sm'.outputSurface = sm.outputSurface /\ sm'.frame = sm.frame /\ sm'.commit = sm.commit
      /\ sm'.readback = sm.readback /\ sm'.forced = sm.forced /\ sm'.pendingTree = sm.pendingTree
      /\ sm'.needsCommit = sm.needsCommit /\ sm'.polling = sm.polling
  BY DEF AcquireLayerTexturesForMainThreadOnImplThread, TypeOK, State
<1>7. FrameInv' /\ RestInv' /\ PipeInv(sm)'
  BY <1>1, <1>5, <1>6 DEF FrameInv, RestInv, PipeInv, HasInitializedOutputSurface, CommitPending
<1>8. ~Starting' /\ ~Aborting' /\ (FrameOut' <=> FrameOut)
  BY <1>2, <1>5 DEF Starting, Aborting, FrameOut
<1>9. TokenInv'
  BY <1>2, <1>3, <1>5, <1>6, <1>8 DEF TokenInv, CommitPending, ReadingBack
<1>10. CallInv'
  BY <1>2, <1>5 DEF CallInv
<1>11. ReadbackInv'
  BY <1>5, <1>6 DEF ReadbackInv, ReadingBack
<1>12. SurfaceInv'
  BY <1>2, <1>5, <1>6 DEF SurfaceInv, HasInitializedOutputSurface
<1>13. TextureInv'
  BY <1>2, <1>3, <1>4, <1>5, <1>6, <1>8 DEF TextureInv
<1>14. RequestInv'
  BY <1>2, <1>5, <1>6, <1>8 DEF RequestInv
<1> QED BY <1>5, <1>7, <1>9, <1>10, <1>11, <1>12, <1>13, <1>14


LEMMA HasTaskGood ==
    ASSUME TypeOK, failed = {}, Good, HasInitializedOutputSurfaceOnImplThread
    PROVE  failed' = {} /\ Good'
<1> USE DEF Good
<1>1. LeftBy("HasInitializedOutputSurface") /\ stage = "idle"
  BY TaskLeaves DEF HasInitializedOutputSurfaceOnImplThread, LeftBy
<1>2. /\ pc = "has" /\ "has" \notin signalled
      /\ \A t : ~In(implQueue', t)
      /\ \A t : In(implQueue, t) => t = "HasInitializedOutputSurface"
      /\ BlockingLast(implQueue') /\ Once(implQueue', Answers)
  BY <1>1 DEF LeftBy, CallInv, Blocking
<1>3. /\ ~uploading /\ ~Starting /\ ~Aborting /\ ~In(implQueue, "AbortHandled")
      /\ "init" \notin signalled
  BY <1>2 DEF CallInv, TokenInv, Starting, Aborting
<1>4. /\ signalled' = signalled \cup {"has"}
      /\ UNCHANGED <<sm, requested, deadline, poll, stage, surface, events, uploading, pc, mainQueue, failed>>
  BY DEF HasInitializedOutputSurfaceOnImplThread, schedulerVars, proxyVars
<1>5. /\ main'.deferred = main.deferred /\ main'.deferCommits = main.deferCommits
      /\ main'.inReadback = main.inReadback /\ main'.surfaceLost = main.surfaceLost
      /\ main'.reply = HasInitializedOutputSurface(sm)
      /\ main'.texturesAcquired = main.texturesAcquired
      /\ main'.commitRequested = main.commitRequested
      /\ main'.animateRequested = main.animateRequested /\ main'.requestSent = main.requestSent
  BY DEF HasInitializedOutputSurfaceOnImplThread, TypeOK, MainState
<1>6. FrameInv' /\ RestInv' /\ PipeInv(sm)'
  BY <1>4 DEF FrameInv, RestInv
<1>7. ~Starting' /\ ~Aborting' /\ (FrameOut' <=> FrameOut)
  BY <1>2, <1>4, <1>5 DEF Starting, Aborting, FrameOut
<1>8. TokenInv'
  BY <1>2, <1>3, <1>4, <1>5, <1>7 DEF TokenInv
<1>9. CallInv'
  BY <1>2, <1>4 DEF CallInv
<1>10. ReadbackInv'
  BY <1>4, <1>5 DEF ReadbackInv
<1>11. SurfaceInv'
  BY <1>1, <1>2, <1>3, <1>4, <1>5 DEF SurfaceInv
<1>12. TextureInv'
  BY <1>2, <1>3, <1>4, <1>5, <1>7 DEF TextureInv
<1>13. RequestInv'
  BY <1>2, <1>4, <1>5, <1>7 DEF RequestInv
<1> QED BY <1>4, <1>6, <1>8, <1>9, <1>10, <1>11, <1>12, <1>13

LEMMA InitTaskGood ==
    ASSUME TypeOK, failed = {}, Good, InitializeOutputSurfaceOnImplThread
    PROVE  PipelineConsistent' /\ (failed' = {} => Good')
<1> USE DEF Good
<1>1. LeftBy("InitializeOutputSurface") /\ stage = "idle"
  BY TaskLeaves DEF InitializeOutputSurfaceOnImplThread, LeftBy
<1>2. /\ pc = "init" /\ "init" \notin signalled
      /\ \A t : ~In(implQueue', t)
      /\ \A t : In(implQueue, t) => t = "InitializeOutputSurface"
      /\ BlockingLast(implQueue') /\ Once(implQueue', Answers)
      /\ ~HasInitializedOutputSurface(sm)
  BY <1>1 DEF LeftBy, CallInv, Blocking, SurfaceInv
<1>3. /\ ~uploading /\ ~Starting /\ ~Aborting /\ ~In(implQueue, "AbortHandled")
      /\ "has" \notin signalled /\ signalled \subseteq {"init", "readback"}
      /\ main.surfaceLost /\ ~In(mainQueue, "Retry")
      /\ ~requested /\ sm.frame = "IDLE" /\ ~deadline
  BY <1>2 DEF CallInv, TokenInv, Starting, Aborting, SurfaceInv, FrameInv
<1>4. UNCHANGED <<requested, deadline, poll, events, uploading, pc, mainQueue>>
  BY DEF InitializeOutputSurfaceOnImplThread, proxyVars
<1>5. PICK success \in BOOLEAN, canDraw \in BOOLEAN :
        /\ canDraw => success
        /\ main' = [main EXCEPT !.reply = success]
        /\ surface' = [needs |-> FALSE, ready |-> TRUE, ticking |-> FALSE, renderer |-> success]
        /\ IF success
           THEN /\ Assert("create", sm.outputSurface = "CREATING" /\ ~requested /\ ~deadline)
                /\ sm' = [DidCreateAndInitializeOutputSurface(sm) EXCEPT !.canDraw = canDraw]
                /\ Process("init")
                /\ UNCHANGED signalled
           ELSE /\ signalled' = signalled \cup {"init"}
                /\ UNCHANGED <<sm, stage, failed>>
  BY Zenon DEF InitializeOutputSurfaceOnImplThread
<1>6. /\ main'.deferred = main.deferred /\ main'.deferCommits = main.deferCommits
      /\ main'.inReadback = main.inReadback /\ main'.surfaceLost = main.surfaceLost
      /\ main'.reply = success
      /\ main'.texturesAcquired = main.texturesAcquired
      /\ main'.commitRequested = main.commitRequested
      /\ main'.animateRequested = main.animateRequested /\ main'.requestSent = main.requestSent
  BY <1>5 DEF TypeOK, MainState
<1>7. surface'.renderer = success
  BY <1>5
<1>8. /\ sm'.frame = sm.frame /\ sm'.commit = sm.commit /\ sm'.readback = sm.readback
      /\ sm'.forced = sm.forced /\ sm'.pendingTree = sm.pendingTree /\ sm'.texture = sm.texture
      /\ sm'.needsTextures = sm.needsTextures /\ sm'.polling = sm.polling
      /\ sm.needsCommit => sm'.needsCommit
      /\ IF success THEN sm'.outputSurface = "FIRST_COMMIT" ELSE sm' = sm
  <2>1. CASE success
    <3>1. sm' = [DidCreateAndInitializeOutputSurface(sm) EXCEPT !.canDraw = canDraw]
      BY <2>1, <1>5
    <3> QED BY <3>1, <2>1 DEF DidCreateAndInitializeOutputSurface, TypeOK, State
  <2>2. CASE ~success
    <3>1. sm' = sm
      BY <2>2, <1>5
    <3> QED BY <3>1, <2>2
  <2> QED BY <2>1, <2>2
<1>9. IF success THEN stage' = "init" /\ signalled' = signalled /\ failed' \subseteq {"create"}
      ELSE stage' = "idle" /\ signalled' = signalled \cup {"init"} /\ failed' = {}
  <2>1. CASE success
    <3>1. /\ Assert("create", sm.outputSurface = "CREATING" /\ ~requested /\ ~deadline)
          /\ Process("init") /\ UNCHANGED signalled
      BY <2>1, <1>5
    <3> QED BY <3>1, <2>1, <1>1 DEF Assert, Process
  <2>2. CASE ~success
    BY <2>2, <1>1, <1>5
  <2> QED BY <2>1, <2>2
<1>10. PipelineConsistent'
  <2>1. PipelineAssertionsHold'
    BY <1>9 DEF PipelineAssertionsHold
  <2>2. CheckInvariants'
    BY <1>8 DEF CheckInvariants, PipeInv
  <2>3. TexturesExclusive'
    BY <1>6, <1>8 DEF TexturesExclusive, TextureInv
  <2> QED BY <2>1, <2>2, <2>3 DEF PipelineConsistent
<1>11. Good'
  <2>1. FrameInv'
    BY <1>2, <1>3, <1>4, <1>7, <1>8, <1>9 DEF FrameInv, HasInitializedOutputSurface
  <2>2. RestInv'
    BY <1>1, <1>4, <1>8, <1>9 DEF RestInv
  <2>3. PipeInv(sm)'
    BY <1>8 DEF PipeInv, CommitPending
  <2>4. ~Starting' /\ ~Aborting' /\ (FrameOut' <=> FrameOut)
    BY <1>2, <1>4, <1>6 DEF Starting, Aborting, FrameOut
  <2>5. TokenInv'
    <3>1. sm.commit # "READY_TO_COMMIT"
      BY <1>3 DEF TokenInv
    <3> QED BY <3>1, <2>4, <1>2, <1>3, <1>4, <1>6, <1>8 DEF TokenInv, ReadingBack, CommitPending
  <2>6. CallInv'
    BY <1>2, <1>4, <1>9 DEF CallInv
  <2>7. ReadbackInv'
    BY <1>4, <1>6, <1>8, <1>9 DEF ReadbackInv, ReadingBack
  <2>8. SurfaceInv'
    BY <1>2, <1>3, <1>4, <1>6, <1>7, <1>8, <1>9 DEF SurfaceInv
  <2>9. TextureInv'
    BY <2>4, <1>2, <1>3, <1>4, <1>6, <1>8, <1>9 DEF TextureInv
  <2>10. RequestInv'
    BY <2>4, <1>2, <1>6, <1>8 DEF RequestInv
  <2> QED BY <2>1, <2>2, <2>3, <2>5, <2>6, <2>7, <2>8, <2>9, <2>10
<1> QED BY <1>10, <1>11

LEMMA ImplTaskGood ==
    ASSUME TypeOK, failed = {}, Good, ImplTask
    PROVE  PipelineConsistent' /\ (failed' = {} => Good')
<1>1. CASE ForceCommitForReadbackOnImplThread
  BY <1>1, ForceCommitGood
<1>2. CASE InitializeOutputSurfaceOnImplThread
  BY <1>2, InitTaskGood
<1>3. CASE ~ForceCommitForReadbackOnImplThread /\ ~InitializeOutputSurfaceOnImplThread
  <2>1. failed' = {} /\ Good'
    BY <1>3, TellingTasksGood, StartCommitGood, AbortedGood, AcquireTaskGood, HasTaskGood DEF ImplTask
  <2> QED BY <2>1, GoodConsistentNext
<1> QED BY <1>1, <1>2, <1>3


-----------------------------------------------------------------------------
(* The invariant is inductive: timers and callbacks of the impl thread *)

LEMMA FinalizeGood ==
    ASSUME TypeOK, failed = {}, Good, ReadyToFinalizeTextureUpdates
    PROVE  failed' = {} /\ Good'
<1> USE DEF Good
<1>1. stage = "idle" /\ uploading
  BY DEF ReadyToFinalizeTextureUpdates, ImplIdle
<1>2. /\ sm.commit = "FRAME_IN_PROGRESS" /\ ~Starting /\ ~Aborting
      /\ FrameOut <=> ReadingBack(sm)
  BY <1>1 DEF TokenInv, CommitPending
<1>3. /\ failed' = {} /\ stage' = "none"
      /\ UNCHANGED <<requested, deadline, poll, surface, events, uploading, implQueue, main, pc,
                     signalled, mainQueue>>
  BY <1>1, <1>2 DEF ReadyToFinalizeTextureUpdates, Assert, Process, mainVars, proxyVars
<1>4. /\ sm'.commit = "READY_TO_COMMIT"
      /\ sm'.outputSurface = sm.outputSurface /\ sm'.frame = sm.frame
      /\ sm'.readback = sm.readback /\ sm'.forced = sm.forced /\ sm'.pendingTree = sm.pendingTree
      /\ sm'.texture = sm.texture /\ sm'.needsTextures = sm.needsTextures
      /\ sm'.needsCommit = sm.needsCommit /\ sm'.polling = sm.polling
  BY DEF ReadyToFinalizeTextureUpdates, TypeOK, State
<1>5. FrameInv' /\ RestInv' /\ PipeInv(sm)'
  BY <1>1, <1>2, <1>3, <1>4 DEF FrameInv, RestInv, PipeInv, HasInitializedOutputSurface, CommitPending
<1>6. (Starting' <=> Starting) /\ (Aborting' <=> Aborting) /\ (FrameOut' <=> FrameOut)
  BY <1>3 DEF Starting, Aborting, FrameOut
<1>7. TokenInv'
  BY <1>1, <1>2, <1>3, <1>4, <1>6 DEF TokenInv, CommitPending, ReadingBack
<1>8. CallInv' /\ ReadbackInv'
  BY <1>1, <1>3, <1>4 DEF CallInv, ReadbackInv, ReadingBack
<1>9. SurfaceInv' /\ TextureInv' /\ RequestInv'
  BY <1>1, <1>3, <1>4, <1>6 DEF SurfaceInv, TextureInv, RequestInv, HasInitializedOutputSurface
<1> QED BY <1>3, <1>5, <1>7, <1>8, <1>9

\* Only the frame, the surface and what is recorded of the frame change.
LEMMA FrameGood ==
    ASSUME Good, stage = "idle", stage' \in {"starting", "deadline", "poll", "none"}, FrameInv',
           sm'.commit = sm.commit, sm'.readback = sm.readback, sm'.forced = sm.forced,
           sm'.pendingTree = sm.pendingTree, sm'.texture = sm.texture,
           sm'.needsTextures = sm.needsTextures, sm.needsCommit => sm'.needsCommit,
           sm'.outputSurface = sm.outputSurface \/ ~HasInitializedOutputSurface(sm'),
           surface'.renderer = surface.renderer,
           UNCHANGED <<events, uploading, implQueue, main, pc, signalled, mainQueue>>
    PROVE  Good'
<1> USE DEF Good
<1>1. RestInv' /\ PipeInv(sm)'
  BY DEF RestInv, PipeInv, CommitPending, HasInitializedOutputSurface
<1>2. (Starting' <=> Starting) /\ (Aborting' <=> Aborting) /\ (FrameOut' <=> FrameOut)
  BY DEF Starting, Aborting, FrameOut
<1>3. TokenInv'
  BY <1>2 DEF TokenInv, CommitPending, ReadingBack
<1>4. CallInv' /\ ReadbackInv'
  BY DEF CallInv, ReadbackInv, ReadingBack
<1>5. SurfaceInv' /\ TextureInv' /\ RequestInv'
  BY <1>2 DEF SurfaceInv, TextureInv, RequestInv, HasInitializedOutputSurface
<1> QED BY <1>1, <1>3, <1>4, <1>5

LEMMA BeginImplFrameGood ==
    ASSUME TypeOK, failed = {}, Good, BeginImplFrame
    PROVE  PipelineConsistent' /\ (failed' = {} => Good')
<1>1. /\ stage = "idle" /\ stage' = "starting" /\ failed' \subseteq {"begin"}
      /\ UNCHANGED <<requested, deadline, poll, events, uploading, implQueue, main, pc, signalled,
                     mainQueue>>
  BY DEF BeginImplFrame, ImplIdle, Process, Assert, mainVars, proxyVars
<1>2. /\ sm'.commit = sm.commit /\ sm'.readback = sm.readback /\ sm'.forced = sm.forced
      /\ sm'.pendingTree = sm.pendingTree /\ sm'.texture = sm.texture
      /\ sm'.needsTextures = sm.needsTextures /\ sm'.needsCommit = sm.needsCommit
      /\ sm'.outputSurface = sm.outputSurface /\ sm'.polling = sm.polling
      /\ sm'.frame = "STARTING"
  BY DEF BeginImplFrame, OnBeginImplFrame, NewFrame, TypeOK, State
<1>3. surface'.renderer = surface.renderer
  BY DEF BeginImplFrame, TypeOK
<1>4. PipelineConsistent'
  BY <1>1, <1>2 DEF PipelineConsistent, PipelineAssertionsHold, CheckInvariants, TexturesExclusive,
                    Good, PipeInv, TextureInv
<1>5. ASSUME failed' = {} PROVE Good'
  <2>1. sm.frame = "IDLE" /\ HasInitializedOutputSurface(sm)
    BY <1>5 DEF BeginImplFrame, Assert
  <2>2. FrameInv'
    BY <2>1, <1>1, <1>2, <1>3 DEF Good, FrameInv, HasInitializedOutputSurface
  <2> QED BY <2>2, <1>1, <1>2, <1>3, FrameGood
<1> QED BY <1>4, <1>5

LEMMA DeadlineGood ==
    ASSUME TypeOK, failed = {}, Good, OnBeginImplFrameDeadline
    PROVE  failed' = {} /\ Good'
<1>1. stage = "idle" /\ sm.frame = "INSIDE_BEGIN_FRAME" /\ HasInitializedOutputSurface(sm)
  BY DEF OnBeginImplFrameDeadline, ImplIdle, Good, FrameInv
<1>2. /\ failed' = {} /\ stage' = "deadline" /\ deadline' = FALSE
      /\ UNCHANGED <<requested, poll, surface, events, uploading, implQueue, main, pc, signalled,
                     mainQueue>>
  BY <1>1 DEF OnBeginImplFrameDeadline, Process, Assert, mainVars, proxyVars
<1>3. /\ sm'.commit = sm.commit /\ sm'.readback = sm.readback /\ sm'.forced = sm.forced
      /\ sm'.pendingTree = sm.pendingTree /\ sm'.texture = sm.texture
      /\ sm'.needsTextures = sm.needsTextures /\ sm'.needsCommit = sm.needsCommit
      /\ sm'.outputSurface = sm.outputSurface /\ sm'.polling = sm.polling
      /\ sm'.frame = "INSIDE_DEADLINE"
  BY DEF OnBeginImplFrameDeadline, TypeOK, State
<1>4. FrameInv'
  BY <1>1, <1>2, <1>3 DEF Good, FrameInv, HasInitializedOutputSurface
<1> QED BY <1>1, <1>2, <1>3, <1>4, FrameGood

LEMMA PollGood ==
    ASSUME TypeOK, failed = {}, Good, PollForAnticipatedDrawTriggers
    PROVE  failed' = {} /\ Good'
<1>1. /\ failed' = {} /\ stage = "idle" /\ stage' = "poll"
      /\ UNCHANGED <<requested, deadline, poll, surface, events, uploading, implQueue, main, pc,
                     signalled, mainQueue>>
  BY DEF PollForAnticipatedDrawTriggers, ImplIdle, Process, mainVars, proxyVars
<1>2. /\ sm'.commit = sm.commit /\ sm'.readback = sm.readback /\ sm'.forced = sm.forced
      /\ sm'.pendingTree = sm.pendingTree /\ sm'.texture = sm.texture
      /\ sm'.needsTextures = sm.needsTextures /\ sm'.needsCommit = sm.needsCommit
      /\ sm'.outputSurface = sm.outputSurface /\ sm'.polling /\ sm'.frame = sm.frame
  BY DEF PollForAnticipatedDrawTriggers, NewFrame, TypeOK, State
<1>3. FrameInv'
  BY <1>1, <1>2 DEF Good, FrameInv, HasInitializedOutputSurface
<1> QED BY <1>1, <1>2, <1>3, FrameGood

LEMMA LoseGood ==
    ASSUME TypeOK, failed = {}, Good, DidLoseOutputSurfaceOnImplThread
    PROVE  failed' = {} /\ Good'
<1>1. /\ failed' = {} /\ stage = "idle" /\ stage' = "none"
      /\ requested' = FALSE /\ deadline' = FALSE /\ sm' = DidLoseOutputSurface(sm)
      /\ UNCHANGED <<poll, events, uploading, implQueue, main, pc, signalled, mainQueue>>
  BY DEF DidLoseOutputSurfaceOnImplThread, ImplIdle, Process, Lose, mainVars, proxyVars
<1>2. surface'.renderer = surface.renderer
  BY DEF DidLoseOutputSurfaceOnImplThread, TypeOK
<1>3. /\ sm'.commit = sm.commit /\ sm'.readback = sm.readback /\ sm'.forced = sm.forced
      /\ sm'.pendingTree = sm.pendingTree /\ sm'.texture = sm.texture
      /\ sm'.needsTextures = sm.needsTextures /\ sm'.needsCommit = sm.needsCommit
      /\ sm'.polling = sm.polling
      /\ IF HasInitializedOutputSurface(sm) THEN sm'.outputSurface = "LOST" /\ sm'.frame = "IDLE"
         ELSE sm'.outputSurface = sm.outputSurface /\ sm'.frame = sm.frame
  BY <1>1 DEF DidLoseOutputSurface, TypeOK, State
<1>4. ~HasInitializedOutputSurface(sm')
  BY <1>3 DEF HasInitializedOutputSurface
<1>5. FrameInv'
  BY <1>1, <1>2, <1>3, <1>4 DEF Good, FrameInv
<1> QED BY <1>1, <1>2, <1>3, <1>4, <1>5, FrameGood

LEMMA ClientCallGood ==
    ASSUME TypeOK, failed = {}, Good, NEW call \in ClientCalls, ClientCall(call)
    PROVE  failed' = {} /\ Good'
<1>1. SamePipe(sm, sm')
  BY DEF ClientCall, Told, ClientCalls, SamePipe, TypeOK, State
<1>2. /\ stage' # "idle" /\ (stage' = stage \/ (stage = "idle" /\ stage' = "none"))
      /\ UNCHANGED <<requested, deadline, poll, surface, events, uploading, implQueue, main, pc,
                     signalled, mainQueue, failed>>
  BY DEF ClientCall, Process, mainVars, proxyVars
<1> QED BY <1>1, <1>2, QuietGood

LEMMA ImplTimerGood ==
    ASSUME TypeOK, failed = {}, Good, ImplTimer
    PROVE  PipelineConsistent' /\ (failed' = {} => Good')
<1>1. CASE BeginImplFrame
  BY <1>1, BeginImplFrameGood
<1>2. CASE ~BeginImplFrame
  <2>1. failed' = {} /\ Good'
    BY <1>2, FinalizeGood, DeadlineGood, PollGood DEF ImplTimer
  <2> QED BY <2>1, GoodConsistentNext
<1> QED BY <1>1, <1>2


-----------------------------------------------------------------------------
(* The invariant is inductive: the main thread *)

\* While the main thread runs, nothing on the impl thread is about a call of its.
MainFree ==
    /\ \A t \in Blocking : ~In(implQueue, t)
    /\ "sent" \notin events /\ "commit" \notin events /\ "held" \notin events /\ "textures" \notin events
    /\ stage \notin {"visible", "init", "readback"}
    /\ ~Starting /\ ~uploading
    /\ signalled \ {pc} \subseteq {"readback"}
    /\ pc \notin {"commit", "readback"} => signalled \ {pc} = {}

LEMMA MainIsFree ==
    ASSUME Good, pc = "idle" \/ pc \in signalled
    PROVE  MainFree
<1> USE DEF Good
<1>1. \A t \in Blocking : ~In(implQueue, t)
  BY DEF CallInv, Blocking, ReadbackInv
<1>2. "sent" \notin events /\ "commit" \notin events /\ "held" \notin events /\ "textures" \notin events
  BY DEF CallInv, ReadbackInv
<1>3. stage \notin {"visible", "init", "readback"}
  BY DEF CallInv
<1>4. ~Starting /\ ~uploading
  BY <1>1, <1>2 DEF Starting, Blocking, TokenInv
<1>5. signalled \ {pc} \subseteq {"readback"}
  BY DEF CallInv
<1>6. pc \notin {"commit", "readback"} => signalled \ {pc} = {}
  BY <1>5 DEF ReadbackInv
<1> QED BY <1>1, <1>2, <1>3, <1>4, <1>5, <1>6 DEF MainFree

LEMMA IdleIsFree ==
    ASSUME TypeOK, Good, pc = "idle"
    PROVE  MainFree /\ signalled = {} /\ ~main.inReadback
<1>1. MainFree
  BY MainIsFree
<1>2. signalled = {}
  BY <1>1 DEF MainFree, TypeOK, Completions
<1> QED BY <1>1, <1>2 DEF Good, ReadbackInv

\* A task the main thread waits for is posted with the wait.
WaitsAt(tasks, next) ==
    /\ In(tasks, "Show") \/ In(tasks, "Hide") => next = "visible"
    /\ In(tasks, "ForceCommitForReadback") => next = "sent"
    /\ In(tasks, "StartCommit") => next = "commit"
    /\ In(tasks, "AcquireLayerTextures") => next = "textures"
    /\ In(tasks, "HasInitializedOutputSurface") => next = "has"
    /\ In(tasks, "InitializeOutputSurface") => next = "init"

\* What every step of the main thread has in common.
MainSteps(tasks) ==
    /\ UNCHANGED <<sm, requested, deadline, poll, stage, surface, events, uploading>>
    /\ signalled' = signalled \ {pc}
    /\ \A t : In(implQueue', t) <=> In(implQueue, t) \/ In(tasks, t)
    /\ BlockingLast(implQueue')
    /\ WaitsAt(tasks, pc')

LEMMA PostsTasks ==
    ASSUME TypeOK, Good, MainFree, NEW tasks \in Seq(ImplTasks), BlockingLast(tasks),
           implQueue' = implQueue \o tasks
    PROVE  /\ \A t : In(implQueue', t) <=> In(implQueue, t) \/ In(tasks, t)
           /\ BlockingLast(implQueue')
           /\ Once(tasks, Answers) /\ (None(implQueue, Answers) \/ None(tasks, Answers))
                => Once(implQueue', Answers)
<1>1. None(implQueue, Blocking) /\ Once(implQueue, Answers) /\ implQueue \in Seq(ImplTasks)
  BY DEF MainFree, None, Good, TokenInv, TypeOK
<1> DEFINE q == implQueue
<1>2. /\ \A t : In(q \o tasks, t) <=> In(q, t) \/ In(tasks, t)
      /\ \A a : Once(q, a) /\ Once(tasks, a) /\ (None(q, a) \/ None(tasks, a)) => Once(q \o tasks, a)
      /\ None(q, Blocking) /\ BlockingLast(tasks) => BlockingLast(q \o tasks)
  BY <1>1, ConcatOfQueues
<1> QED BY <1>1, <1>2

LEMMA MainCallGood ==
    ASSUME Good, MainFree, NEW tasks, MainSteps(tasks)
    PROVE  CallInv'
<1>1. signalled' \subseteq {"readback"}
  BY DEF MainFree, MainSteps
<1>2. /\ "sent" \notin events' /\ "commit" \notin events' /\ "held" \notin events'
      /\ "textures" \notin events' /\ stage' \notin {"visible", "init", "readback"}
  BY DEF MainFree, MainSteps
<1>3. \A t \in Blocking : In(implQueue', t) => In(tasks, t)
  BY DEF MainFree, MainSteps
<1>4. /\ In(implQueue', "Show") \/ In(implQueue', "Hide") => pc' = "visible"
      /\ In(implQueue', "ForceCommitForReadback") => pc' = "sent"
      /\ In(implQueue', "StartCommit") => pc' = "commit"
      /\ In(implQueue', "AcquireLayerTextures") => pc' = "textures"
      /\ In(implQueue', "HasInitializedOutputSurface") => pc' = "has"
      /\ In(implQueue', "InitializeOutputSurface") => pc' = "init"
  BY <1>3 DEF WaitsAt, MainSteps, Blocking
<1>5. BlockingLast(implQueue')
  BY DEF MainSteps
<1> QED BY <1>1, <1>2, <1>4, <1>5 DEF CallInv

\* A step that neither answers a BeginMainFrame nor takes one.
LEMMA MainKeeps ==
    ASSUME Good, MainFree, NEW tasks, MainSteps(tasks), Once(implQueue', Answers),
           \A t \in Answers : ~In(tasks, t),
           FrameOut' <=> FrameOut, Once(mainQueue', {"BeginMainFrame"}),
           main'.deferred => ~In(mainQueue', "BeginMainFrame") /\ main'.deferCommits
    PROVE  /\ FrameInv' /\ RestInv' /\ PipeInv(sm)' /\ TokenInv' /\ CallInv'
           /\ ~Starting' /\ (In(implQueue', "AbortHandled") <=> In(implQueue, "AbortHandled"))
           /\ In(implQueue, "SetNeedsCommit") => In(implQueue', "SetNeedsCommit")
<1> USE DEF Good
<1>1. FrameInv' /\ RestInv' /\ PipeInv(sm)'
  BY DEF FrameInv, RestInv, MainSteps
<1>2. CallInv'
  BY MainCallGood
<1>3. (Starting' <=> Starting) /\ (Aborting' <=> Aborting)
  BY DEF MainSteps, Answers, Starting, Aborting
<1>4. TokenInv'
  BY <1>3 DEF TokenInv, MainSteps
<1>5. /\ ~Starting' /\ (In(implQueue', "AbortHandled") <=> In(implQueue, "AbortHandled"))
      /\ In(implQueue, "SetNeedsCommit") => In(implQueue', "SetNeedsCommit")
  BY <1>3 DEF MainFree, MainSteps, Answers
<1> QED BY <1>1, <1>2, <1>4, <1>5


\* At most one task is posted, and it is no answer.
LEMMA PostsOne ==
    ASSUME TypeOK, Good, MainFree, NEW a \in ImplTasks \ Answers, NEW tasks \in {<<>>, <<a>>},
           implQueue' = implQueue \o tasks
    PROVE  /\ \A t : In(implQueue', t) <=> In(implQueue, t) \/ In(tasks, t)
           /\ BlockingLast(implQueue') /\ Once(implQueue', Answers)
           /\ \A t : In(tasks, t) => t = a
           /\ tasks = <<a>> => In(tasks, a)
           /\ \A t \in Answers : ~In(tasks, t)
<1>1. /\ <<>> \in Seq(ImplTasks) /\ \A t : ~In(<<>>, t)
      /\ Once(<<>>, Answers) /\ BlockingLast(<<>>)
      /\ <<a>> \in Seq(ImplTasks) /\ \A t : In(<<a>>, t) <=> t = a
      /\ Once(<<a>>, Answers) /\ BlockingLast(<<a>>)
  BY ShortQueues
<1>2. /\ tasks \in Seq(ImplTasks) /\ Once(tasks, Answers) /\ BlockingLast(tasks)
      /\ \A t : In(tasks, t) => t = a
      /\ tasks = <<a>> => In(tasks, a)
  BY <1>1
<1>3. \A t \in Answers : ~In(tasks, t)
  BY <1>2
<1>4. None(tasks, Answers)
  BY <1>3 DEF None
<1> QED BY <1>2, <1>3, <1>4, PostsTasks

\* Requests: SetNeedsCommit, SetNeedsAnimate, SetNeedsUpdateLayers.
LEMMA RequestsGood ==
    ASSUME TypeOK, failed = {}, Good, SetNeedsCommit \/ SetNeedsAnimate \/ SetNeedsUpdateLayers
    PROVE  failed' = {} /\ Good'
<1> USE DEF Good
<1>1. /\ pc = "idle" /\ pc' = "idle"
      /\ UNCHANGED <<sm, requested, deadline, poll, stage, surface, events, uploading, signalled,
                     mainQueue, failed>>
  BY DEF SetNeedsCommit, SetNeedsAnimate, SetNeedsUpdateLayers, Call, Post, schedulerVars, proxyVars
<1>2. MainFree /\ signalled = {}
  BY <1>1, IdleIsFree
<1>3. PICK tasks \in {<<>>, <<"SetNeedsCommit">>} :
        /\ implQueue' = implQueue \o tasks
        /\ ~main.requestSent => tasks = <<"SetNeedsCommit">>
  <2>1. main.commitRequested => main.requestSent
    BY DEF RequestInv
  <2>2. CASE SetNeedsCommit
    <3>1. implQueue' = implQueue \o <<>> \/ (implQueue' = implQueue \o CommitRequest(main))
      BY <2>2 DEF SetNeedsCommit, Post, CommitRequest, TypeOK, MainState
    <3>2. ~main.requestSent => implQueue' = implQueue \o CommitRequest(main)
      BY <2>1, <2>2 DEF SetNeedsCommit, Post, CommitRequest, TypeOK, MainState
    <3> QED BY <3>1, <3>2 DEF CommitRequest
  <2>3. CASE SetNeedsAnimate \/ SetNeedsUpdateLayers
    BY <2>3 DEF SetNeedsAnimate, SetNeedsUpdateLayers, Post, CommitRequest
  <2> QED BY <2>2, <2>3
<1>4. /\ main'.deferred = main.deferred /\ main'.deferCommits = main.deferCommits
      /\ main'.inReadback = main.inReadback /\ main'.surfaceLost = main.surfaceLost
      /\ main'.reply = main.reply /\ main'.texturesAcquired = main.texturesAcquired
      /\ main'.requestSent
  BY SMTT(40), ZenonT(40) DEF SetNeedsCommit, SetNeedsAnimate, SetNeedsUpdateLayers, Post, TypeOK, MainState, RequestInv
<1> DEFINE a == "SetNeedsCommit"
<1>5. a \in ImplTasks \ Answers /\ tasks \in {<<>>, <<a>>} /\ (~main.requestSent => tasks = <<a>>)
  BY <1>3 DEF ImplTasks, Answers
<1>6. /\ \A t : In(implQueue', t) <=> In(implQueue, t) \/ In(tasks, t)
      /\ BlockingLast(implQueue') /\ Once(implQueue', Answers)
      /\ \A t : In(tasks, t) => t = "SetNeedsCommit"
      /\ ~main.requestSent => In(tasks, "SetNeedsCommit")
      /\ \A t \in Answers : ~In(tasks, t)
  <2> HIDE DEF a
  <2>1. /\ \A t : In(implQueue', t) <=> In(implQueue, t) \/ In(tasks, t)
        /\ BlockingLast(implQueue') /\ Once(implQueue', Answers)
        /\ \A t : In(tasks, t) => t = a
        /\ ~main.requestSent => In(tasks, a)
        /\ \A t \in Answers : ~In(tasks, t)
    BY <1>2, <1>3, <1>5, PostsOne
  <2> QED BY <2>1 DEF a
<1>7. MainSteps(tasks)
  <2>1. signalled' = signalled \ {pc}
    BY <1>1, <1>2
  <2>2. WaitsAt(tasks, pc')
    BY <1>6 DEF WaitsAt
  <2> QED BY <2>1, <2>2, <1>1, <1>6 DEF MainSteps
<1>8. /\ FrameOut' <=> FrameOut
      /\ Once(mainQueue', {"BeginMainFrame"})
      /\ main'.deferred => ~In(mainQueue', "BeginMainFrame") /\ main'.deferCommits
  BY <1>1, <1>4 DEF FrameOut, TokenInv
<1>9. /\ FrameInv' /\ RestInv' /\ PipeInv(sm)' /\ TokenInv' /\ CallInv'
      /\ ~Starting' /\ (In(implQueue', "AbortHandled") <=> In(implQueue, "AbortHandled"))
      /\ In(implQueue, "SetNeedsCommit") => In(implQueue', "SetNeedsCommit")
  BY <1>2, <1>6, <1>7, <1>8, MainKeeps
<1>10. ReadbackInv'
  BY <1>1, <1>4 DEF ReadbackInv
<1>11. SurfaceInv'
  BY <1>1, <1>4, <1>6 DEF SurfaceInv
<1>12. TextureInv'
  BY <1>1, <1>2, <1>4, <1>9 DEF TextureInv, MainFree
<1>13. RequestInv'
  BY <1>1, <1>4, <1>6, <1>8, <1>9 DEF RequestInv
<1> QED BY <1>1, <1>9, <1>10, <1>11, <1>12, <1>13

\* Calls that wait, and calls that only change what the main thread remembers.
LEMMA CallsGood ==
    ASSUME TypeOK, failed = {}, Good,
           \/ SetVisible \/ AcquireLayerTextures \/ SetNextCommitWaitsForActivation
           \/ CompositeAndReadback
    PROVE  failed' = {} /\ Good'
<1> USE DEF Good
<1>1. /\ pc = "idle"
      /\ UNCHANGED <<sm, requested, deadline, poll, stage, surface, events, uploading, signalled,
                     mainQueue, failed>>
  BY DEF SetVisible, AcquireLayerTextures, SetNextCommitWaitsForActivation, CompositeAndReadback,
         Call, Post, schedulerVars, proxyVars
<1>2. MainFree /\ signalled = {} /\ ~main.inReadback
  BY <1>1, IdleIsFree
<1>0. PICK a \in {"Show", "Hide", "AcquireLayerTextures", "HasInitializedOutputSurface",
                  "ForceCommitForReadback"} : \E tasks \in {<<>>, <<a>>} :
        /\ implQueue' = implQueue \o tasks
        /\ tasks # <<>> => WaitsAt(<<a>>, pc')
        /\ pc' \in {"idle", "visible", "textures", "has", "sent"}
        /\ pc' \in {"idle", "visible", "textures"} => main'.inReadback = main.inReadback
        /\ pc' = "textures" => ~main.texturesAcquired
        /\ pc' = "sent" => main'.inReadback /\ ~main.surfaceLost
  <2>0. \A a \in ImplTasks : \A t : In(<<a>>, t) <=> t = a
    BY ShortQueues
  <2>1. CASE SetVisible
    <3> DEFINE a == IF main.visible THEN "Hide" ELSE "Show"
    <3>1. implQueue' = implQueue \o <<a>> /\ pc' = "visible" /\ main'.inReadback = main.inReadback
      BY <2>1 DEF SetVisible, Post, TypeOK, MainState
    <3>2. a \in {"Show", "Hide"} /\ a \in ImplTasks
      BY DEF ImplTasks
    <3> HIDE DEF a
    <3>3. WaitsAt(<<a>>, pc')
      BY <2>0, <3>1, <3>2 DEF WaitsAt
    <3> QED BY <3>1, <3>2, <3>3
  <2>2. CASE AcquireLayerTextures
    <3>1. /\ implQueue' = implQueue \o <<"AcquireLayerTextures">> /\ pc' = "textures"
          /\ main' = main /\ ~main.texturesAcquired
      BY <2>2 DEF AcquireLayerTextures, Post
    <3>2. WaitsAt(<<"AcquireLayerTextures">>, pc')
      BY <2>0, <3>1 DEF WaitsAt, ImplTasks
    <3> QED BY <3>1, <3>2
  <2>3. CASE SetNextCommitWaitsForActivation
    <3>1. implQueue' = implQueue \o <<>> /\ pc' = "idle" /\ main'.inReadback = main.inReadback
      BY <2>3 DEF SetNextCommitWaitsForActivation, Post, TypeOK, MainState
    <3> QED BY <3>1
  <2>4. CASE CompositeAndReadback
    <3>1. main'.inReadback
      BY <2>4 DEF CompositeAndReadback, Post, TypeOK, MainState
    <3>2. CASE main.surfaceLost
      <4>1. implQueue' = implQueue \o <<"HasInitializedOutputSurface">> /\ pc' = "has"
        BY <2>4, <3>2 DEF CompositeAndReadback, Post
      <4>2. WaitsAt(<<"HasInitializedOutputSurface">>, pc')
        BY <2>0, <4>1 DEF WaitsAt, ImplTasks
      <4> QED BY <3>1, <4>1, <4>2
    <3>3. CASE ~main.surfaceLost
      <4>1. implQueue' = implQueue \o <<"ForceCommitForReadback">> /\ pc' = "sent"
        BY <2>4, <3>3 DEF CompositeAndReadback, Post
      <4>2. WaitsAt(<<"ForceCommitForReadback">>, pc')
        BY <2>0, <4>1 DEF WaitsAt, ImplTasks
      <4> QED BY <3>1, <3>3, <4>1, <4>2
    <3> QED BY <3>2, <3>3
  <2> QED BY <2>1, <2>2, <2>3, <2>4
<1>3. PICK tasks \in {<<>>, <<a>>} :
        /\ implQueue' = implQueue \o tasks
        /\ tasks # <<>> => WaitsAt(<<a>>, pc')
        /\ pc' \in {"idle", "visible", "textures", "has", "sent"}
        /\ pc' \in {"idle", "visible", "textures"} => main'.inReadback = main.inReadback
        /\ pc' = "textures" => ~main.texturesAcquired
        /\ pc' = "sent" => main'.inReadback /\ ~main.surfaceLost
  BY <1>0
<1>4. /\ main'.deferred = main.deferred /\ main'.deferCommits = main.deferCommits
      /\ main'.surfaceLost = main.surfaceLost /\ main'.reply = main.reply
      /\ main'.texturesAcquired = main.texturesAcquired
      /\ main'.commitRequested = main.commitRequested
      /\ main'.animateRequested = main.animateRequested /\ main'.requestSent = main.requestSent
  BY DEF SetVisible, AcquireLayerTextures, SetNextCommitWaitsForActivation, CompositeAndReadback,
         Post, TypeOK, MainState
<1>5. a \in ImplTasks \ Answers
  BY DEF ImplTasks, Answers
<1>6. /\ \A t : In(implQueue', t) <=> In(implQueue, t) \/ In(tasks, t)
      /\ BlockingLast(implQueue') /\ Once(implQueue', Answers)
      /\ \A t : In(tasks, t) => t = a
      /\ \A t \in Answers : ~In(tasks, t)
  BY <1>2, <1>3, <1>5, PostsOne
<1>7. MainSteps(tasks)
  <2>1. signalled' = signalled \ {pc}
    BY <1>1, <1>2
  <2>2. \A t : ~In(<<>>, t)
    BY ShortQueues
  <2>3. WaitsAt(tasks, pc')
    <3>1. CASE tasks = <<>>
      BY <2>2, <3>1 DEF WaitsAt
    <3>2. CASE tasks # <<>>
      BY <3>2, <1>3
    <3> QED BY <3>1, <3>2
  <2> QED BY <2>1, <2>3, <1>1, <1>6 DEF MainSteps
<1>8. /\ FrameOut' <=> FrameOut
      /\ Once(mainQueue', {"BeginMainFrame"})
      /\ main'.deferred => ~In(mainQueue', "BeginMainFrame") /\ main'.deferCommits
  BY <1>1, <1>4 DEF FrameOut, TokenInv
<1>9. /\ FrameInv' /\ RestInv' /\ PipeInv(sm)' /\ TokenInv' /\ CallInv'
      /\ ~Starting' /\ (In(implQueue', "AbortHandled") <=> In(implQueue, "AbortHandled"))
      /\ In(implQueue, "SetNeedsCommit") => In(implQueue', "SetNeedsCommit")
  BY <1>2, <1>6, <1>7, <1>8, MainKeeps
<1>10. ReadbackInv'
  BY <1>1, <1>2, <1>3 DEF ReadbackInv, ReadingBack
<1>11. SurfaceInv'
  BY <1>1, <1>2, <1>3, <1>4, <1>6 DEF SurfaceInv
<1>12. TextureInv'
  BY <1>1, <1>2, <1>3, <1>4, <1>9 DEF TextureInv, MainFree
<1>13. RequestInv'
  BY <1>1, <1>4, <1>8, <1>9 DEF RequestInv
<1> QED BY <1>1, <1>9, <1>10, <1>11, <1>12, <1>13


\* Nothing is posted.
LEMMA PostsNothing ==
    ASSUME TypeOK, Good, MainFree, implQueue' = implQueue \o <<>>
    PROVE  /\ implQueue' = implQueue
           /\ \A t : ~In(<<>>, t)
           /\ \A next : WaitsAt(<<>>, next)
           /\ BlockingLast(implQueue') /\ Once(implQueue', Answers)
<1>1. implQueue' = implQueue
  BY ConcatEmptySeq DEF TypeOK
<1>2. \A t : ~In(<<>>, t)
  BY ShortQueues
<1>3. \A next : WaitsAt(<<>>, next)
  BY <1>2 DEF WaitsAt
<1> QED BY <1>1, <1>2, <1>3 DEF Good, CallInv, TokenInv

LEMMA SetDeferCommitsGood ==
    ASSUME TypeOK, failed = {}, Good, SetDeferCommits
    PROVE  failed' = {} /\ Good'
<1> USE DEF Good
<1>1. /\ pc = "idle" /\ pc' = "idle" /\ implQueue' = implQueue \o <<>>
      /\ UNCHANGED <<sm, requested, deadline, poll, stage, surface, events, uploading, signalled, failed>>
      /\ mainQueue' = IF main.deferCommits /\ main.deferred THEN Append(mainQueue, "BeginMainFrame")
                                                            ELSE mainQueue
  BY DEF SetDeferCommits, Call, Post, schedulerVars, proxyVars
<1>2. MainFree /\ signalled = {} /\ ~main.inReadback
  BY <1>1, IdleIsFree
<1>3. /\ main'.inReadback = main.inReadback /\ main'.deferred = FALSE
      /\ main'.surfaceLost = main.surfaceLost /\ main'.reply = main.reply
      /\ main'.texturesAcquired = main.texturesAcquired
      /\ main'.commitRequested = main.commitRequested
      /\ main'.animateRequested = main.animateRequested /\ main'.requestSent = main.requestSent
  BY DEF SetDeferCommits, Post, TypeOK, MainState
<1>4. /\ implQueue' = implQueue /\ \A t : ~In(<<>>, t)
      /\ WaitsAt(<<>>, pc') /\ BlockingLast(implQueue') /\ Once(implQueue', Answers)
  BY <1>1, <1>2, PostsNothing
<1>5. MainSteps(<<>>)
  BY <1>1, <1>2, <1>4 DEF MainSteps
<1>6. /\ \A task : In(Append(mainQueue, "BeginMainFrame"), task) <=>
                     In(mainQueue, task) \/ task = "BeginMainFrame"
      /\ \A tasks : Once(mainQueue, tasks) /\ (None(mainQueue, tasks) \/ "BeginMainFrame" \notin tasks)
                      => Once(Append(mainQueue, "BeginMainFrame"), tasks)
  BY AppendToQueue DEF TypeOK, MainTasks
<1>7. /\ main.deferred => ~In(mainQueue, "BeginMainFrame") /\ main.deferCommits
      /\ Once(mainQueue, {"BeginMainFrame"}) /\ Once(mainQueue, {"Retry"})
  BY DEF TokenInv, SurfaceInv
<1>8. /\ FrameOut' <=> FrameOut
      /\ Once(mainQueue', {"BeginMainFrame"}) /\ Once(mainQueue', {"Retry"})
      /\ In(mainQueue', "Retry") <=> In(mainQueue, "Retry")
  <2>1. CASE main.deferCommits /\ main.deferred
    <3>1. None(mainQueue, {"BeginMainFrame"})
      BY <2>1, <1>7 DEF None
    <3>2. mainQueue' = Append(mainQueue, "BeginMainFrame")
      BY <2>1, <1>1
    <3> QED BY <2>1, <3>1, <3>2, <1>3, <1>6, <1>7 DEF FrameOut
  <2>2. CASE ~(main.deferCommits /\ main.deferred)
    <3>1. mainQueue' = mainQueue /\ ~main.deferred
      BY <2>2, <1>1, <1>7
    <3> QED BY <3>1, <1>3, <1>7 DEF FrameOut
  <2> QED BY <2>1, <2>2
<1>9. /\ FrameInv' /\ RestInv' /\ PipeInv(sm)' /\ TokenInv' /\ CallInv'
      /\ ~Starting' /\ (In(implQueue', "AbortHandled") <=> In(implQueue, "AbortHandled"))
      /\ In(implQueue, "SetNeedsCommit") => In(implQueue', "SetNeedsCommit")
  BY <1>2, <1>3, <1>4, <1>5, <1>8, MainKeeps
<1>10. ReadbackInv'
  BY <1>1, <1>3 DEF ReadbackInv
<1>11. SurfaceInv'
  BY <1>1, <1>3, <1>4, <1>8 DEF SurfaceInv
<1>12. TextureInv'
  BY <1>1, <1>2, <1>3, <1>9 DEF TextureInv, MainFree
<1>13. RequestInv'
  BY <1>1, <1>3, <1>8, <1>9 DEF RequestInv
<1> QED BY <1>1, <1>9, <1>10, <1>11, <1>12, <1>13

\* Waits that are over and after which nothing is posted.
LEMMA ReturnsGood ==
    ASSUME TypeOK, failed = {}, Good,
           \/ SetVisibleReturns \/ AcquireLayerTexturesReturns \/ BeginMainFrameReturns
           \/ CompositeAndReadbackReturns
    PROVE  failed' = {} /\ Good'
<1> USE DEF Good
<1>1. /\ pc \in signalled /\ implQueue' = implQueue \o <<>> /\ signalled' = signalled \ {pc}
      /\ UNCHANGED <<sm, requested, deadline, poll, stage, surface, events, uploading, mainQueue, failed>>
  BY DEF SetVisibleReturns, AcquireLayerTexturesReturns, BeginMainFrameReturns,
         CompositeAndReadbackReturns, Resume, Post, schedulerVars, proxyVars
<1>2. MainFree
  BY <1>1, MainIsFree
<1>3. /\ implQueue' = implQueue /\ \A t : ~In(<<>>, t)
      /\ WaitsAt(<<>>, pc') /\ BlockingLast(implQueue') /\ Once(implQueue', Answers)
  BY <1>1, <1>2, PostsNothing
<1>4. /\ main'.deferred = main.deferred /\ main'.deferCommits = main.deferCommits
      /\ main'.surfaceLost = main.surfaceLost /\ main'.reply = main.reply
      /\ main'.commitRequested = main.commitRequested
      /\ main'.animateRequested = main.animateRequested /\ main'.requestSent = main.requestSent
  BY DEF SetVisibleReturns, AcquireLayerTexturesReturns, BeginMainFrameReturns,
         CompositeAndReadbackReturns, Post, TypeOK, MainState
<1>5. MainSteps(<<>>)
  BY <1>1, <1>3 DEF MainSteps
<1>6. /\ FrameOut' <=> FrameOut
      /\ Once(mainQueue', {"BeginMainFrame"})
      /\ main'.deferred => ~In(mainQueue', "BeginMainFrame") /\ main'.deferCommits
  BY <1>1, <1>4 DEF FrameOut, TokenInv
<1>7. /\ FrameInv' /\ RestInv' /\ PipeInv(sm)' /\ TokenInv' /\ CallInv'
      /\ ~Starting' /\ (In(implQueue', "AbortHandled") <=> In(implQueue, "AbortHandled"))
      /\ In(implQueue, "SetNeedsCommit") => In(implQueue', "SetNeedsCommit")
  BY <1>2, <1>3, <1>5, <1>6, MainKeeps
<1>8. RequestInv'
  BY <1>1, <1>4, <1>6, <1>7 DEF RequestInv
<1>9. /\ pc \in {"visible", "textures"} =>
            pc' = "idle" /\ main'.inReadback = main.inReadback
      /\ pc = "commit" => /\ pc' = IF main.inReadback THEN "readback" ELSE "idle"
                          /\ main'.inReadback = main.inReadback
      /\ pc = "readback" => pc' = "idle" /\ main'.inReadback = FALSE
      /\ pc # "textures" => main'.texturesAcquired = main.texturesAcquired
      /\ pc = "textures" => main'.texturesAcquired
      /\ pc \in {"visible", "textures", "commit", "readback"}
  BY DEF SetVisibleReturns, AcquireLayerTexturesReturns, BeginMainFrameReturns,
         CompositeAndReadbackReturns, Resume, Post, TypeOK, MainState
<1>10. signalled' \subseteq {"readback"} /\ (pc # "commit" => signalled' = {})
  BY <1>1, <1>2, <1>9 DEF MainFree
<1>11. ReadbackInv'
  BY <1>1, <1>9, <1>10 DEF ReadbackInv, ReadingBack
<1>12. SurfaceInv'
  BY <1>1, <1>3, <1>4, <1>9, <1>10 DEF SurfaceInv
<1>13. TextureInv'
  <2>1. CASE pc = "textures"
    <3>1. sm.texture = "MAIN_THREAD" /\ ~In(implQueue, "AbortHandled")
      BY <2>1, <1>1 DEF TextureInv
    <3> QED BY <2>1, <3>1, <1>1, <1>2, <1>7, <1>9, <1>10 DEF TextureInv, MainFree
  <2>2. CASE pc # "textures"
    <3>1. "textures" \notin signalled
      BY <2>2 DEF CallInv
    <3> QED BY <2>2, <3>1, <1>1, <1>2, <1>7, <1>9, <1>10 DEF TextureInv, MainFree
  <2> QED BY <2>1, <2>2
<1> QED BY <1>1, <1>7, <1>8, <1>11, <1>12, <1>13


\* The steps of the creation of an output surface: one of them waits, or goes on with
\* the readback that needs the surface, or is done.
SurfaceStep(tasks) ==
    /\ MainSteps(tasks)
    /\ pc \in {"idle", "has", "init"} /\ pc' \in {"idle", "has", "init", "sent"}
    /\ Once(implQueue', Answers)
    /\ \A t \in Answers : ~In(tasks, t)
    /\ main'.deferred = main.deferred /\ main'.deferCommits = main.deferCommits
    /\ main'.texturesAcquired = main.texturesAcquired
    /\ main'.commitRequested \/ main'.animateRequested => main'.requestSent
    /\ main'.requestSent => main.requestSent \/ In(tasks, "SetNeedsCommit")
    /\ In(mainQueue', "BeginMainFrame") <=> In(mainQueue, "BeginMainFrame")
    /\ Once(mainQueue', {"BeginMainFrame"}) /\ Once(mainQueue', {"Retry"})
    /\ In(mainQueue', "Retry") => main'.surfaceLost /\ ~HasInitializedOutputSurface(sm)
    /\ ~main'.surfaceLost => surface.renderer
    /\ pc' = "sent" => main'.inReadback /\ ~main'.surfaceLost
    /\ pc' = "idle" => ~main'.inReadback
    /\ pc' = "init" => /\ main'.surfaceLost /\ ~In(mainQueue', "Retry")
                       /\ ~HasInitializedOutputSurface(sm)

LEMMA SurfaceStepGood ==
    ASSUME Good, MainFree, NEW tasks, SurfaceStep(tasks)
    PROVE  Good'
<1> USE DEF Good
<1>1. /\ pc \in {"idle", "has", "init"} /\ pc' \in {"idle", "has", "init", "sent"}
      /\ signalled' = {}
      /\ UNCHANGED <<sm, requested, deadline, poll, stage, surface, events, uploading>>
  BY DEF SurfaceStep, MainSteps, MainFree
<1>2. /\ FrameOut' <=> FrameOut
      /\ Once(mainQueue', {"BeginMainFrame"})
      /\ main'.deferred => ~In(mainQueue', "BeginMainFrame") /\ main'.deferCommits
  BY DEF SurfaceStep, FrameOut, TokenInv
<1>3. /\ FrameInv' /\ RestInv' /\ PipeInv(sm)' /\ TokenInv' /\ CallInv'
      /\ ~Starting' /\ (In(implQueue', "AbortHandled") <=> In(implQueue, "AbortHandled"))
      /\ In(implQueue, "SetNeedsCommit") => In(implQueue', "SetNeedsCommit")
  BY <1>2, MainKeeps DEF SurfaceStep
<1>4. ReadbackInv'
  BY <1>1 DEF ReadbackInv, ReadingBack, SurfaceStep
<1>5. SurfaceInv'
  <2>1. In(implQueue', "InitializeOutputSurface") => pc' = "init"
    BY <1>3 DEF CallInv
  <2>2. stage' # "init"
    BY <1>1 DEF MainFree
  <2> QED BY <2>1, <2>2, <1>1 DEF SurfaceInv, SurfaceStep
<1>6. TextureInv'
  <2>1. "textures" \notin signalled
    BY <1>1 DEF CallInv
  <2> QED BY <2>1, <1>1, <1>3 DEF TextureInv, MainFree, SurfaceStep
<1>7. RequestInv'
  <2>1. In(tasks, "SetNeedsCommit") => In(implQueue', "SetNeedsCommit")
    BY DEF SurfaceStep, MainSteps
  <2> QED BY <2>1, <1>1, <1>2, <1>3 DEF RequestInv, SurfaceStep
<1> QED BY <1>3, <1>4, <1>5, <1>6, <1>7

LEMMA CreateTaskGood ==
    ASSUME TypeOK, failed = {}, Good, CreateAndInitializeOutputSurface
    PROVE  failed' = {} /\ Good'
<1> USE DEF Good
<1> DEFINE a == "HasInitializedOutputSurface"
           tasks == <<a>>
<1>1. /\ pc = "idle" /\ pc' = "has" /\ implQueue' = implQueue \o tasks /\ main' = main
      /\ mainQueue # <<>> /\ Head(mainQueue) = "CreateAndInitializeOutputSurface"
      /\ mainQueue' = Tail(mainQueue)
      /\ UNCHANGED <<sm, requested, deadline, poll, stage, surface, events, uploading, signalled, failed>>
  BY DEF CreateAndInitializeOutputSurface, MainTask, Post, schedulerVars, proxyVars
<1>2. MainFree /\ signalled = {} /\ ~main.inReadback
  BY <1>1, IdleIsFree
<1>3. a \in ImplTasks \ Answers
  BY DEF ImplTasks, Answers
<1>4. /\ \A t : In(implQueue', t) <=> In(implQueue, t) \/ In(tasks, t)
      /\ BlockingLast(implQueue') /\ Once(implQueue', Answers)
      /\ \A t : In(tasks, t) => t = a
      /\ \A t \in Answers : ~In(tasks, t)
  <2>1. tasks \in {<<>>, <<a>>} /\ implQueue' = implQueue \o tasks
    BY <1>1
  <2> HIDE DEF a, tasks
  <2> QED BY <2>1, <1>2, <1>3, PostsOne
<1> HIDE DEF tasks
<1>5. MainSteps(tasks)
  <2>1. WaitsAt(tasks, pc')
    BY <1>1, <1>4 DEF WaitsAt
  <2> QED BY <2>1, <1>1, <1>2, <1>4 DEF MainSteps
<1>6. /\ In(mainQueue', "BeginMainFrame") <=> In(mainQueue, "BeginMainFrame")
      /\ In(mainQueue', "Retry") => In(mainQueue, "Retry")
      /\ Once(mainQueue', {"BeginMainFrame"}) /\ Once(mainQueue', {"Retry"})
  <2> DEFINE q == mainQueue
  <2>1. /\ \A t : In(q, t) => t = Head(q) \/ In(Tail(q), t)
        /\ \A t : In(Tail(q), t) => In(q, t)
        /\ \A s : Once(q, s) => Once(Tail(q), s)
    BY <1>1, TailOfQueue DEF TypeOK
  <2> QED BY <2>1, <1>1 DEF TokenInv, SurfaceInv
<1>7. SurfaceStep(tasks)
  BY <1>1, <1>2, <1>4, <1>5, <1>6 DEF SurfaceStep, RequestInv, SurfaceInv
<1> QED BY <1>1, <1>2, <1>7, SurfaceStepGood

\* A commit is asked for, or nothing.
OnlyRequests(tasks) == \A t : In(tasks, t) => t = "SetNeedsCommit"

\* The tasks posted at the end: what was asked for, and perhaps a task to wait for.
Fits(tasks, x, all) ==
    /\ all \in Seq(ImplTasks) /\ BlockingLast(all)
    /\ \A t : In(all, t) => t = "SetNeedsCommit" \/ t = x
    /\ \A t : In(tasks, t) => In(all, t)

LEMMA RequestsFit ==
    ASSUME NEW tasks \in Seq(ImplTasks), OnlyRequests(tasks),
           NEW x \in {"ForceCommitForReadback", "InitializeOutputSurface"}
    PROVE  Fits(tasks, x, tasks) /\ Fits(tasks, x, tasks \o <<x>>)
<1>1. x \in ImplTasks
  BY DEF ImplTasks
<1>2. BlockingLast(tasks) /\ None(tasks, Blocking)
  BY DEF OnlyRequests, BlockingLast, In, None, Blocking
<1> DEFINE y == <<x>>
<1>3. y \in Seq(ImplTasks) /\ BlockingLast(y) /\ \A t : In(y, t) <=> t = x
  BY <1>1, ShortQueues
<1> HIDE DEF y
<1>4. /\ tasks \o y \in Seq(ImplTasks)
      /\ \A t : In(tasks \o y, t) <=> In(tasks, t) \/ In(y, t)
      /\ None(tasks, Blocking) /\ BlockingLast(y) => BlockingLast(tasks \o y)
  BY <1>3, ConcatOfQueues
<1>5. Fits(tasks, x, tasks)
  BY <1>2 DEF Fits, OnlyRequests
<1>6. Fits(tasks, x, tasks \o y)
  BY <1>2, <1>3, <1>4 DEF Fits, OnlyRequests
<1> QED BY <1>5, <1>6 DEF y

LEMMA PostsBoth ==
    ASSUME TypeOK, Good, MainFree, NEW tasks,
           NEW x \in {"ForceCommitForReadback", "InitializeOutputSurface"},
           NEW all, Fits(tasks, x, all), implQueue' = implQueue \o all
    PROVE  /\ \A t : In(implQueue', t) <=> In(implQueue, t) \/ In(all, t)
           /\ BlockingLast(implQueue') /\ Once(implQueue', Answers)
           /\ \A t \in Answers : ~In(all, t)
<1>1. all \in Seq(ImplTasks) /\ BlockingLast(all)
  BY DEF Fits
<1>2. \A t \in Answers : ~In(all, t)
  BY DEF Fits, Answers
<1>3. None(all, Answers) /\ Once(all, Answers)
  BY <1>2 DEF None, Once, In
<1>4. /\ \A t : In(implQueue', t) <=> In(implQueue, t) \/ In(all, t)
      /\ BlockingLast(implQueue')
      /\ Once(all, Answers) /\ (None(implQueue, Answers) \/ None(all, Answers))
           => Once(implQueue', Answers)
  BY <1>1, PostsTasks
<1> QED BY <1>2, <1>3, <1>4

\* What is posted, and what the main thread goes on as, when the creation goes on.
Carries(tasks, m) ==
    /\ OnlyRequests(tasks)
    /\ m.deferred = main.deferred /\ m.deferCommits = main.deferCommits
    /\ m.texturesAcquired = main.texturesAcquired
    /\ m.commitRequested \/ m.animateRequested => m.requestSent
    /\ m.requestSent => main.requestSent \/ In(tasks, "SetNeedsCommit")
    /\ ~m.surfaceLost => surface.renderer

\* The main thread runs, and only posts.
Goes ==
    /\ pc \in {"idle", "has", "init"} /\ MainFree
    /\ signalled' = signalled \ {pc}
    /\ UNCHANGED <<sm, requested, deadline, poll, stage, surface, events, uploading>>

\* What becomes of the queue of the main thread.
Queues(lost) ==
    /\ In(mainQueue', "BeginMainFrame") <=> In(mainQueue, "BeginMainFrame")
    /\ Once(mainQueue', {"BeginMainFrame"}) /\ Once(mainQueue', {"Retry"})
    /\ In(mainQueue', "Retry") => lost /\ ~HasInitializedOutputSurface(sm)

LEMMA SurfaceReturnsStep ==
    ASSUME TypeOK, Good, Goes, NEW tasks \in Seq(ImplTasks), NEW m \in MainState, Carries(tasks, m),
           Queues(m.surfaceLost), SurfaceReturns(tasks, m)
    PROVE  Good'
<1> DEFINE x == "ForceCommitForReadback"
<1>1. PICK all \in {tasks, tasks \o <<x>>} :
        /\ implQueue' = implQueue \o all
        /\ \/ all = tasks \o <<x>> /\ pc' = "sent" /\ main' = m /\ m.inReadback /\ ~m.surfaceLost
           \/ all = tasks /\ pc' = "idle" /\ main' = [m EXCEPT !.inReadback = FALSE]
  BY DEF SurfaceReturns, Post
<1>2. /\ \A t : In(implQueue', t) <=> In(implQueue, t) \/ In(all, t)
      /\ BlockingLast(implQueue') /\ Once(implQueue', Answers)
      /\ \A t : In(all, t) => t = "SetNeedsCommit" \/ t = x
      /\ \A t : In(tasks, t) => In(all, t)
      /\ \A t \in Answers : ~In(all, t)
  <2>1. x \in {"ForceCommitForReadback", "InitializeOutputSurface"}
    OBVIOUS
  <2> HIDE DEF x
  <2>2. MainFree /\ OnlyRequests(tasks) /\ implQueue' = implQueue \o all
    BY <1>1 DEF Goes, Carries
  <2>3. Fits(tasks, x, tasks) /\ Fits(tasks, x, tasks \o <<x>>)
    BY <2>1, <2>2, RequestsFit
  <2>4. Fits(tasks, x, all)
    BY <2>3, <1>1
  <2>5. /\ \A t : In(implQueue', t) <=> In(implQueue, t) \/ In(all, t)
        /\ BlockingLast(implQueue') /\ Once(implQueue', Answers)
        /\ \A t \in Answers : ~In(all, t)
    BY <2>1, <2>2, <2>4, PostsBoth
  <2> QED BY <2>4, <2>5 DEF Fits
<1>3. In(all, x) => pc' = "sent"
  <2>1. CASE all = tasks
    BY <2>1 DEF Carries, OnlyRequests
  <2>2. CASE all # tasks
    BY <2>2, <1>1
  <2> QED BY <2>1, <2>2
<1>4. \A t : In(all, t) => t \in {"SetNeedsCommit", "ForceCommitForReadback"}
  BY <1>2
<1>5. MainSteps(all)
  <2>1. WaitsAt(all, pc')
    BY <1>3, <1>4 DEF WaitsAt
  <2> QED BY <2>1, <1>2 DEF MainSteps, Goes
<1>6. /\ main'.deferred = m.deferred /\ main'.deferCommits = m.deferCommits
      /\ main'.texturesAcquired = m.texturesAcquired
      /\ main'.commitRequested = m.commitRequested /\ main'.animateRequested = m.animateRequested
      /\ main'.requestSent = m.requestSent /\ main'.surfaceLost = m.surfaceLost
      /\ pc' \in {"sent", "idle"}
      /\ pc' = "sent" => main'.inReadback /\ ~main'.surfaceLost
      /\ pc' = "idle" => ~main'.inReadback
  BY <1>1 DEF MainState
<1>7. SurfaceStep(all)
  BY <1>2, <1>5, <1>6 DEF SurfaceStep, Goes, Queues, Carries
<1> QED BY <1>7, SurfaceStepGood DEF Goes

\* The queue without the retry.
LEMMA WithoutRetryFits ==
    ASSUME TypeOK, Good
    PROVE  /\ In(WithoutRetry, "BeginMainFrame") <=> In(mainQueue, "BeginMainFrame")
           /\ Once(WithoutRetry, {"BeginMainFrame"})
           /\ ~In(WithoutRetry, "Retry") /\ Once(WithoutRetry, {"Retry"})
           /\ WithoutRetry \in Seq(MainTasks)
<1>1. Once(mainQueue, {"BeginMainFrame"}) /\ Once(mainQueue, {"Retry"}) /\ mainQueue \in Seq(MainTasks)
  BY DEF Good, TokenInv, SurfaceInv, TypeOK
<1> QED BY <1>1, WithoutRetryQueue

LEMMA FailsStep ==
    ASSUME TypeOK, Good, Goes, NEW tasks \in Seq(ImplTasks), NEW m \in MainState, Carries(tasks, m),
           m.surfaceLost, ~HasInitializedOutputSurface(sm), Fails(tasks, m)
    PROVE  Good'
<1> DEFINE gaveUp == m.attempts + 1 >= MaxRecreate
           n == IF gaveUp THEN MaxRecreate ELSE m.attempts + 1
           b == m.canBeInitialized /\ ~gaveUp
           f == [m EXCEPT !.attempts = n, !.canBeInitialized = b]
<1>1. n \in 0..MaxRecreate
  <2>1. m.attempts \in 0..MaxRecreate
    BY DEF MainState
  <2> QED BY <2>1, CompositorsAssumption
<1>2. b \in BOOLEAN
  BY DEF MainState
<1>3. f \in MainState
  <2> HIDE DEF n, b
  <2> QED BY <1>1, <1>2, MainStates
<1>4. SurfaceReturns(tasks, f) /\ mainQueue' \in {WithoutRetry, Append(WithoutRetry, "Retry")}
  BY DEF Fails
<1>5. /\ f.deferred = m.deferred /\ f.deferCommits = m.deferCommits
      /\ f.texturesAcquired = m.texturesAcquired
      /\ f.commitRequested = m.commitRequested /\ f.animateRequested = m.animateRequested
      /\ f.requestSent = m.requestSent /\ f.surfaceLost = m.surfaceLost
  <2> HIDE DEF n, b
  <2> QED BY DEF MainState
<1> HIDE DEF f
<1>6. Carries(tasks, f)
  BY <1>5 DEF Carries
<1>7. Queues(f.surfaceLost)
  <2> DEFINE w == WithoutRetry
  <2>1. /\ In(w, "BeginMainFrame") <=> In(mainQueue, "BeginMainFrame")
        /\ Once(w, {"BeginMainFrame"})
        /\ ~In(w, "Retry") /\ Once(w, {"Retry"}) /\ w \in Seq(MainTasks)
    BY WithoutRetryFits
  <2>2. "Retry" \in MainTasks
    BY DEF MainTasks
  <2> HIDE DEF w
  <2>3. /\ \A task : In(Append(w, "Retry"), task) <=> In(w, task) \/ task = "Retry"
        /\ \A a : Once(w, a) /\ (None(w, a) \/ "Retry" \notin a) => Once(Append(w, "Retry"), a)
    BY <2>1, <2>2, AppendToQueue
  <2>4. None(w, {"Retry"})
    BY <2>1 DEF None
  <2>5. mainQueue' = w \/ mainQueue' = Append(w, "Retry")
    BY <1>4 DEF w
  <2> QED BY <2>1, <2>3, <2>4, <2>5, <1>5 DEF Queues
<1> QED BY <1>3, <1>4, <1>6, <1>7, SurfaceReturnsStep

LEMMA DoCreateStep ==
    ASSUME TypeOK, Good, Goes, NEW tasks \in Seq(ImplTasks), NEW m \in MainState, Carries(tasks, m),
           m.surfaceLost, ~HasInitializedOutputSurface(sm), DoCreate(tasks, m)
    PROVE  Good'
<1>1. CASE Fails(tasks, m)
  BY <1>1, FailsStep
<1>2. CASE Post(tasks \o <<"InitializeOutputSurface">>, "init", m) /\ mainQueue' = WithoutRetry
  <2> DEFINE x == "InitializeOutputSurface"
             all == tasks \o <<x>>
  <2>1. implQueue' = implQueue \o all /\ pc' = "init" /\ main' = m /\ mainQueue' = WithoutRetry
    BY <1>2 DEF Post
  <2>2. /\ \A t : In(implQueue', t) <=> In(implQueue, t) \/ In(all, t)
        /\ BlockingLast(implQueue') /\ Once(implQueue', Answers)
        /\ \A t : In(all, t) => t = "SetNeedsCommit" \/ t = x
        /\ \A t : In(tasks, t) => In(all, t)
        /\ \A t \in Answers : ~In(all, t)
    <3>1. x \in {"ForceCommitForReadback", "InitializeOutputSurface"}
      OBVIOUS
    <3> HIDE DEF x
    <3>2. MainFree /\ OnlyRequests(tasks) /\ implQueue' = implQueue \o all
      BY <2>1 DEF Goes, Carries
    <3>3. Fits(tasks, x, all)
      BY <3>1, <3>2, RequestsFit
    <3> HIDE DEF all
    <3>4. /\ \A t : In(implQueue', t) <=> In(implQueue, t) \/ In(all, t)
          /\ BlockingLast(implQueue') /\ Once(implQueue', Answers)
          /\ \A t \in Answers : ~In(all, t)
      BY <3>1, <3>2, <3>3, PostsBoth
    <3> QED BY <3>3, <3>4 DEF Fits
  <2> HIDE DEF all
  <2>3. MainSteps(all)
    <3>1. WaitsAt(all, pc')
      BY <2>1, <2>2 DEF WaitsAt
    <3> QED BY <3>1, <2>2 DEF MainSteps, Goes
  <2>4. /\ In(mainQueue', "BeginMainFrame") <=> In(mainQueue, "BeginMainFrame")
        /\ Once(mainQueue', {"BeginMainFrame"})
        /\ ~In(mainQueue', "Retry") /\ Once(mainQueue', {"Retry"})
    BY <2>1, WithoutRetryFits
  <2>5. SurfaceStep(all)
    BY <2>1, <2>2, <2>3, <2>4 DEF SurfaceStep, Goes, Carries
  <2> QED BY <2>5, SurfaceStepGood DEF Goes
<1> QED BY <1>1, <1>2 DEF DoCreate


\* Nothing is posted, and the main thread remembers what it did.
LEMMA CarriesNothing ==
    ASSUME TypeOK, Good
    PROVE  /\ <<>> \in Seq(ImplTasks)
           /\ Carries(<<>>, main)
           /\ surface.renderer => Carries(<<>>, [main EXCEPT !.surfaceLost = FALSE])
<1>1. <<>> \in Seq(ImplTasks) /\ \A t : ~In(<<>>, t)
  BY ShortQueues
<1>2. OnlyRequests(<<>>)
  BY <1>1 DEF OnlyRequests
<1>3. Carries(<<>>, main)
  BY <1>2 DEF Carries, Good, RequestInv, SurfaceInv
<1> DEFINE m == [main EXCEPT !.surfaceLost = FALSE]
<1>4. /\ m.deferred = main.deferred /\ m.deferCommits = main.deferCommits
      /\ m.texturesAcquired = main.texturesAcquired
      /\ m.commitRequested = main.commitRequested /\ m.animateRequested = main.animateRequested
      /\ m.requestSent = main.requestSent
  BY DEF TypeOK, MainState
<1> HIDE DEF m
<1>5. surface.renderer => Carries(<<>>, m)
  BY <1>2, <1>4 DEF Carries, Good, RequestInv
<1> QED BY <1>1, <1>3, <1>5 DEF m

\* The main thread knows whether the scheduler has its surface.
LEMMA HasReturnsGood ==
    ASSUME TypeOK, failed = {}, Good, HasInitializedReturns
    PROVE  failed' = {} /\ Good'
<1> USE DEF Good
<1> DEFINE newlyLost == ~main.surfaceLost
           ask == IF newlyLost /\ ~main.commitRequested THEN CommitRequest(main) ELSE <<>>
           sent == main.requestSent \/ ~main.commitRequested
           lost == IF newlyLost
                   THEN [main EXCEPT !.surfaceLost = TRUE, !.attempts = 0, !.canCancel = FALSE,
                                     !.commitRequested = TRUE, !.requestSent = sent]
                   ELSE main
<1>1. /\ pc = "has" /\ "has" \in signalled /\ signalled' = signalled \ {pc}
      /\ UNCHANGED <<sm, requested, deadline, poll, stage, surface, events, uploading, failed>>
      /\ IF main.reply THEN SurfaceReturns(<<>>, main) /\ UNCHANGED mainQueue
                       ELSE DoCreate(ask, lost)
  BY DEF HasInitializedReturns, Resume, schedulerVars, proxyVars
<1>2. Goes
  <2>1. MainFree
    BY <1>1, MainIsFree
  <2> QED BY <2>1, <1>1 DEF Goes
<1>3. CASE main.reply
  <2>1. SurfaceReturns(<<>>, main) /\ mainQueue' = mainQueue
    BY <1>1, <1>3
  <2>2. Queues(main.surfaceLost)
    BY <2>1 DEF Queues, TokenInv, SurfaceInv
  <2>3. main \in MainState
    BY DEF TypeOK
  <2>4. Good'
    BY <2>1, <2>2, <2>3, <1>2, CarriesNothing, SurfaceReturnsStep
  <2> QED BY <2>4, <1>1
<1>4. CASE ~main.reply
  <2>1. DoCreate(ask, lost) /\ ~HasInitializedOutputSurface(sm)
    BY <1>1, <1>4 DEF SurfaceInv
  <2>2. sent \in BOOLEAN /\ 0 \in 0..MaxRecreate
    BY CompositorsAssumption DEF TypeOK, MainState
  <2>3. /\ lost.deferred = main.deferred /\ lost.deferCommits = main.deferCommits
        /\ lost.texturesAcquired = main.texturesAcquired
        /\ lost.animateRequested = main.animateRequested
        /\ lost.commitRequested = (main.commitRequested \/ newlyLost)
        /\ lost.requestSent = IF newlyLost THEN sent ELSE main.requestSent
        /\ lost.surfaceLost
    <3> HIDE DEF sent
    <3> QED BY DEF TypeOK, MainState
  <2>4. lost \in MainState
    <3> HIDE DEF sent
    <3>1. [main EXCEPT !.surfaceLost = TRUE, !.attempts = 0, !.canCancel = FALSE,
                       !.commitRequested = TRUE, !.requestSent = sent] \in MainState
      BY <2>2, ZenonT(30) DEF TypeOK, MainState
    <3> QED BY <3>1 DEF TypeOK
  <2>5. /\ ask \in Seq(ImplTasks) /\ OnlyRequests(ask)
        /\ newlyLost /\ ~main.commitRequested /\ ~main.requestSent => In(ask, "SetNeedsCommit")
    <3> DEFINE a == "SetNeedsCommit"
               one == <<a>>
    <3>1. a \in ImplTasks
      BY DEF ImplTasks
    <3>2. one \in Seq(ImplTasks) /\ \A t : In(one, t) <=> t = a
      <4> HIDE DEF a
      <4> QED BY <3>1, ShortQueues
    <3>3. <<>> \in Seq(ImplTasks) /\ \A t : ~In(<<>>, t)
      BY ShortQueues
    <3>4. /\ ask \in {<<>>, one}
          /\ newlyLost /\ ~main.commitRequested /\ ~main.requestSent => ask = one
      BY DEF CommitRequest
    <3> HIDE DEF ask, one
    <3> QED BY <3>2, <3>3, <3>4 DEF OnlyRequests
  <2> HIDE DEF ask, lost
  <2>6. Carries(ask, lost)
    <3>1. lost.commitRequested \/ lost.animateRequested => lost.requestSent
      BY <2>3 DEF RequestInv
    <3>2. lost.requestSent => main.requestSent \/ In(ask, "SetNeedsCommit")
      BY <2>3, <2>5 DEF RequestInv
    <3> QED BY <3>1, <3>2, <2>3, <2>5 DEF Carries
  <2>7. lost.surfaceLost
    BY <2>3
  <2>8. ask \in Seq(ImplTasks)
    BY <2>5
  <2>9. Good'
    BY <2>1, <2>4, <2>6, <2>7, <2>8, <1>2, DoCreateStep
  <2> QED BY <2>9, <1>1
<1> QED BY <1>3, <1>4

LEMMA RetryGood ==
    ASSUME TypeOK, failed = {}, Good, Retry
    PROVE  failed' = {} /\ Good'
<1>1. /\ pc = "idle" /\ mainQueue # <<>> /\ Head(mainQueue) = "Retry" /\ DoCreate(<<>>, main)
      /\ UNCHANGED <<sm, requested, deadline, poll, stage, surface, events, uploading, signalled, failed>>
  BY DEF Retry, schedulerVars, proxyVars
<1>2. MainFree /\ signalled = {}
  BY <1>1, IdleIsFree
<1>3. Goes
  BY <1>1, <1>2 DEF Goes
<1>4. In(mainQueue, "Retry")
  BY <1>1, TailOfQueue DEF TypeOK
<1>5. main.surfaceLost /\ ~HasInitializedOutputSurface(sm) /\ main \in MainState
  BY <1>4 DEF Good, SurfaceInv, TypeOK
<1>6. Good'
  BY <1>1, <1>3, <1>5, CarriesNothing, DoCreateStep
<1> QED BY <1>1, <1>6

LEMMA InitializeReturnsGood ==
    ASSUME TypeOK, failed = {}, Good, InitializeReturns
    PROVE  failed' = {} /\ Good'
<1> USE DEF Good
<1>1. /\ pc = "init" /\ "init" \in signalled /\ signalled' = signalled \ {pc}
      /\ UNCHANGED <<sm, requested, deadline, poll, stage, surface, events, uploading>>
      /\ Assert("attempted", main.surfaceLost)
      /\ IF main.reply
         THEN SurfaceReturns(<<>>, [main EXCEPT !.surfaceLost = FALSE]) /\ mainQueue' = WithoutRetry
         ELSE Fails(<<>>, main)
  BY DEF InitializeReturns, Resume, schedulerVars, proxyVars
<1>2. main.surfaceLost /\ failed' = {}
  BY <1>1 DEF SurfaceInv, Assert
<1>3. Goes
  <2>1. MainFree
    BY <1>1, MainIsFree
  <2> QED BY <2>1, <1>1 DEF Goes
<1>4. main \in MainState
  BY DEF TypeOK
<1>5. CASE main.reply
  <2> DEFINE m == [main EXCEPT !.surfaceLost = FALSE]
  <2>1. SurfaceReturns(<<>>, m) /\ mainQueue' = WithoutRetry
    BY <1>1, <1>5
  <2>2. surface.renderer
    BY <1>1, <1>5 DEF SurfaceInv
  <2>3. m \in MainState
    BY <1>4, MainStates
  <2>4. <<>> \in Seq(ImplTasks) /\ Carries(<<>>, m)
    BY <2>2, CarriesNothing
  <2> HIDE DEF m
  <2>5. Queues(m.surfaceLost)
    BY <2>1, WithoutRetryFits DEF Queues
  <2>6. Good'
    BY <2>1, <2>3, <2>4, <2>5, <1>3, SurfaceReturnsStep
  <2> QED BY <2>6, <1>2
<1>6. CASE ~main.reply
  <2>1. Fails(<<>>, main) /\ ~HasInitializedOutputSurface(sm)
    BY <1>1, <1>6 DEF SurfaceInv
  <2>2. Good'
    BY <2>1, <1>2, <1>3, <1>4, CarriesNothing, FailsStep
  <2> QED BY <2>2, <1>2
<1> QED BY <1>5, <1>6


-----------------------------------------------------------------------------
(* The invariant is inductive: a BeginMainFrame is answered *)

\* An answer is posted, behind the request for another commit if there is one.
Answering(tasks, x, all) ==
    /\ all \in Seq(ImplTasks) /\ BlockingLast(all) /\ Once(all, Answers)
    /\ \A t : In(all, t) <=> In(tasks, t) \/ t = x

LEMMA AnswersFit ==
    ASSUME NEW tasks \in Seq(ImplTasks), OnlyRequests(tasks), NEW x \in Answers
    PROVE  Answering(tasks, x, tasks \o <<x>>)
<1>1. x \in ImplTasks
  BY DEF ImplTasks, Answers
<1>2. None(tasks, Blocking) /\ None(tasks, Answers) /\ Once(tasks, Answers)
  BY DEF OnlyRequests, In, None, Once, Blocking, Answers
<1> DEFINE y == <<x>>
<1>3. /\ y \in Seq(ImplTasks) /\ BlockingLast(y) /\ Once(y, Answers)
      /\ \A t : In(y, t) <=> t = x
  BY <1>1, ShortQueues
<1> HIDE DEF y
<1>4. /\ tasks \o y \in Seq(ImplTasks)
      /\ \A t : In(tasks \o y, t) <=> In(tasks, t) \/ In(y, t)
      /\ \A a : Once(tasks, a) /\ Once(y, a) /\ (None(tasks, a) \/ None(y, a)) => Once(tasks \o y, a)
      /\ None(tasks, Blocking) /\ BlockingLast(y) => BlockingLast(tasks \o y)
  BY <1>3, ConcatOfQueues
<1>5. Answering(tasks, x, tasks \o y)
  BY <1>2, <1>3, <1>4 DEF Answering
<1> QED BY <1>5 DEF y

\* The main thread has the BeginMainFrame in its hands: it took it from its queue, or
\* a readback called it while the other one stays where it is.
Answerable ==
    /\ MainFree /\ pc \in {"idle", "sent"}
    /\ UNCHANGED <<sm, requested, deadline, poll, stage, surface, events, uploading>>
    /\ signalled' = signalled \ {pc}
    /\ None(implQueue, Answers)
    /\ sm.commit = "FRAME_IN_PROGRESS"
    /\ Once(mainQueue', {"BeginMainFrame"}) /\ Once(mainQueue', {"Retry"})
    /\ In(mainQueue', "Retry") => In(mainQueue, "Retry")
    /\ main.deferred => ~In(mainQueue', "BeginMainFrame")
    /\ In(mainQueue', "BeginMainFrame") \/ main.deferred <=> ReadingBack(sm)
    /\ pc = "sent" => sm.readback = "COMMIT"

LEMMA AnswerPosted ==
    ASSUME TypeOK, Good, MainFree, None(implQueue, Answers),
           NEW tasks, OnlyRequests(tasks), NEW x \in Answers, NEW all, Answering(tasks, x, all),
           implQueue' = implQueue \o all, x = "StartCommit" => pc' = "commit"
    PROVE  /\ \A t : In(implQueue', t) <=> In(implQueue, t) \/ In(all, t)
           /\ BlockingLast(implQueue') /\ Once(implQueue', Answers)
           /\ \A t \in Answers : In(implQueue', t) <=> t = x
           /\ In(tasks, "SetNeedsCommit") => In(implQueue', "SetNeedsCommit")
           /\ In(implQueue, "SetNeedsCommit") => In(implQueue', "SetNeedsCommit")
           /\ ~In(implQueue', "InitializeOutputSurface")
           /\ WaitsAt(all, pc')
<1>1. all \in Seq(ImplTasks) /\ BlockingLast(all) /\ Once(all, Answers)
  BY DEF Answering
<1>2. /\ \A t : In(implQueue', t) <=> In(implQueue, t) \/ In(all, t)
      /\ BlockingLast(implQueue')
      /\ Once(all, Answers) /\ (None(implQueue, Answers) \/ None(all, Answers))
           => Once(implQueue', Answers)
  BY <1>1, PostsTasks
<1>3. \A t : In(all, t) <=> In(tasks, t) \/ t = x
  BY DEF Answering
<1>4. \A t : In(all, t) => t \in {"SetNeedsCommit", x}
  BY <1>3 DEF OnlyRequests
<1>5. \A t \in Answers : In(implQueue', t) <=> t = x
  BY <1>2, <1>3, <1>4 DEF None, Answers
<1>6. WaitsAt(all, pc')
  BY <1>4 DEF WaitsAt, Answers
<1>7. ~In(implQueue', "InitializeOutputSurface")
  BY <1>2, <1>4 DEF MainFree, Blocking, Answers
<1> QED BY <1>1, <1>2, <1>3, <1>5, <1>6, <1>7

\* The frame is painted: it is committed, or there was nothing to commit.
LEMMA PaintGood ==
    ASSUME TypeOK, failed = {}, Good, Answerable, Paint
    PROVE  PipelineConsistent' /\ (failed' = {} => Good')
<1> USE DEF Good
<1>1. PICK animate \in BOOLEAN, commit \in BOOLEAN, again \in BOOLEAN, updated \in BOOLEAN :
        LET canCancel == main.canCancel /\ ~animate /\ ~commit /\ ~main.inReadback
            aborts == ~updated /\ canCancel
            resend == Resend(again, animate, aborts)
        IN  /\ Assert("update", ~main.surfaceLost)
            /\ Post((IF resend THEN <<"SetNeedsCommit">> ELSE <<>>)
                      \o <<IF aborts THEN "AbortHandled" ELSE "StartCommit">>,
                    IF aborts THEN "idle" ELSE "commit",
                    Painted(main, again, animate, resend))
  BY Zenon DEF Paint
<1> DEFINE aborts == ~updated /\ (main.canCancel /\ ~animate /\ ~commit /\ ~main.inReadback)
           resend == Resend(again, animate, aborts)
           tasks == IF resend THEN <<"SetNeedsCommit">> ELSE <<>>
           x == IF aborts THEN "AbortHandled" ELSE "StartCommit"
           all == tasks \o <<x>>
           next == IF aborts THEN "idle" ELSE "commit"
           m == Painted(main, again, animate, resend)
<1>2. /\ implQueue' = implQueue \o all /\ pc' = next /\ main' = m
      /\ Assert("update", ~main.surfaceLost)
  BY <1>1 DEF Post
<1>3. /\ x \in Answers /\ (x = "StartCommit" => pc' = "commit") /\ pc' \in {"idle", "commit"}
      /\ pc' = "idle" => x = "AbortHandled" /\ ~main.inReadback
      /\ pc' = "commit" => x = "StartCommit"
      /\ x \in {"AbortHandled", "StartCommit"}
  BY <1>2 DEF Answers
<1>4. /\ resend \in BOOLEAN
      /\ again => resend
      /\ animate => resend
  BY DEF Resend
<1>5. tasks \in Seq(ImplTasks) /\ OnlyRequests(tasks) /\ (resend => In(tasks, "SetNeedsCommit"))
  <2> DEFINE a == "SetNeedsCommit"
             one == <<a>>
  <2>1. a \in ImplTasks
    BY DEF ImplTasks
  <2>2. one \in Seq(ImplTasks) /\ \A t : In(one, t) <=> t = a
    <3> HIDE DEF a
    <3> QED BY <2>1, ShortQueues
  <2>3. <<>> \in Seq(ImplTasks) /\ \A t : ~In(<<>>, t)
    BY ShortQueues
  <2>4. tasks \in {<<>>, one} /\ (resend => tasks = one)
    OBVIOUS
  <2> HIDE DEF tasks, one, resend
  <2> QED BY <2>2, <2>3, <2>4 DEF OnlyRequests
<1>6. /\ main'.commitRequested = again /\ main'.requestSent = resend
      /\ main'.animateRequested = animate /\ ~main'.texturesAcquired
      /\ main'.inReadback = main.inReadback /\ main'.surfaceLost = main.surfaceLost
      /\ main'.deferred = main.deferred /\ main'.deferCommits = main.deferCommits
      /\ main'.reply = main.reply
  <2> HIDE DEF resend
  <2> QED BY <1>2 DEF Painted, TypeOK, MainState
<1> HIDE DEF x, tasks, resend, aborts, m, next
<1>7. Answering(tasks, x, all)
  BY <1>3, <1>5, AnswersFit
<1> HIDE DEF all
<1>8. MainFree /\ None(implQueue, Answers) /\ OnlyRequests(tasks)
  BY <1>5 DEF Answerable
<1>9. /\ \A t : In(implQueue', t) <=> In(implQueue, t) \/ In(all, t)
      /\ BlockingLast(implQueue') /\ Once(implQueue', Answers)
      /\ \A t \in Answers : In(implQueue', t) <=> t = x
      /\ In(tasks, "SetNeedsCommit") => In(implQueue', "SetNeedsCommit")
      /\ ~In(implQueue', "InitializeOutputSurface")
      /\ WaitsAt(all, pc')
  BY <1>2, <1>3, <1>7, <1>8, AnswerPosted
<1>10. failed' = {} \/ (failed' = {"update"} /\ main.surfaceLost)
  BY <1>2 DEF Assert
<1>11. UNCHANGED <<sm, requested, deadline, poll, stage, surface, events, uploading>>
  BY DEF Answerable
<1>12. PipelineConsistent'
  <2>1. CheckInvariants'
    BY <1>11 DEF CheckInvariants, PipeInv
  <2>2. TexturesExclusive'
    BY <1>6 DEF TexturesExclusive
  <2>3. PipelineAssertionsHold'
    BY <1>10 DEF PipelineAssertionsHold
  <2> QED BY <2>1, <2>2, <2>3 DEF PipelineConsistent
<1>13. ASSUME failed' = {} PROVE Good'
  <2>1. ~main.surfaceLost
    BY <1>13, <1>2 DEF Assert
  <2>2. MainSteps(all)
    BY <1>9, <1>11 DEF MainSteps, Answerable
  <2>3. CallInv'
    BY <2>2, <1>8, MainCallGood
  <2>4. FrameInv' /\ RestInv' /\ PipeInv(sm)'
    BY <1>11 DEF FrameInv, RestInv
  <2>5. /\ Starting' <=> x = "StartCommit"
        /\ Aborting' <=> x = "AbortHandled"
        /\ In(implQueue', "AbortHandled") <=> x = "AbortHandled"
    BY <1>3, <1>9 DEF Starting, Aborting, Answers
  <2>6. signalled' = {} /\ ~uploading /\ "commit" \notin events /\ "textures" \notin events
        /\ "sent" \notin events /\ stage \notin {"init", "readback"}
    BY DEF Answerable, MainFree
  <2>7. FrameOut' <=> ReadingBack(sm)
    BY <1>6 DEF FrameOut, Answerable
  <2>8. pc = "sent" => main.inReadback
    BY DEF ReadbackInv
  <2>9. x = "AbortHandled" => pc = "idle"
    BY <2>8, <1>3 DEF Answerable, aborts, x
  <2>10. pc = "idle" => ~ReadingBack(sm) /\ sm.readback # "NEEDS_BEGIN_MAIN_FRAME"
    BY DEF ReadbackInv
  <2>11. TokenInv'
    <3>1. main'.deferred => ~In(mainQueue', "BeginMainFrame") /\ main'.deferCommits
      BY <1>6 DEF Answerable, TokenInv
    <3>2. Once(mainQueue', {"BeginMainFrame"}) /\ sm.commit = "FRAME_IN_PROGRESS"
      BY DEF Answerable
    <3> QED BY <3>1, <3>2, <2>5, <2>6, <2>7, <2>9, <2>10, <1>3, <1>9, <1>11 DEF TokenInv
  <2>12. ReadbackInv'
    <3>1. pc = "sent" => sm.readback = "COMMIT"
      BY DEF Answerable
    <3>2. pc = "sent" => pc' = "commit"
      BY <1>3, <2>8
    <3>3. pc \in {"idle", "sent"}
      BY DEF Answerable
    <3> QED BY <3>1, <3>2, <3>3, <2>6, <2>8, <2>10, <1>3, <1>6, <1>11 DEF ReadbackInv, ReadingBack
  <2>13. SurfaceInv'
    <3>1. Once(mainQueue', {"Retry"}) /\ (In(mainQueue', "Retry") => In(mainQueue, "Retry"))
      BY DEF Answerable
    <3> QED BY <3>1, <2>1, <2>6, <1>3, <1>6, <1>9, <1>11 DEF SurfaceInv
  <2>14. TextureInv'
    BY <2>5, <2>6, <1>3, <1>6, <1>11 DEF TextureInv
  <2>15. RequestInv'
    BY <1>4, <1>5, <1>6, <1>9 DEF RequestInv
  <2> QED BY <2>3, <2>4, <2>11, <2>12, <2>13, <2>14, <2>15
<1> QED BY <1>12, <1>13


\* A BeginMainFrame of the queue: it is put off, refused, or painted.
LEMMA BeginMainFrameGood ==
    ASSUME TypeOK, failed = {}, Good, BeginMainFrame
    PROVE  PipelineConsistent' /\ (failed' = {} => Good')
<1> USE DEF Good
<1>1. /\ pc = "idle" /\ mainQueue # <<>> /\ Head(mainQueue) = "BeginMainFrame"
      /\ mainQueue' = Tail(mainQueue)
      /\ UNCHANGED <<sm, requested, deadline, poll, stage, surface, events, uploading, signalled>>
  BY DEF BeginMainFrame, MainTask, schedulerVars, proxyVars
<1>2. MainFree /\ signalled = {} /\ ~main.inReadback
  BY <1>1, IdleIsFree
<1>3. /\ In(mainQueue, "BeginMainFrame") /\ ~In(mainQueue', "BeginMainFrame")
      /\ In(mainQueue', "Retry") => In(mainQueue, "Retry")
      /\ Once(mainQueue', {"BeginMainFrame"}) /\ Once(mainQueue', {"Retry"})
  <2> DEFINE q == mainQueue
  <2>1. /\ In(q, Head(q))
        /\ \A t : In(Tail(q), t) => In(q, t)
        /\ \A s : Once(q, s) => Once(Tail(q), s)
        /\ \A s : Once(q, s) /\ Head(q) \in s => None(Tail(q), s)
    BY <1>1, TailOfQueue DEF TypeOK
  <2>2. Once(q, {"BeginMainFrame"}) /\ Once(q, {"Retry"})
    BY DEF TokenInv, SurfaceInv
  <2>3. None(Tail(q), {"BeginMainFrame"})
    BY <2>1, <2>2, <1>1
  <2> QED BY <2>1, <2>2, <2>3, <1>1 DEF None
<1>4. FrameOut /\ ~main.deferred
  BY <1>3 DEF FrameOut, TokenInv
<1>5. ~ReadingBack(sm) /\ sm.readback # "NEEDS_BEGIN_MAIN_FRAME" /\ sm.commit = "FRAME_IN_PROGRESS"
  BY <1>1, <1>4 DEF ReadbackInv, TokenInv
<1>6. None(implQueue, Answers)
  <2>1. ~Starting /\ ~Aborting
    BY <1>2, <1>4 DEF MainFree, TokenInv
  <2> QED BY <2>1 DEF None, Answers, Starting, Aborting
<1>7. CASE main.deferCommits
  <2>1. implQueue' = implQueue \o <<>> /\ pc' = "idle" /\ main' = [main EXCEPT !.deferred = TRUE]
        /\ failed' = {}
    BY <1>7 DEF BeginMainFrame, Post
  <2>2. /\ main'.inReadback = main.inReadback /\ main'.deferred = TRUE
        /\ main'.deferCommits = main.deferCommits
        /\ main'.surfaceLost = main.surfaceLost /\ main'.reply = main.reply
        /\ main'.texturesAcquired = main.texturesAcquired
        /\ main'.commitRequested = main.commitRequested
        /\ main'.animateRequested = main.animateRequested /\ main'.requestSent = main.requestSent
    BY <2>1 DEF TypeOK, MainState
  <2>3. /\ implQueue' = implQueue /\ \A t : ~In(<<>>, t)
        /\ WaitsAt(<<>>, pc') /\ BlockingLast(implQueue') /\ Once(implQueue', Answers)
    BY <2>1, <1>2, PostsNothing
  <2>4. MainSteps(<<>>)
    BY <2>3, <1>1, <1>2 DEF MainSteps
  <2>5. /\ FrameOut' <=> FrameOut
        /\ main'.deferred => ~In(mainQueue', "BeginMainFrame") /\ main'.deferCommits
    BY <2>2, <1>3, <1>4, <1>7 DEF FrameOut
  <2>6. /\ FrameInv' /\ RestInv' /\ PipeInv(sm)' /\ TokenInv' /\ CallInv'
        /\ ~Starting' /\ (In(implQueue', "AbortHandled") <=> In(implQueue, "AbortHandled"))
        /\ In(implQueue, "SetNeedsCommit") => In(implQueue', "SetNeedsCommit")
    BY <1>2, <1>3, <2>3, <2>4, <2>5, MainKeeps
  <2>7. ReadbackInv'
    BY <2>1, <2>2, <1>1 DEF ReadbackInv
  <2>8. SurfaceInv'
    BY <2>1, <2>2, <2>3, <1>1, <1>3 DEF SurfaceInv
  <2>9. TextureInv'
    BY <2>1, <2>2, <2>6, <1>1, <1>2 DEF TextureInv, MainFree
  <2>10. RequestInv'
    BY <2>2, <2>5, <2>6, <1>1 DEF RequestInv
  <2>11. Good'
    BY <2>6, <2>7, <2>8, <2>9, <2>10
  <2> QED BY <2>1, <2>11, GoodConsistentNext
<1>8. CASE ~main.deferCommits /\ ~main.visible
  <2> DEFINE x == "AbortUnhandled"
             all == <<x>>
  <2>1. /\ implQueue' = implQueue \o all /\ pc' = "idle" /\ failed' = {}
        /\ main' = [main EXCEPT !.commitRequested = FALSE, !.requestSent = FALSE,
                                !.animateRequested = FALSE]
    BY <1>8 DEF BeginMainFrame, Post
  <2>2. /\ main'.inReadback = main.inReadback /\ main'.deferred = main.deferred
        /\ main'.surfaceLost = main.surfaceLost /\ main'.reply = main.reply
        /\ main'.texturesAcquired = main.texturesAcquired
        /\ ~main'.commitRequested /\ ~main'.animateRequested /\ ~main'.requestSent
    BY <2>1 DEF TypeOK, MainState
  <2>3. x \in Answers /\ x \in ImplTasks
    BY DEF Answers, ImplTasks
  <2>4. OnlyRequests(<<>>) /\ Answering(<<>>, x, all)
    <3> HIDE DEF x
    <3>1. /\ \A t : ~In(<<>>, t)
          /\ all \in Seq(ImplTasks) /\ BlockingLast(all) /\ Once(all, Answers)
          /\ \A t : In(all, t) <=> t = x
      BY <2>3, ShortQueues
    <3> HIDE DEF all
    <3> QED BY <3>1 DEF OnlyRequests, Answering
  <2>5. x = "StartCommit" => pc' = "commit"
    OBVIOUS
  <2>6. /\ \A t : In(implQueue', t) <=> In(implQueue, t) \/ In(all, t)
        /\ BlockingLast(implQueue') /\ Once(implQueue', Answers)
        /\ \A t \in Answers : In(implQueue', t) <=> t = x
        /\ ~In(implQueue', "InitializeOutputSurface")
        /\ WaitsAt(all, pc')
    <3> HIDE DEF all, x
    <3> QED BY <2>1, <2>3, <2>4, <2>5, <1>2, <1>6, AnswerPosted
  <2> HIDE DEF all
  <2>7. MainSteps(all)
    BY <2>6, <1>1, <1>2 DEF MainSteps
  <2>8. CallInv'
    BY <2>7, <1>2, MainCallGood
  <2>9. FrameInv' /\ RestInv' /\ PipeInv(sm)'
    BY <1>1 DEF FrameInv, RestInv
  <2>10. ~Starting' /\ Aborting' /\ ~In(implQueue', "AbortHandled") /\ ~FrameOut'
    BY <2>2, <2>6, <1>3, <1>4 DEF Starting, Aborting, FrameOut, Answers
  <2>11. TokenInv'
    BY <2>2, <2>6, <2>10, <1>1, <1>2, <1>3, <1>4, <1>5 DEF TokenInv, MainFree
  <2>12. ReadbackInv'
    BY <2>1, <2>2, <1>1 DEF ReadbackInv
  <2>13. SurfaceInv'
    BY <2>1, <2>2, <2>6, <1>1, <1>3 DEF SurfaceInv
  <2>14. TextureInv'
    <3>1. ~In(implQueue, "AbortHandled") /\ ~Starting /\ ~uploading
      BY <1>2, <1>6 DEF None, Answers, MainFree
    <3> QED BY <3>1, <2>1, <2>2, <2>10, <1>1, <1>2 DEF TextureInv
  <2>15. RequestInv'
    BY <2>2 DEF RequestInv
  <2>16. Good'
    BY <2>8, <2>9, <2>11, <2>12, <2>13, <2>14, <2>15
  <2> QED BY <2>1, <2>16, GoodConsistentNext
<1>9. CASE ~main.deferCommits /\ main.visible
  <2>1. Paint
    BY <1>9 DEF BeginMainFrame
  <2>2. Answerable
    BY <1>1, <1>2, <1>3, <1>4, <1>5, <1>6 DEF Answerable
  <2> QED BY <2>1, <2>2, PaintGood
<1>10. main.deferCommits \in BOOLEAN /\ main.visible \in BOOLEAN
  BY DEF TypeOK, MainState
<1> QED BY <1>7, <1>8, <1>9, <1>10

\* The BeginMainFrame of a readback.
LEMMA BeginMainFrameSentGood ==
    ASSUME TypeOK, failed = {}, Good, BeginMainFrameSent
    PROVE  PipelineConsistent' /\ (failed' = {} => Good')
<1> USE DEF Good
<1>1. /\ pc = "sent" /\ "sent" \in signalled /\ signalled' = signalled \ {pc} /\ Paint
      /\ UNCHANGED <<sm, requested, deadline, poll, stage, surface, events, uploading, mainQueue>>
  BY DEF BeginMainFrameSent, Resume, schedulerVars, proxyVars
<1>2. MainFree
  BY <1>1, MainIsFree
<1>3. sm.readback = "COMMIT" /\ ReadingBack(sm) /\ CommitPending(sm)
  BY <1>1 DEF ReadbackInv, ReadingBack, PipeInv
<1>4. sm.commit = "FRAME_IN_PROGRESS"
  BY <1>2, <1>3 DEF MainFree, TokenInv, CommitPending
<1>5. FrameOut
  BY <1>3 DEF TokenInv
<1>6. None(implQueue, Answers)
  <2>1. ~Starting /\ ~Aborting
    BY <1>2, <1>3 DEF MainFree, TokenInv
  <2> QED BY <2>1 DEF None, Answers, Starting, Aborting
<1>7. Answerable
  BY <1>1, <1>2, <1>3, <1>4, <1>5, <1>6 DEF Answerable, FrameOut, TokenInv, SurfaceInv
<1> QED BY <1>1, <1>7, PaintGood

-----------------------------------------------------------------------------
(* The invariant, and the properties it implies *)

LEMMA NextGood ==
    ASSUME TypeOK, failed = {}, Good, Next
    PROVE  PipelineConsistent' /\ (failed' = {} => Good')
<1>1. CASE MainReturns
  BY <1>1, ReturnsGood, BeginMainFrameSentGood, HasReturnsGood, InitializeReturnsGood,
     GoodConsistentNext DEF MainReturns
<1>2. CASE MainRuns
  BY <1>2, BeginMainFrameGood, CreateTaskGood, RetryGood, GoodConsistentNext DEF MainRuns
<1>3. CASE Embedder
  BY <1>3, RequestsGood, CallsGood, SetDeferCommitsGood, GoodConsistentNext DEF Embedder
<1>4. CASE Loop
  BY <1>4, LoopGood, GoodConsistentNext
<1>5. CASE ImplTask
  BY <1>5, ImplTaskGood
<1>6. CASE ImplTimer
  BY <1>6, ImplTimerGood
<1>7. CASE DidLoseOutputSurfaceOnImplThread
  BY <1>7, LoseGood, GoodConsistentNext
<1>8. CASE \E call \in ClientCalls : ClientCall(call)
  BY <1>8, ClientCallGood, GoodConsistentNext
<1> QED BY <1>1, <1>2, <1>3, <1>4, <1>5, <1>6, <1>7, <1>8 DEF Next


LEMMA InitGood ==
    ASSUME Init
    PROVE  failed = {} /\ Good
<1>1. /\ requested = FALSE /\ deadline = FALSE /\ stage = "idle"
      /\ surface.renderer = FALSE /\ events = {} /\ uploading = FALSE
      /\ implQueue = <<"SetCanStart">> /\ pc = "idle" /\ signalled = {} /\ mainQueue = <<>>
      /\ failed = {}
  BY DEF Init
<1>2. PICK c \in Compositors :
        /\ sm = [InitialState(c.settings) EXCEPT !.visible = TRUE]
        /\ main = [calls |-> c.calls,
                   commitRequested |-> FALSE, requestSent |-> FALSE, animateRequested |-> FALSE,
                   canCancel |-> TRUE, texturesAcquired |-> TRUE, deferCommits |-> FALSE,
                   deferred |-> FALSE, visible |-> TRUE, surfaceLost |-> TRUE,
                   canBeInitialized |-> TRUE, attempts |-> 0, inReadback |-> FALSE,
                   waitsForActivation |-> FALSE, reply |-> FALSE]
  BY DEF Init
<1>3. /\ ~main.commitRequested /\ ~main.requestSent /\ ~main.animateRequested
      /\ main.texturesAcquired /\ ~main.deferred /\ main.surfaceLost /\ ~main.inReadback
  BY <1>2
<1>4. /\ sm.outputSurface = "LOST" /\ sm.frame = "IDLE" /\ sm.commit = "IDLE"
      /\ sm.texture = "UNLOCKED" /\ sm.readback = "IDLE" /\ sm.forced = "IDLE"
      /\ ~sm.pendingTree /\ ~sm.needsTextures
  BY <1>2 DEF InitialState
<1>5. ~HasInitializedOutputSurface(sm)
  BY <1>4 DEF HasInitializedOutputSurface
<1> DEFINE a == "SetCanStart"
           q == <<a>>
<1>6. a \in ImplTasks
  BY DEF ImplTasks
<1>7. /\ \A t : In(q, t) <=> t = a
      /\ Once(q, Answers) /\ BlockingLast(q)
  <2> HIDE DEF a
  <2> QED BY <1>6, ShortQueues
<1>8. implQueue = q
  BY <1>1
<1> HIDE DEF q
<1>9. /\ \A t : In(implQueue, t) => t = "SetCanStart"
      /\ Once(implQueue, Answers) /\ BlockingLast(implQueue)
  BY <1>7, <1>8
<1>10. /\ \A t : ~In(mainQueue, t)
       /\ Once(mainQueue, {"BeginMainFrame"}) /\ Once(mainQueue, {"Retry"})
  BY <1>1, ShortQueues
<1>11. FrameInv /\ RestInv /\ PipeInv(sm)
  <2>1. ~BeginImplFrameNeeded(sm)
    BY <1>5 DEF BeginImplFrameNeeded, BeginImplFrameNeededToDraw, ProactiveBeginImplFrameWanted
  <2> QED BY <2>1, <1>1, <1>4, <1>5 DEF FrameInv, RestInv, PipeInv
<1>12. ~Starting /\ ~Aborting /\ ~FrameOut /\ ~ReadingBack(sm)
  BY <1>3, <1>4, <1>9, <1>10 DEF Starting, Aborting, FrameOut, ReadingBack
<1>13. TokenInv
  BY <1>1, <1>3, <1>4, <1>9, <1>10, <1>12 DEF TokenInv
<1>14. CallInv
  BY <1>1, <1>9 DEF CallInv
<1>15. ReadbackInv
  BY <1>1, <1>3, <1>4, <1>12 DEF ReadbackInv
<1>16. SurfaceInv
  BY <1>1, <1>3, <1>9, <1>10 DEF SurfaceInv
<1>17. TextureInv
  BY <1>1, <1>3, <1>4, <1>9, <1>12 DEF TextureInv
<1>18. RequestInv
  BY <1>3 DEF RequestInv
<1> QED BY <1>1, <1>11, <1>13, <1>14, <1>15, <1>16, <1>17, <1>18 DEF Good

\* A check that failed ends the behaviour: every step is one of a state in which none
\* has.
LEMMA FailedEnds == Next => failed = {}
BY DEF Next, Loop, AcquireLayerTexturesForMainThread, UpdateVisibleTiles, ActivatePendingTree, Commit,
       DrawAndSwapIfPossible, DrawAndSwapForced, DrawAndSwapAbort, DrawAndReadback, ManageTiles,
       SendBeginMainFrame, BeginOutputSurfaceCreation, EndOfLoop, Round,
       ImplTask, SetCanStart, SetNeedsCommitOnImplThread, SetVisibleOnImplThread,
       ForceCommitForReadbackOnImplThread, StartCommitOnImplThread,
       BeginMainFrameAbortedOnImplThread, AcquireLayerTexturesForMainThreadOnImplThread,
       HasInitializedOutputSurfaceOnImplThread, InitializeOutputSurfaceOnImplThread, Task,
       ImplTimer, ReadyToFinalizeTextureUpdates, BeginImplFrame, OnBeginImplFrameDeadline,
       PollForAnticipatedDrawTriggers, ImplIdle, DidLoseOutputSurfaceOnImplThread, ClientCall,
       MainReturns, SetVisibleReturns, AcquireLayerTexturesReturns, BeginMainFrameReturns,
       BeginMainFrameSent, CompositeAndReadbackReturns, HasInitializedReturns, InitializeReturns,
       Resume, MainRuns, BeginMainFrame, CreateAndInitializeOutputSurface, Retry, MainTask,
       Embedder, SetNeedsCommit, SetNeedsAnimate, SetNeedsUpdateLayers, SetVisible,
       AcquireLayerTextures, SetNextCommitWaitsForActivation, SetDeferCommits,
       CompositeAndReadback, Call

\* Every step of the two threads, whatever ran before it and in whatever order, leaves
\* the request, the frame, the commit, the textures and the blocked call where the
\* other thread takes them to be.
THEOREM InvariantHolds == Spec => []IInv
<1>1. Init => IInv
  BY InitTyped, InitGood, GoodConsistent DEF IInv
<1>2. ASSUME IInv, [Next]_vars PROVE IInv'
  <2>1. TypeOK'
    BY <1>2, NextTyped DEF IInv
  <2>2. CASE UNCHANGED vars
    <3>1. UNCHANGED <<sm, requested, deadline, poll, stage, surface, events, uploading, implQueue,
                      main, pc, signalled, mainQueue, failed>>
      BY <2>2 DEF vars, schedulerVars, proxyVars, mainVars
    <3>2. PipelineConsistent'
      BY <1>2, <3>1 DEF IInv, PipelineConsistent, PipelineAssertionsHold, CheckInvariants,
                        TexturesExclusive
    <3>3. failed = {} /\ Good => Good'
      BY <3>1 DEF Good, FrameInv, RestInv, TokenInv, CallInv, ReadbackInv, SurfaceInv,
                  TextureInv, RequestInv, FrameOut, Aborting, Starting
    <3> QED BY <1>2, <2>1, <3>1, <3>2, <3>3 DEF IInv
  <2>3. CASE Next
    BY <1>2, <2>1, <2>3, FailedEnds, NextGood DEF IInv
  <2> QED BY <1>2, <2>1, <2>2, <2>3
<1> QED BY <1>1, <1>2, PTL DEF Spec

-----------------------------------------------------------------------------
(* The tree of a readback *)

KeepsTree(s, t) == t.readback = s.readback /\ t.readbackTree = s.readbackTree

\* Only commits and activations change the active tree.
LEMMA TreesOfStates ==
    ASSUME NEW s \in State
    PROVE  /\ KeepsTree(s, DidLoseOutputSurface(s))
           /\ KeepsTree(s, DidCreateAndInitializeOutputSurface(s))
           /\ KeepsTree(s, NewFrame(s)) /\ KeepsTree(s, OnBeginImplFrame(s))
           /\ \A b \in BOOLEAN : LET t == [s EXCEPT !.incompleteTile = b]
                               IN  t \in State /\ KeepsTree(s, t)
<1>1. KeepsTree(s, DidLoseOutputSurface(s))
  BY DEF KeepsTree, DidLoseOutputSurface, State
<1>2. KeepsTree(s, DidCreateAndInitializeOutputSurface(s))
  BY DEF KeepsTree, DidCreateAndInitializeOutputSurface, State
<1>3. KeepsTree(s, NewFrame(s)) /\ KeepsTree(s, OnBeginImplFrame(s))
  BY DEF KeepsTree, NewFrame, OnBeginImplFrame, State
<1>4. ASSUME NEW b \in BOOLEAN
      PROVE  [s EXCEPT !.incompleteTile = b] \in State /\ KeepsTree(s, [s EXCEPT !.incompleteTile = b])
  BY DEF KeepsTree, State
<1> QED BY <1>1, <1>2, <1>3, <1>4

LEMMA TreeOfCompleted ==
    ASSUME NEW s \in State, NEW success \in BOOLEAN
    PROVE  KeepsTree(s, DidDrawIfPossibleCompleted(s, success))
<1>1. CASE success
  <2>1. DidDrawIfPossibleCompleted(s, success) =
          [s EXCEPT !.drawFailed = FALSE, !.failedDraws = 0, !.forced = "IDLE"]
    BY <1>1 DEF DidDrawIfPossibleCompleted
  <2> QED BY <2>1 DEF KeepsTree, State
<1>2. CASE ~success /\ s.forced # "IDLE"
  <2>1. DidDrawIfPossibleCompleted(s, success) = [s EXCEPT !.drawFailed = TRUE, !.needsRedraw = TRUE]
    BY <1>2 DEF DidDrawIfPossibleCompleted
  <2> QED BY <2>1 DEF KeepsTree, State
<1>3. CASE ~success /\ s.forced = "IDLE"
  BY <1>3 DEF DidDrawIfPossibleCompleted, KeepsTree, State
<1> QED BY <1>1, <1>2, <1>3

\* A step of the impl thread that leaves the tree and the readback alone.
LEMMA TreeKept ==
    ASSUME TreeInv, KeepsTree(sm, sm'), pc' = pc,
           main'.canCancel = main.canCancel, main'.inReadback = main.inReadback,
           In(implQueue', "AbortHandled") => In(implQueue, "AbortHandled"),
           Starting \/ uploading => Starting' \/ uploading'
    PROVE  TreeInv'
BY DEF TreeInv, KeepsTree

\* A draw moves a readback on to its replacement; the answer to the main thread's call
\* cannot be cancelled any more.
LEMMA DrawsTree ==
    ASSUME TypeOK, failed = {}, Good, TreeInv,
           \/ DrawAndSwapIfPossible \/ DrawAndSwapForced \/ DrawAndSwapAbort \/ DrawAndReadback
    PROVE  TreeInv'
<1>1. DrawAndReadback <=> sm.readback = "DRAW_AND_READBACK"
  BY DrawAssertions
<1>2. UNCHANGED <<uploading, implQueue, main, pc>>
  BY Zenon DEF DrawAndSwapIfPossible, DrawAndSwapForced, DrawAndSwapAbort, DrawAndReadback, mainVars,
               proxyVars
<1> DEFINE s1 == UpdateStateOnDraw(sm, TRUE)
           r1 == UpdateStateOnDraw(sm, FALSE)
<1>3. sm \in State /\ s1 \in State /\ r1 \in State
  BY OperatorsTyped DEF TypeOK
<1>4. /\ r1.readbackTree = sm.readbackTree /\ s1.readbackTree = sm.readbackTree
      /\ r1.readback = IF sm.readback = "DRAW_AND_READBACK" THEN "REPLACEMENT_COMMIT" ELSE sm.readback
      /\ s1.readback = IF sm.readback = "DRAW_AND_READBACK" THEN "REPLACEMENT_COMMIT" ELSE sm.readback
  BY <1>3 DEF UpdateStateOnDraw, State
<1> HIDE DEF s1, r1
<1>5. KeepsTree(s1, sm') \/ KeepsTree(r1, sm')
  <2>1. CASE DrawAndSwapAbort
    BY <2>1 DEF DrawAndSwapAbort, KeepsTree, r1
  <2>2. CASE DrawAndReadback
    <3>1. sm' = r1 \/ sm' = DidLoseOutputSurface(r1)
      BY <2>2 DEF DrawAndReadback, Lose, r1
    <3> QED BY <3>1, <1>3, TreesOfStates DEF KeepsTree
  <2>3. CASE DrawAndSwapForced
    <3>1. PICK swapped \in BOOLEAN, incomplete \in BOOLEAN, lost \in BOOLEAN :
            LET s2 == IF swapped THEN [s1 EXCEPT !.incompleteTile = incomplete] ELSE s1
            IN  /\ incomplete => swapped
                /\ IF lost THEN Lose(DidLoseOutputSurface(s2))
                   ELSE sm' = s2 /\ UNCHANGED <<requested, deadline>>
      BY <2>3, Zenon DEF DrawAndSwapForced, s1
    <3> DEFINE s2 == IF swapped THEN [s1 EXCEPT !.incompleteTile = incomplete] ELSE s1
    <3>2. sm' = s2 \/ sm' = DidLoseOutputSurface(s2)
      BY <3>1 DEF Lose
    <3>3. s2 \in State
      BY <1>3, TreesOfStates
    <3>4. KeepsTree(s1, s2)
      BY <1>3, TreesOfStates DEF KeepsTree
    <3> HIDE DEF s2
    <3>5. KeepsTree(s2, DidLoseOutputSurface(s2))
      BY <3>3, TreesOfStates
    <3> QED BY <3>2, <3>4, <3>5 DEF KeepsTree
  <2>4. CASE DrawAndSwapIfPossible
    <3>1. PICK drawn \in BOOLEAN, swapped \in BOOLEAN, incomplete \in BOOLEAN, lost \in BOOLEAN :
            LET s2 == IF swapped THEN [s1 EXCEPT !.incompleteTile = incomplete] ELSE s1
                s3 == IF lost THEN DidLoseOutputSurface(s2) ELSE s2
                s4 == DidDrawIfPossibleCompleted(s3, drawn)
            IN  /\ (swapped \/ lost) => drawn
                /\ incomplete => swapped
                /\ IF lost THEN Lose(s4) ELSE sm' = s4 /\ UNCHANGED <<requested, deadline>>
      BY <2>4, Zenon DEF DrawAndSwapIfPossible, s1
    <3> DEFINE s2 == IF swapped THEN [s1 EXCEPT !.incompleteTile = incomplete] ELSE s1
               s3 == IF lost THEN DidLoseOutputSurface(s2) ELSE s2
               s4 == DidDrawIfPossibleCompleted(s3, drawn)
    <3>2. sm' = s4
      BY <3>1 DEF Lose
    <3>3. s2 \in State
      BY <1>3, TreesOfStates
    <3>4. KeepsTree(s1, s2)
      BY <1>3, TreesOfStates DEF KeepsTree
    <3> HIDE DEF s2
    <3>5. s3 \in State /\ KeepsTree(s2, s3)
      BY <3>3, TreesOfStates, OperatorsTyped DEF KeepsTree
    <3> HIDE DEF s3
    <3>6. KeepsTree(s3, s4)
      BY <3>5, TreeOfCompleted
    <3> QED BY <3>2, <3>4, <3>5, <3>6 DEF KeepsTree
  <2> QED BY <2>1, <2>2, <2>3, <2>4
<1>6. sm.readback = "DRAW_AND_READBACK" =>
        /\ ~In(implQueue, "AbortHandled")
        /\ main.inReadback /\ pc \in {"commit", "readback"}
  BY DEF Good, TokenInv, ReadbackInv, Aborting, ReadingBack
<1>7. Starting' <=> Starting
  BY <1>2 DEF Starting
<1> QED BY <1>2, <1>4, <1>5, <1>6, <1>7 DEF TreeInv, KeepsTree

LEMMA LoopTree ==
    ASSUME TypeOK, failed = {}, Good, TreeInv, Loop, failed' = {}
    PROVE  TreeInv'
<1>1. sm \in State /\ main \in MainState
  BY DEF TypeOK
<1>2. CASE \/ AcquireLayerTexturesForMainThread \/ UpdateVisibleTiles \/ ManageTiles
           \/ BeginOutputSurfaceCreation \/ EndOfLoop
  <2>1. UNCHANGED <<uploading, implQueue, main, pc>>
    BY <1>2, Zenon DEF AcquireLayerTexturesForMainThread, UpdateVisibleTiles, ManageTiles,
         BeginOutputSurfaceCreation, EndOfLoop, mainVars, proxyVars
  <2>2. KeepsTree(sm, sm')
    <3>1. CASE EndOfLoop
      <4>1. sm' \in {[sm EXCEPT !.frame = "INSIDE_DEADLINE"], [sm EXCEPT !.frame = "INSIDE_BEGIN_FRAME"],
                     [sm EXCEPT !.frame = "IDLE"], [sm EXCEPT !.polling = @ /\ stage # "poll"]}
        BY <3>1, Zenon DEF EndOfLoop
      <4> QED BY <1>1, <4>1 DEF KeepsTree, State
    <3>2. CASE AcquireLayerTexturesForMainThread \/ ManageTiles \/ BeginOutputSurfaceCreation
      BY <1>1, <3>2 DEF AcquireLayerTexturesForMainThread, ManageTiles, BeginOutputSurfaceCreation,
           KeepsTree, State
    <3>3. CASE UpdateVisibleTiles
      BY <1>1, <3>3 DEF UpdateVisibleTiles, KeepsTree, State
    <3> QED BY <1>2, <3>1, <3>2, <3>3
  <2>3. Starting' <=> Starting
    BY <2>1 DEF Starting
  <2> QED BY <2>1, <2>2, <2>3, TreeKept
<1>3. CASE SendBeginMainFrame
  <2>1. UNCHANGED <<uploading, implQueue, main, pc>>
    BY <1>3 DEF SendBeginMainFrame, mainVars
  <2>2. /\ sm'.readbackTree = sm.readbackTree
        /\ sm'.readback = IF sm.readback = "NEEDS_BEGIN_MAIN_FRAME" THEN "COMMIT" ELSE sm.readback
    BY <1>1, <1>3 DEF SendBeginMainFrame, OnSendBeginMainFrame, State
  <2>3. Starting' <=> Starting
    BY <2>1 DEF Starting
  <2> QED BY <2>1, <2>2, <2>3 DEF TreeInv
<1>4. CASE ActivatePendingTree
  <2>1. UNCHANGED <<uploading, implQueue, main, pc>>
    BY <1>4 DEF ActivatePendingTree, mainVars
  <2> DEFINE s == UpdateStateOnActivation(sm)
  <2>2. s \in State
    BY <1>1, OperatorsTyped
  <2>3. /\ s.readbackTree = (sm.readback = "ACTIVATION")
        /\ sm.readback = "ACTIVATION" => s.readback = "DRAW_AND_READBACK"
        /\ s.readback = "REPLACEMENT_COMMIT" => sm.readback = "REPLACEMENT_COMMIT"
    BY <1>1 DEF UpdateStateOnActivation, State
  <2>4. PICK canDraw : sm' = [s EXCEPT !.canDraw = canDraw]
    BY <1>4, Zenon DEF ActivatePendingTree
  <2> HIDE DEF s
  <2>5. sm'.readback = s.readback /\ sm'.readbackTree = s.readbackTree
    BY <2>2, <2>4 DEF State
  <2>6. Starting' <=> Starting
    BY <2>1 DEF Starting
  <2> QED BY <2>1, <2>3, <2>5, <2>6 DEF TreeInv
<1>5. CASE Commit
  <2>1. UNCHANGED <<implQueue, pc>> /\ main' = [main EXCEPT !.waitsForActivation = FALSE]
    BY <1>5 DEF Commit
  <2>2. main'.canCancel = main.canCancel
    BY <1>1, <2>1 DEF MainState
  <2>3. CommitAllowed(sm)
    BY <1>5 DEF Commit, Assert
  <2> DEFINE s == UpdateStateOnCommit(sm, FALSE)
  <2>4. s \in State
    BY <1>1, OperatorsTyped
  <2>5. /\ sm.readback \in {"IDLE", "COMMIT", "REPLACEMENT_COMMIT"}
        /\ s.readback # "REPLACEMENT_COMMIT"
        /\ s.readbackTree => s.readback # "IDLE"
    <3>1. sm.readback \in {"IDLE", "COMMIT", "REPLACEMENT_COMMIT"}
      BY <2>3 DEF CommitAllowed
    <3> DEFINE tree == "impl_side_painting" \in sm.settings
    <3>2. /\ s.readbackTree = IF tree THEN sm.readbackTree ELSE sm.readback = "COMMIT"
          /\ sm.readback = "COMMIT" => s.readback = IF tree THEN "ACTIVATION" ELSE "DRAW_AND_READBACK"
          /\ sm.readback = "REPLACEMENT_COMMIT" =>
                s.readback = IF tree THEN "REPLACEMENT_ACTIVATION" ELSE "IDLE"
          /\ sm.readback = "IDLE" => s.readback = "IDLE"
      BY <1>1 DEF UpdateStateOnCommit, State
    <3> HIDE DEF s, tree
    <3> QED BY <3>1, <3>2 DEF TreeInv
  <2>6. PICK ready \in BOOLEAN : sm' = [s EXCEPT !.readyToActivate = ready]
    BY <1>5, CommitChanges
  <2> HIDE DEF s
  <2>7. sm'.readback = s.readback /\ sm'.readbackTree = s.readbackTree
    BY <2>4, <2>6 DEF State
  <2> QED BY <2>1, <2>2, <2>5, <2>7 DEF TreeInv
<1>6. CASE DrawAndSwapIfPossible \/ DrawAndSwapForced \/ DrawAndSwapAbort \/ DrawAndReadback
  BY <1>6, DrawsTree
<1> QED BY <1>2, <1>3, <1>4, <1>5, <1>6 DEF Loop

\* An answer that nothing was to be committed is not one to the BeginMainFrame behind
\* a readback.
LEMMA ImplTaskTree ==
    ASSUME TypeOK, failed = {}, Good, TreeInv, ImplTask, failed' = {}
    PROVE  TreeInv'
<1>1. sm \in State /\ main \in MainState
  BY DEF TypeOK
<1>2. /\ \A task : Task(task) =>
           /\ \A t : In(implQueue', t) => In(implQueue, t)
           /\ \A t : In(implQueue, t) /\ t # task => In(implQueue', t)
           /\ In(implQueue, task)
  BY TaskLeaves DEF LeftBy
<1>3. CASE \/ SetCanStart \/ SetNeedsCommitOnImplThread
           \/ \E visible \in BOOLEAN : SetVisibleOnImplThread(visible)
           \/ AcquireLayerTexturesForMainThreadOnImplThread
  <2>1. PICK task \in {"SetCanStart", "SetNeedsCommit", "Show", "Hide", "AcquireLayerTextures"} :
          Task(task)
    BY <1>3 DEF SetCanStart, SetNeedsCommitOnImplThread, SetVisibleOnImplThread,
         AcquireLayerTexturesForMainThreadOnImplThread
  <2>2. UNCHANGED <<uploading, main, pc>>
    BY <1>3 DEF SetCanStart, SetNeedsCommitOnImplThread, SetVisibleOnImplThread,
         AcquireLayerTexturesForMainThreadOnImplThread, mainVars, proxyVars
  <2>3. KeepsTree(sm, sm')
    BY <1>1, <1>3 DEF SetCanStart, SetNeedsCommitOnImplThread, SetVisibleOnImplThread,
         AcquireLayerTexturesForMainThreadOnImplThread, KeepsTree, State
  <2>4. Starting => Starting'
    BY <1>2, <2>1 DEF Starting
  <2> QED BY <1>2, <2>1, <2>2, <2>3, <2>4, TreeKept
<1>4. CASE ForceCommitForReadbackOnImplThread
  <2>1. pc' = pc /\ main' = main
    BY <1>4 DEF ForceCommitForReadbackOnImplThread, mainVars
  <2>2. /\ sm'.readback \in {"COMMIT", "NEEDS_BEGIN_MAIN_FRAME"}
    BY <1>1, <1>4 DEF ForceCommitForReadbackOnImplThread, SetNeedsForcedCommitForReadback, State
  <2> QED BY <2>1, <2>2 DEF TreeInv
<1>5. CASE StartCommitOnImplThread
  <2>1. Task("StartCommit") /\ uploading' /\ pc' = pc /\ main' = main
    BY <1>5 DEF StartCommitOnImplThread, mainVars
  <2>2. KeepsTree(sm, sm')
    BY <1>1, <1>5 DEF StartCommitOnImplThread, KeepsTree, State
  <2> QED BY <1>2, <2>1, <2>2, TreeKept
<1>6. ASSUME NEW didHandle \in BOOLEAN, BeginMainFrameAbortedOnImplThread(didHandle)
      PROVE  TreeInv'
  <2>1. CASE didHandle
    <3>1. Task("AbortHandled") /\ pc' = pc /\ main' = main /\ sm' = UpdateStateOnCommit(sm, TRUE)
      BY <1>6, <2>1 DEF BeginMainFrameAbortedOnImplThread, BeginMainFrameAborted, mainVars
    <3>2. Aborting /\ sm.readback # "REPLACEMENT_COMMIT"
      BY <1>2, <3>1 DEF Aborting, TreeInv
    <3>3. CommitAllowed(sm)
      BY <1>6, <2>1 DEF BeginMainFrameAbortedOnImplThread, Assert
    <3>4. sm.readback = "IDLE"
      BY <3>2, <3>3 DEF Good, TokenInv, ReadingBack, CommitAllowed
    <3>5. sm'.readback = "IDLE" /\ sm'.readbackTree = sm.readbackTree
      BY <1>1, <3>1, <3>4 DEF UpdateStateOnCommit, State
    <3> QED BY <3>1, <3>4, <3>5 DEF TreeInv
  <2>2. CASE ~didHandle
    <3>1. /\ Task("AbortUnhandled") /\ pc' = pc /\ main' = main /\ uploading' = uploading
          /\ sm' = [sm EXCEPT !.commit = "IDLE", !.needsCommit = TRUE]
      BY <1>6, <2>2 DEF BeginMainFrameAbortedOnImplThread, BeginMainFrameAborted, mainVars, proxyVars
    <3>2. KeepsTree(sm, sm')
      BY <1>1, <3>1 DEF KeepsTree, State
    <3>3. Starting => Starting'
      BY <1>2, <3>1 DEF Starting
    <3> QED BY <1>2, <3>1, <3>2, <3>3, TreeKept
  <2> QED BY <2>1, <2>2
<1>7. CASE HasInitializedOutputSurfaceOnImplThread
  <2>1. /\ Task("HasInitializedOutputSurface") /\ UNCHANGED <<sm, uploading, pc>>
        /\ main' = [main EXCEPT !.reply = HasInitializedOutputSurface(sm)]
    BY <1>7 DEF HasInitializedOutputSurfaceOnImplThread, schedulerVars, proxyVars
  <2>2. main'.canCancel = main.canCancel /\ main'.inReadback = main.inReadback
    BY <1>1, <2>1 DEF MainState
  <2>3. KeepsTree(sm, sm') /\ (Starting => Starting')
    BY <1>2, <2>1 DEF KeepsTree, Starting
  <2> QED BY <1>2, <2>1, <2>2, <2>3, TreeKept
<1>8. CASE InitializeOutputSurfaceOnImplThread
  <2>1. Task("InitializeOutputSurface") /\ UNCHANGED <<uploading, pc>>
    BY <1>8 DEF InitializeOutputSurfaceOnImplThread, proxyVars
  <2>2. PICK success \in BOOLEAN, canDraw \in BOOLEAN :
          /\ main' = [main EXCEPT !.reply = success]
          /\ IF success THEN sm' = [DidCreateAndInitializeOutputSurface(sm) EXCEPT !.canDraw = canDraw]
                        ELSE sm' = sm
    BY <1>8 DEF InitializeOutputSurfaceOnImplThread
  <2>3. main'.canCancel = main.canCancel /\ main'.inReadback = main.inReadback
    BY <1>1, <2>2 DEF MainState
  <2>4. KeepsTree(sm, sm')
    BY <1>1, <2>2 DEF DidCreateAndInitializeOutputSurface, KeepsTree, State
  <2>5. Starting => Starting'
    BY <1>2, <2>1 DEF Starting
  <2> QED BY <1>2, <2>1, <2>3, <2>4, <2>5, TreeKept
<1> QED BY <1>3, <1>4, <1>5, <1>6, <1>7, <1>8 DEF ImplTask

LEMMA ImplTimerTree ==
    ASSUME TypeOK, TreeInv,
           \/ ImplTimer \/ DidLoseOutputSurfaceOnImplThread
           \/ \E call \in ClientCalls : ClientCall(call)
    PROVE  TreeInv'
<1>1. sm \in State
  BY DEF TypeOK
<1>2. UNCHANGED <<uploading, implQueue, main, pc>>
  BY Zenon DEF ImplTimer, ReadyToFinalizeTextureUpdates, BeginImplFrame, OnBeginImplFrameDeadline,
       PollForAnticipatedDrawTriggers, DidLoseOutputSurfaceOnImplThread, ClientCall, mainVars, proxyVars
<1>3. KeepsTree(sm, sm')
  <2>1. CASE ImplTimer
    BY <1>1, <2>1 DEF ImplTimer, ReadyToFinalizeTextureUpdates, BeginImplFrame,
         OnBeginImplFrameDeadline, PollForAnticipatedDrawTriggers, OnBeginImplFrame, NewFrame,
         KeepsTree, State
  <2>2. CASE DidLoseOutputSurfaceOnImplThread
    BY <1>1, <2>2, TreesOfStates DEF DidLoseOutputSurfaceOnImplThread, Lose
  <2>3. ASSUME NEW call \in ClientCalls, ClientCall(call) PROVE KeepsTree(sm, sm')
    BY <1>1, <2>3 DEF ClientCall, Told, ClientCalls, KeepsTree, State
  <2> QED BY <2>1, <2>2, <2>3
<1>4. Starting' <=> Starting
  BY <1>2 DEF Starting
<1> QED BY <1>2, <1>3, <1>4, TreeKept

\* What the main thread posts but for the answer that there is nothing to commit.
Others == ImplTasks \ {"AbortHandled"}

LEMMA OthersPosted ==
    /\ <<>> \in Seq(Others)
    /\ \A task \in Others : <<task>> \in Seq(Others)
    /\ \A tasks \in Seq(Others) : \A task \in Others : tasks \o <<task>> \in Seq(Others)
<1>1. <<>> \in Seq(Others) /\ \A task \in Others : <<task>> \in Seq(Others)
  BY ShortQueues
<1>2. ASSUME NEW tasks \in Seq(Others), NEW task \in Others
      PROVE  tasks \o <<task>> \in Seq(Others)
  BY <1>1, ConcatProperties
<1> QED BY <1>1, <1>2

\* The main thread posts such tasks, and does not come to think that a commit may be
\* cancelled.
Harmless(m) ==
    /\ \E tasks \in Seq(Others) : implQueue' = implQueue \o tasks
    /\ pc' # "readback" /\ (main'.canCancel => m.canCancel)

LEMMA HarmlessTree ==
    ASSUME TypeOK, MainFree, TreeInv, pc # "commit", sm' = sm, Harmless(main)
    PROVE  TreeInv'
<1>1. PICK tasks \in Seq(Others) : implQueue' = implQueue \o tasks
  BY DEF Harmless
<1>2. tasks \in Seq(ImplTasks) /\ implQueue \in Seq(ImplTasks) /\ ~In(tasks, "AbortHandled")
  BY DEF TypeOK, Others, In
<1>3. In(implQueue \o tasks, "AbortHandled") <=> In(implQueue, "AbortHandled") \/ In(tasks, "AbortHandled")
  BY <1>2, ConcatOfQueues
<1>4. In(implQueue', "AbortHandled") => In(implQueue, "AbortHandled")
  BY <1>1, <1>2, <1>3
<1> QED BY <1>4 DEF TreeInv, MainFree, Harmless

LEMMA SurfaceReturnsHarmless ==
    ASSUME NEW tasks \in Seq(Others), NEW m \in MainState, SurfaceReturns(tasks, m)
    PROVE  Harmless(m)
<1>1. tasks \o <<"ForceCommitForReadback">> \in Seq(Others)
  BY OthersPosted DEF Others, ImplTasks
<1>2. [m EXCEPT !.inReadback = FALSE].canCancel = m.canCancel
  BY DEF MainState
<1>3. /\ implQueue' \in {implQueue \o tasks, implQueue \o (tasks \o <<"ForceCommitForReadback">>)}
      /\ pc' \in {"sent", "idle"} /\ main' \in {m, [m EXCEPT !.inReadback = FALSE]}
  BY DEF SurfaceReturns, Post
<1>4. main'.canCancel = m.canCancel
  BY <1>2, <1>3
<1>5. \E all \in Seq(Others) : implQueue' = implQueue \o all
  BY <1>1, <1>3
<1> QED BY <1>3, <1>4, <1>5 DEF Harmless

LEMMA CreationHarmless ==
    ASSUME NEW tasks \in Seq(Others), NEW m \in MainState, DoCreate(tasks, m) \/ Fails(tasks, m)
    PROVE  Harmless(m)
<1>1. CASE Fails(tasks, m)
  <2> DEFINE gaveUp == m.attempts + 1 >= MaxRecreate
             n == IF gaveUp THEN MaxRecreate ELSE m.attempts + 1
             b == m.canBeInitialized /\ ~gaveUp
             f == [m EXCEPT !.attempts = n, !.canBeInitialized = b]
  <2>1. m.attempts \in 0..MaxRecreate /\ n \in 0..MaxRecreate /\ b \in BOOLEAN
    <3>1. m.attempts \in 0..MaxRecreate /\ m.canBeInitialized \in BOOLEAN
      BY DEF MainState
    <3>2. n \in 0..MaxRecreate
      BY <3>1, CompositorsAssumption
    <3> QED BY <3>1, <3>2
  <2>2. SurfaceReturns(tasks, f)
    BY <1>1 DEF Fails
  <2> HIDE DEF n, b
  <2>3. f \in MainState
    BY <2>1, MainStates
  <2>4. f.canCancel = m.canCancel
    BY DEF MainState
  <2> HIDE DEF f
  <2>5. Harmless(f)
    BY <2>2, <2>3, SurfaceReturnsHarmless
  <2> QED BY <2>4, <2>5 DEF Harmless
<1>2. CASE Post(tasks \o <<"InitializeOutputSurface">>, "init", m)
  <2>1. tasks \o <<"InitializeOutputSurface">> \in Seq(Others)
    BY OthersPosted DEF Others, ImplTasks
  <2> QED BY <1>2, <2>1 DEF Post, Harmless
<1> QED BY <1>1, <1>2 DEF DoCreate

\* The calls of the embedder.
LEMMA EmbedderTree ==
    ASSUME TypeOK, Good, TreeInv, Embedder
    PROVE  TreeInv'
<1>1. pc = "idle" /\ sm' = sm
  BY DEF Embedder, SetNeedsCommit, SetNeedsAnimate, SetNeedsUpdateLayers, SetVisible,
       AcquireLayerTextures, SetNextCommitWaitsForActivation, SetDeferCommits, CompositeAndReadback,
       Call, schedulerVars
<1>2. MainFree
  BY <1>1, IdleIsFree
<1>3. <<>> \in Seq(Others) /\ \A task \in Others : <<task>> \in Seq(Others)
  BY OthersPosted
<1>4. {"SetNeedsCommit", "Show", "Hide", "AcquireLayerTextures", "HasInitializedOutputSurface",
       "ForceCommitForReadback"} \subseteq Others
  BY DEF Others, ImplTasks
<1>5. \E tasks \in {<<>>} \cup {<<task>> : task \in Others} : implQueue' = implQueue \o tasks
  <2>1. \A m : CommitRequest(m) \in {<<>>, <<"SetNeedsCommit">>}
    BY DEF CommitRequest
  <2>2. CASE SetNeedsCommit
    BY <1>4, <2>1, <2>2 DEF SetNeedsCommit, Post
  <2>3. CASE SetNeedsAnimate \/ SetNeedsUpdateLayers
    BY <1>4, <2>1, <2>3 DEF SetNeedsAnimate, SetNeedsUpdateLayers, Post
  <2>4. CASE SetVisible
    BY <1>4, <2>4 DEF SetVisible, Post
  <2>5. CASE AcquireLayerTextures \/ SetNextCommitWaitsForActivation \/ SetDeferCommits
    BY <1>4, <2>5 DEF AcquireLayerTextures, SetNextCommitWaitsForActivation, SetDeferCommits, Post
  <2>6. CASE CompositeAndReadback
    <3>1. implQueue' \in {implQueue \o <<task>> : task \in {"HasInitializedOutputSurface",
                                                            "ForceCommitForReadback"}}
      BY <2>6 DEF CompositeAndReadback, Post
    <3> QED BY <1>4, <3>1
  <2> QED BY <2>2, <2>3, <2>4, <2>5, <2>6 DEF Embedder
<1>6. pc' # "readback"
  BY DEF Embedder, SetNeedsCommit, SetNeedsAnimate, SetNeedsUpdateLayers, SetVisible,
       AcquireLayerTextures, SetNextCommitWaitsForActivation, SetDeferCommits, CompositeAndReadback,
       Post
<1>7. main'.canCancel => main.canCancel
  <2>1. main \in MainState
    BY DEF TypeOK
  <2>2. CASE SetNeedsCommit
    BY <2>1, <2>2 DEF SetNeedsCommit, Post, MainState
  <2>3. CASE SetNeedsAnimate
    BY <2>1, <2>3 DEF SetNeedsAnimate, Post, MainState
  <2>4. CASE SetNeedsUpdateLayers \/ SetVisible \/ AcquireLayerTextures
    BY <2>1, <2>4 DEF SetNeedsUpdateLayers, SetVisible, AcquireLayerTextures, Post, MainState
  <2>5. CASE SetNextCommitWaitsForActivation \/ SetDeferCommits \/ CompositeAndReadback
    BY <2>1, <2>5 DEF SetNextCommitWaitsForActivation, SetDeferCommits, CompositeAndReadback, Post,
         MainState
  <2> QED BY <2>2, <2>3, <2>4, <2>5 DEF Embedder
<1>8. Harmless(main)
  BY <1>3, <1>5, <1>6, <1>7 DEF Harmless
<1> QED BY <1>1, <1>2, <1>8, HarmlessTree

\* A BeginMainFrame that finds the replacement of a readback due is answered with a
\* commit.
LEMMA PaintTree ==
    ASSUME TypeOK, TreeInv, MainFree, pc \in {"idle", "sent"}, sm' = sm, Paint
    PROVE  TreeInv'
<1>1. PICK animate \in BOOLEAN, commit \in BOOLEAN, again \in BOOLEAN, updated \in BOOLEAN :
        LET canCancel == main.canCancel /\ ~animate /\ ~commit /\ ~main.inReadback
            aborts == ~updated /\ canCancel
            resend == Resend(again, animate, aborts)
        IN  /\ Assert("update", ~main.surfaceLost)
            /\ Post((IF resend THEN <<"SetNeedsCommit">> ELSE <<>>)
                      \o <<IF aborts THEN "AbortHandled" ELSE "StartCommit">>,
                    IF aborts THEN "idle" ELSE "commit",
                    Painted(main, again, animate, resend))
  BY Zenon DEF Paint
<1> DEFINE aborts == ~updated /\ (main.canCancel /\ ~animate /\ ~commit /\ ~main.inReadback)
           resend == Resend(again, animate, aborts)
           tasks == IF resend THEN <<"SetNeedsCommit">> ELSE <<>>
           x == IF aborts THEN "AbortHandled" ELSE "StartCommit"
<1>2. implQueue' = implQueue \o (tasks \o <<x>>) /\ pc' \in {"idle", "commit"}
  BY <1>1 DEF Post
<1>3. tasks \in Seq(Others) /\ x \in ImplTasks
  <2>1. <<>> \in Seq(Others) /\ <<"SetNeedsCommit">> \in Seq(Others)
    BY OthersPosted DEF Others, ImplTasks
  <2> HIDE DEF resend, aborts
  <2> QED BY <2>1 DEF ImplTasks
<1>4. ~main.canCancel => x = "StartCommit"
  OBVIOUS
<1> HIDE DEF tasks, x
<1>5. tasks \in Seq(ImplTasks) /\ implQueue \in Seq(ImplTasks) /\ ~In(tasks, "AbortHandled")
  BY <1>3 DEF TypeOK, Others, In
<1> DEFINE y == <<x>>
           all == tasks \o y
<1>6. y \in Seq(ImplTasks) /\ \A t : In(y, t) <=> t = x
  BY <1>3, ShortQueues
<1> HIDE DEF y
<1>7. all \in Seq(ImplTasks) /\ \A t : In(all, t) <=> In(tasks, t) \/ In(y, t)
  BY <1>5, <1>6, ConcatOfQueues
<1> HIDE DEF all
<1>8. \A t : In(implQueue \o all, t) <=> In(implQueue, t) \/ In(all, t)
  BY <1>5, <1>7, ConcatOfQueues
<1>9. implQueue' = implQueue \o all
  BY <1>2 DEF all, y
<1>10. ~main.canCancel =>
         Starting' /\ (In(implQueue', "AbortHandled") => In(implQueue, "AbortHandled"))
  BY <1>4, <1>5, <1>6, <1>7, <1>8, <1>9 DEF Starting
<1> QED BY <1>2, <1>10 DEF TreeInv, MainFree

LEMMA MainRunsTree ==
    ASSUME TypeOK, Good, TreeInv, MainRuns
    PROVE  TreeInv'
<1>1. pc = "idle" /\ sm' = sm
  BY DEF MainRuns, BeginMainFrame, CreateAndInitializeOutputSurface, Retry, MainTask, schedulerVars
<1>2. MainFree
  BY <1>1, IdleIsFree
<1>3. main \in MainState
  BY DEF TypeOK
<1>4. /\ <<>> \in Seq(Others) /\ <<"AbortUnhandled">> \in Seq(Others)
      /\ <<"HasInitializedOutputSurface">> \in Seq(Others)
  BY OthersPosted DEF Others, ImplTasks
<1>5. CASE BeginMainFrame /\ (main.deferCommits \/ ~main.visible)
  <2>1. implQueue' \in {implQueue \o <<>>, implQueue \o <<"AbortUnhandled">>} /\ pc' = "idle"
    BY <1>5 DEF BeginMainFrame, Post
  <2>2. main'.canCancel = main.canCancel
    BY <1>3, <1>5 DEF BeginMainFrame, Post, MainState
  <2>3. Harmless(main)
    BY <1>4, <2>1, <2>2 DEF Harmless
  <2> QED BY <1>1, <1>2, <2>3, HarmlessTree
<1>6. CASE BeginMainFrame /\ ~main.deferCommits /\ main.visible
  <2>1. Paint
    BY <1>6, Zenon DEF BeginMainFrame
  <2> QED BY <1>1, <1>2, <2>1, PaintTree
<1>7. CASE CreateAndInitializeOutputSurface
  <2>1. Harmless(main)
    BY <1>4, <1>7 DEF CreateAndInitializeOutputSurface, Post, Harmless
  <2> QED BY <1>1, <1>2, <2>1, HarmlessTree
<1>8. CASE Retry
  <2>1. DoCreate(<<>>, main)
    BY <1>8 DEF Retry
  <2>2. Harmless(main)
    BY <1>3, <1>4, <2>1, CreationHarmless
  <2> QED BY <1>1, <1>2, <2>2, HarmlessTree
<1> QED BY <1>5, <1>6, <1>7, <1>8 DEF MainRuns

\* After a readback the main thread may not cancel the next commit.
LEMMA MainReturnsTree ==
    ASSUME TypeOK, Good, TreeInv, MainReturns
    PROVE  TreeInv'
<1>1. sm' = sm /\ uploading' = uploading
  BY DEF MainReturns, SetVisibleReturns, AcquireLayerTexturesReturns, BeginMainFrameReturns,
       BeginMainFrameSent, CompositeAndReadbackReturns, HasInitializedReturns, InitializeReturns,
       schedulerVars, proxyVars
<1>2. pc \in signalled
  BY DEF MainReturns, SetVisibleReturns, AcquireLayerTexturesReturns, BeginMainFrameReturns,
       BeginMainFrameSent, CompositeAndReadbackReturns, HasInitializedReturns, InitializeReturns,
       Resume
<1>3. MainFree
  BY <1>2, MainIsFree
<1>4. main \in MainState /\ <<>> \in Seq(Others) /\ <<"SetNeedsCommit">> \in Seq(Others)
  BY OthersPosted DEF TypeOK, Others, ImplTasks
<1>5. CASE SetVisibleReturns \/ AcquireLayerTexturesReturns \/ CompositeAndReadbackReturns
  <2>1. pc # "commit" /\ implQueue' = implQueue \o <<>> /\ pc' = "idle"
    BY <1>5 DEF SetVisibleReturns, AcquireLayerTexturesReturns, CompositeAndReadbackReturns, Post,
         Resume
  <2>2. main'.canCancel => main.canCancel
    BY <1>4, <1>5 DEF SetVisibleReturns, AcquireLayerTexturesReturns, CompositeAndReadbackReturns,
         Post, MainState
  <2>3. Harmless(main)
    BY <1>4, <2>1, <2>2 DEF Harmless
  <2> QED BY <1>1, <1>3, <2>1, <2>3, HarmlessTree
<1>6. CASE BeginMainFrameReturns
  <2>1. /\ implQueue' = implQueue \o <<>>
        /\ IF main.inReadback THEN pc' = "readback" /\ main' = [main EXCEPT !.canCancel = FALSE]
                              ELSE pc' = "idle" /\ main' = main
    BY <1>6 DEF BeginMainFrameReturns, Post
  <2>2. implQueue \o <<>> = implQueue
    BY DEF TypeOK
  <2>3. main.inReadback => ~main'.canCancel
    BY <1>4, <2>1 DEF MainState
  <2>4. Starting' <=> Starting
    BY <2>1, <2>2 DEF Starting
  <2> QED BY <1>1, <2>1, <2>2, <2>3, <2>4 DEF TreeInv
<1>7. CASE BeginMainFrameSent
  <2>1. pc = "sent" /\ Paint
    BY <1>7 DEF BeginMainFrameSent, Resume
  <2> QED BY <1>1, <1>3, <2>1, PaintTree
<1>8. CASE HasInitializedReturns
  <2> DEFINE newlyLost == ~main.surfaceLost
             ask == IF newlyLost /\ ~main.commitRequested THEN CommitRequest(main) ELSE <<>>
             sent == main.requestSent \/ ~main.commitRequested
             lost == IF newlyLost
                     THEN [main EXCEPT !.surfaceLost = TRUE, !.attempts = 0, !.canCancel = FALSE,
                                       !.commitRequested = TRUE, !.requestSent = sent]
                     ELSE main
  <2>1. /\ pc = "has"
        /\ IF main.reply THEN SurfaceReturns(<<>>, main) ELSE DoCreate(ask, lost)
    BY <1>8, Zenon DEF HasInitializedReturns, Resume
  <2>2. ask \in Seq(Others)
    BY <1>4 DEF CommitRequest
  <2>3. sent \in BOOLEAN /\ 0 \in 0..MaxRecreate
    BY <1>4, CompositorsAssumption DEF MainState
  <2> HIDE DEF sent, ask
  <2>4. lost \in MainState
    BY <1>4, <2>3, ZenonT(30) DEF MainState
  <2>5. lost.canCancel => main.canCancel
    BY <1>4 DEF MainState
  <2> HIDE DEF lost
  <2>6. CASE main.reply
    BY <1>1, <1>3, <1>4, <2>1, <2>6, SurfaceReturnsHarmless, HarmlessTree
  <2>7. CASE ~main.reply
    <3>1. Harmless(lost)
      BY <2>1, <2>2, <2>4, <2>7, CreationHarmless
    <3>2. Harmless(main)
      BY <2>5, <3>1 DEF Harmless
    <3> QED BY <1>1, <1>3, <2>1, <3>2, HarmlessTree
  <2> QED BY <2>6, <2>7
<1>9. CASE InitializeReturns
  <2> DEFINE m == [main EXCEPT !.surfaceLost = FALSE]
  <2>1. pc = "init" /\ (SurfaceReturns(<<>>, m) \/ Fails(<<>>, main))
    BY <1>9 DEF InitializeReturns, Resume
  <2>2. m \in MainState
    BY <1>4, MainStates
  <2>5. m.canCancel = main.canCancel
    BY <1>4 DEF MainState
  <2> HIDE DEF m
  <2>3. Harmless(m) \/ Harmless(main)
    BY <1>4, <2>1, <2>2, SurfaceReturnsHarmless, CreationHarmless
  <2>4. Harmless(main)
    BY <2>3, <2>5 DEF Harmless
  <2> QED BY <1>1, <1>3, <2>1, <2>4, HarmlessTree
<1> QED BY <1>5, <1>6, <1>7, <1>8, <1>9 DEF MainReturns

Tree == failed = {} => TreeInv

\* The tree of a readback is the active one only until the readback has come to its end: the
\* readback state says so as long as no DCHECK has failed.
THEOREM ReadbackTreeIsReplaced == Spec => []Tree
<1>1. Init => Tree
  <2> SUFFICES ASSUME Init PROVE TreeInv
    BY DEF Tree
  <2>1. PICK c \in Compositors : sm = [InitialState(c.settings) EXCEPT !.visible = TRUE]
    BY DEF Init
  <2>2. sm.readback = "IDLE" /\ sm.readbackTree = FALSE
    BY <2>1 DEF InitialState
  <2>3. pc = "idle"
    BY DEF Init
  <2> QED BY <2>2, <2>3 DEF TreeInv
<1>2. ASSUME IInv, Tree, [Next]_vars PROVE Tree'
  <2> SUFFICES ASSUME failed' = {} PROVE TreeInv'
    BY DEF Tree
  <2>1. CASE UNCHANGED vars
    <3>1. UNCHANGED <<sm, uploading, implQueue, main, pc, failed>>
      BY <2>1 DEF vars, schedulerVars, proxyVars, mainVars
    <3>2. TreeInv
      BY <1>2, <3>1 DEF Tree
    <3>3. Starting' <=> Starting
      BY <3>1 DEF Starting
    <3> QED BY <3>1, <3>2, <3>3, TreeKept DEF KeepsTree
  <2>2. CASE Next
    <3>1. failed = {} /\ TypeOK /\ Good /\ TreeInv
      BY <1>2, <2>2, FailedEnds DEF IInv, Tree
    <3> QED BY <2>2, <3>1, LoopTree, ImplTaskTree, ImplTimerTree, EmbedderTree, MainRunsTree,
               MainReturnsTree DEF Next
  <2> QED BY <1>2, <2>1, <2>2
<1> QED BY <1>1, <1>2, InvariantHolds, PTL DEF Spec

\* Whatever the compositor is told, and whichever of its stages it is in: while the main
\* thread has the textures no frame is swapped, and none while the active tree is that of
\* a readback, unless another readback has been asked for before this one was replaced.
THEOREM ShowsNothingForbidden == Spec => NothingForbiddenShown
<1>1. ASSUME TypeOK, Tree, [Next]_vars, ~sm.swapped,
             sm.texture = "MAIN_THREAD" \/ (sm.readbackTree /\ ~ReadsBackAgain(sm))
      PROVE  ~sm'.swapped
  <2>1. CASE UNCHANGED vars
    BY <1>1, <2>1 DEF vars, schedulerVars
  <2>2. CASE Next
    <3>1. failed = {} /\ TreeInv
      BY <1>1, <2>2, FailedEnds DEF Tree
    <3>2. sm.readbackTree => sm.readback # "IDLE"
      BY <3>1 DEF TreeInv
    <3>3. sm.readback \in ReadbackState
      BY <1>1 DEF TypeOK, State
    <3>4. \/ sm.texture = "MAIN_THREAD" \/ sm.readback = "DRAW_AND_READBACK"
          \/ AwaitsReplacement(sm)
      BY <1>1, <3>2, <3>3 DEF ReadsBackAgain, AwaitsReplacement, ReadbackState
    <3>5. ~DrawAndSwapIfPossible /\ ~DrawAndSwapForced
      BY <3>4, DrawsAllowed DEF DrawAndSwapIfPossible, DrawAndSwapForced, Round
    <3> QED BY <1>1, <2>2, <3>5, OnlyDrawsSwap
  <2> QED BY <1>1, <2>1, <2>2
<1>2. TypeOK /\ Tree /\ [Next]_vars =>
        [sm.texture = "MAIN_THREAD" /\ ~sm.swapped => ~sm'.swapped]_vars
  BY <1>1
<1>3. TypeOK /\ Tree /\ [Next]_vars =>
        [sm.readbackTree /\ ~ReadsBackAgain(sm) /\ ~sm.swapped => ~sm'.swapped]_vars
  BY <1>1
<1> QED BY <1>2, <1>3, TypeCorrect, ReadbackTreeIsReplaced, PTL
        DEF Spec, NothingForbiddenShown, NoSwapWithoutTextures, ReadbackNeverShown


\* A frame is asked for, painted, uploaded, committed, activated and drawn in this
\* order, each stage in the state that the DCHECKs of the model ask for (but the four kinds
\* that can fail), and the layer textures never have two owners, whatever is lost, hidden or
\* read back in between.
THEOREM PipelineIsConsistent == Spec => []PipelineConsistent
<1>1. IInv => PipelineConsistent
  BY DEF IInv
<1> QED BY <1>1, InvariantHolds, PTL

\* The scheduler waits for a commit exactly when one is on its way: a BeginMainFrame is
\* never lost between the message loops, never there twice, and never answered twice,
\* the one behind a readback included.
THEOREM MainFrameIsAccounted == Spec => []MainFrameAccounted
<1>1. IInv => MainFrameAccounted
  <2> SUFFICES ASSUME IInv, failed = {} PROVE MainFrameAccounted
    BY DEF MainFrameAccounted
  <2>1. TokenInv
    BY DEF IInv, Good
  <2>2. PostedMainFrames # {} <=> In(mainQueue, "BeginMainFrame")
    BY DEF PostedMainFrames, In
  <2>3. MainFrameOut <=> FrameOut
    BY <2>2 DEF MainFrameOut, FrameOut
  <2>4. OneMainFrame
    <3>1. \A i, j \in PostedMainFrames : i = j
      BY <2>1 DEF TokenInv, Once, PostedMainFrames
    <3> QED BY <2>1, <2>2, <3>1 DEF OneMainFrame, TokenInv
  <2>5. Starting \/ Aborting => Queued({"StartCommit", "AbortHandled", "AbortUnhandled"})
    BY DEF Starting, Aborting, Queued, In
  <2> QED BY <2>1, <2>3, <2>4, <2>5 DEF MainFrameAccounted, TokenInv, ReadingBack
<1> QED BY <1>1, InvariantHolds, PTL

\* No request of the embedder is lost: one that the main thread counts as sent, and so
\* never sends again, is known to the scheduler, in its queue, or answered by a
\* BeginMainFrame that is out.
THEOREM RequestsAreNotLost == Spec => []RequestNotLost
<1>1. IInv => RequestNotLost
  <2> SUFFICES ASSUME IInv, failed = {} PROVE RequestNotLost
    BY DEF RequestNotLost
  <2>1. RequestInv
    BY DEF IInv, Good
  <2>2. FrameOut => MainFrameOut
    BY DEF FrameOut, MainFrameOut, PostedMainFrames, In
  <2>3. In(implQueue, "SetNeedsCommit") => Queued({"SetNeedsCommit"})
    BY DEF Queued, In
  <2> QED BY <2>1, <2>2, <2>3 DEF RequestNotLost, RequestInv
<1> QED BY <1>1, InvariantHolds, PTL

\* The scheduler never rests with work to do: when no loop runs, a frame that is needed
\* is asked for at a surface that will send it, one that has begun has its deadline
\* posted, and tiles that are to be managed have a frame or a poll to come.
THEOREM SchedulerNeverStalls == Spec => []NeverStalls
<1>1. IInv => NeverStalls
  <2> SUFFICES ASSUME IInv PROVE NeverStalls
    OBVIOUS
  <2>1. failed = {} => FrameInv /\ RestInv
    BY DEF IInv, Good
  <2>2. sm.frame \in {"IDLE", "STARTING", "INSIDE_BEGIN_FRAME", "INSIDE_DEADLINE"}
    BY DEF IInv, TypeOK, State, BeginImplFrameState
  <2>3. FramesKeepComing
    BY <2>1, <2>2 DEF FramesKeepComing, FrameInv, RestInv
  <2>4. TilesManaged
    BY <2>1 DEF TilesManaged, RestInv
  <2> QED BY <2>3, <2>4 DEF NeverStalls
<1> QED BY <1>1, InvariantHolds, PTL
=============================================================================
