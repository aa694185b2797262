--------------------------- MODULE SurfaceProofs ---------------------------
(***************************************************************************)
(* Proofs about Surface, for any surfaces and any number of images, frames *)
(* and swapchains.                                                         *)
(*                                                                         *)
(* The argument.  Inside a frame its fence is signalled, and the fences of *)
(* the frames in the queue are not: so they are of the other frame, and    *)
(* there is at most one.  An image that a queued frame renders to is       *)
(* marked with the fence of that frame, for which ImageReady waits.  And   *)
(* the newest image of a surface has the semaphore before the next one in  *)
(* the ring, which leaves the next one free as long as there is at most    *)
(* one older image; an attempt that fails to acquire has none to leave.    *)
(***************************************************************************)
EXTENDS Surface, SequenceTheorems, FiniteSetTheorems, TLAPS

\* A frame in the queue
Entry == [number : Nat, frame : Frames, images : SUBSET SurfaceImage]

Types ==
    /\ pc \in {"outside", "inside", "acquired"}
    /\ frame \in Frames
    /\ fence \in [Frames -> {"signalled", "pending"}]
    /\ toPresent \in Seq(SurfaceImage)
    /\ acquired \subseteq SurfaceImage
    /\ swapchain \in [Surfaces -> Swapchains]
    /\ overtaken \subseteq SurfaceImage
    /\ nextSemaphore \in [Surfaces -> Semaphores]
    /\ imagesInFlight \in [Surfaces -> [Images -> Frames \cup {NoFence}]]
    /\ semaphore \in [Surfaces -> [Semaphores -> {"idle", "pending", "signalled"}]]
    /\ frames \in Seq(Entry)
    /\ numSubmitted \in Nat

\* What the application's thread has at each point
PhaseInv ==
    /\ pc = "outside" => toPresent = <<>>
    /\ pc # "acquired" => acquired = {}
    /\ \A a, b \in acquired : a = b
    /\ pc # "outside" => fence[frame] = "signalled"

\* The frames in the queue have different fences; the current one is the last.
QueueInv ==
    /\ \A n \in 1..Len(frames) : fence[frames[n].frame] = "pending"
    /\ \A m, n \in 1..Len(frames) : frames[m].frame = frames[n].frame => m = n
    /\ \A n \in 1..Len(frames) : frames[n].frame = frame => n = Len(frames)

\* m_imagesInFlight has the fence of the frame that an image is used in.
Mark(image) == imagesInFlight[image.surface][image.image]

MarkInv ==
    /\ \A n \in 1..Len(frames) : \A image \in frames[n].images : Mark(image) = frames[n].frame
    /\ \A j \in 1..Len(toPresent) : Mark(toPresent[j]) = frame

\* The images of the current frame, before and after EndFrame
Newest == acquired \cup Range(toPresent)
          \cup {image \in InFlight : \E n \in 1..Len(frames) : frames[n].frame = frame /\ image \in frames[n].images}

TakenLast(image) == image.imageAvailable # nextSemaphore[image.surface]

\* The newest image of a surface has the semaphore that was taken last.
RingInv ==
    /\ \A image \in Newest : TakenLast(image)
    /\ \A image \in InFlight : TakenLast(image) \/ \E newer \in Newest : newer.surface = image.surface

\* A semaphore in use is that of an image.
SemaphoreInv ==
    \A s \in Surfaces : \A k \in Semaphores :
        semaphore[s][k] # "idle" => \E image \in Pending : image.surface = s /\ image.imageAvailable = k

Inv == /\ Types /\ PhaseInv /\ QueueInv /\ MarkInv
       /\ SwapchainOutlivesItsImages /\ RingInv /\ SemaphoreInv

-----------------------------------------------------------------------------

LEMMA InFlightDef == ASSUME Types, NEW image
                     PROVE  image \in InFlight <=> \E n \in 1..Len(frames) : image \in frames[n].images
  BY DEF InFlight, Types

LEMMA RangeDef == ASSUME Types, NEW image
                  PROVE  image \in Range(toPresent) <=> \E j \in 1..Len(toPresent) : image = toPresent[j]
  BY DEF Range, Types

LEMMA EntryType == ASSUME Types, NEW n \in 1..Len(frames)
                   PROVE  frames[n].frame \in Frames /\ frames[n].images \subseteq SurfaceImage
  <1>1. frames[n] \in Entry
    BY DEF Types
  <1> QED
    BY <1>1 DEF Entry

\* Pending images are images.
LEMMA PendingType == ASSUME Types PROVE Pending \subseteq SurfaceImage
  <1>1. InFlight \subseteq SurfaceImage
    BY InFlightDef, EntryType
  <1>2. Range(toPresent) \subseteq SurfaceImage
    BY RangeDef DEF Types
  <1> QED
    BY <1>1, <1>2 DEF Types, Pending

\* There are two frames and two semaphores.
LEMMA Two == /\ Frames = {0, 1} /\ Semaphores = {0, 1}
             /\ \A k \in {0, 1} : (k + 1) % MaxFramesInFlight = 1 - k
  BY DEF Frames, Semaphores, MaxFramesInFlight

LEMMA InvInit == Init => Inv
  <1> SUFFICES ASSUME Init PROVE Inv
    OBVIOUS
  <1> USE SurfaceAssumption DEF SurfaceAssumption, Init
  <1>1. Types
    <2>1. swapchain \in [Surfaces -> Swapchains] /\ nextSemaphore \in [Surfaces -> Semaphores]
      BY Two DEF Swapchains
    <2>2. /\ imagesInFlight \in [Surfaces -> [Images -> Frames \cup {NoFence}]]
          /\ semaphore \in [Surfaces -> [Semaphores -> {"idle", "pending", "signalled"}]]
      OBVIOUS
    <2>3. frame \in Frames /\ fence \in [Frames -> {"signalled", "pending"}]
      BY Two
    <2> QED
      BY <2>1, <2>2, <2>3 DEF Types
  <1>2. InFlight = {} /\ Range(toPresent) = {}
    BY <1>1, InFlightDef, RangeDef
  <1>3. PhaseInv /\ QueueInv /\ MarkInv
    BY DEF PhaseInv, QueueInv, MarkInv
  <1>4. SwapchainOutlivesItsImages /\ RingInv /\ SemaphoreInv
    BY <1>2 DEF SwapchainOutlivesItsImages, RingInv, Newest, SemaphoreInv
  <1> QED
    BY <1>1, <1>3, <1>4 DEF Inv

\* BeginFrame waits for the fence, so the queue holds at most the frame before.
LEMMA BeginFrameKeepsInv == ASSUME Inv, BeginFrame PROVE Inv'
  <1> DEFINE next == (frame + 1) % MaxFramesInFlight
  <1>1. /\ pc = "outside" /\ pc' = "inside" /\ frame' = next /\ fence[next] = "signalled"
        /\ UNCHANGED <<fence, toPresent, acquired, swapchain, overtaken, nextSemaphore, imagesInFlight, semaphore, frames, numSubmitted>>
    BY DEF BeginFrame, surfaceVars, queueVars
  <1>2. next \in Frames /\ next # frame /\ \A f \in Frames : f = next \/ f = frame
    BY Two DEF Inv, Types
  <1> HIDE DEF next
  <1>3. Types'
    BY <1>1, <1>2 DEF Inv, Types
  <1>4. toPresent = <<>> /\ acquired = {}
    BY <1>1 DEF Inv, PhaseInv
  <1>5. \A n \in 1..Len(frames) : frames[n].frame = frame
    BY <1>1, <1>2, EntryType DEF Inv, QueueInv
  <1>6. PhaseInv'
    BY <1>1, <1>4 DEF PhaseInv
  <1>7. QueueInv'
    BY <1>1, <1>2, <1>5 DEF Inv, QueueInv
  <1>8. MarkInv'
    BY <1>1, <1>4 DEF Inv, MarkInv, Mark
  <1>9. InFlight' = InFlight /\ Pending' = Pending
    BY <1>1 DEF InFlight, Pending
  <1>10. SwapchainOutlivesItsImages' /\ SemaphoreInv'
    BY <1>1, <1>9 DEF Inv, SwapchainOutlivesItsImages, SemaphoreInv
  <1>11. RingInv'
    <2>1. Newest' = {}
      BY <1>1, <1>2, <1>3, <1>4, <1>5, RangeDef DEF Newest, Range
    <2>2. \A image \in InFlight : image \in Newest
      BY <1>5, InFlightDef DEF Inv, Newest
    <2> QED
      BY <1>1, <1>9, <2>1, <2>2 DEF Inv, RingInv, TakenLast
  <1> QED
    BY <1>3, <1>6, <1>7, <1>8, <1>10, <1>11 DEF Inv

LEMMA EndFrameKeepsInv == ASSUME Inv, EndFrame PROVE Inv'
  <1>1. /\ pc = "inside" /\ pc' = "outside"
        /\ UNCHANGED <<frame, acquired, swapchain, overtaken, nextSemaphore, imagesInFlight, semaphore>>
    BY DEF EndFrame, surfaceVars
  <1>2. CASE toPresent = <<>>
    <2>1. UNCHANGED <<fence, toPresent, frames, numSubmitted>>
      BY <1>2 DEF EndFrame
    <2>2. Types' /\ PhaseInv'
      BY <1>1, <1>2, <2>1 DEF Inv, Types, PhaseInv
    <2>3. QueueInv' /\ MarkInv'
      BY <1>1, <2>1 DEF Inv, QueueInv, MarkInv, Mark
    <2>4. InFlight' = InFlight /\ Newest' = Newest /\ Pending' = Pending
      BY <1>1, <2>1 DEF InFlight, Newest, Pending
    <2>5. SwapchainOutlivesItsImages' /\ RingInv' /\ SemaphoreInv'
      BY <1>1, <2>1, <2>4 DEF Inv, SwapchainOutlivesItsImages, RingInv, SemaphoreInv, TakenLast
    <2> QED
      BY <2>2, <2>3, <2>5 DEF Inv
  <1>3. CASE toPresent # <<>>
    <2> DEFINE e == [number |-> numSubmitted + 1, frame |-> frame, images |-> Range(toPresent)]
    <2>1. /\ toPresent' = <<>> /\ fence' = [fence EXCEPT ![frame] = "pending"]
          /\ numSubmitted' = numSubmitted + 1 /\ frames' = Append(frames, e)
      BY <1>3 DEF EndFrame
    <2>2. e \in Entry /\ e.frame = frame
          /\ e.images = Range(toPresent)
      <3>1. Range(toPresent) \subseteq SurfaceImage
        BY RangeDef DEF Inv, Types
      <3>2. numSubmitted + 1 \in Nat /\ frame \in Frames
        BY DEF Inv, Types
      <3> QED
        BY <3>1, <3>2 DEF Entry
    <2>3. acquired = {} /\ fence[frame] = "signalled"
      BY <1>1 DEF Inv, PhaseInv
    <2>4. \A n \in 1..Len(frames) : frames[n].frame # frame
      BY <2>3 DEF Inv, Types, QueueInv
    <2> HIDE DEF e
    <2>5. Types'
      BY <1>1, <2>1, <2>2 DEF Inv, Types
    <2>6. /\ Len(frames') = Len(frames) + 1 /\ Len(frames) \in Nat /\ frames'[Len(frames) + 1] = e
          /\ \A n \in 1..Len(frames) : frames'[n] = frames[n]
      BY <2>1, <2>2 DEF Inv, Types
    <2>7. PhaseInv'
      BY <1>1, <2>1, <2>3 DEF PhaseInv
    <2>8. QueueInv'
      <3>1. \A n \in 1..Len(frames) : frames[n].frame \in Frames
        BY EntryType DEF Inv
      <3>2. fence' \in [Frames -> {"signalled", "pending"}] /\ frame \in Frames /\ fence'[frame] = "pending"
            /\ \A f \in Frames : f # frame => fence'[f] = fence[f]
        BY <2>1 DEF Inv, Types
      <3> QED
        BY <1>1, <2>2, <2>4, <2>6, <3>1, <3>2 DEF Inv, QueueInv
    <2>9. MarkInv'
      <3>1. \A image \in Range(toPresent) : Mark(image) = frame
        BY RangeDef DEF Inv, MarkInv
      <3> QED
        BY <1>1, <2>1, <2>2, <2>6, <3>1 DEF Inv, MarkInv, Mark
    <2>10. InFlight' = InFlight \cup Range(toPresent)
      <3>1. \A image : image \in InFlight' <=> \E n \in 1..Len(frames') : image \in frames'[n].images
        <4>1. DOMAIN frames' = 1..Len(frames')
          BY <2>5 DEF Types
        <4> QED
          BY <4>1 DEF InFlight
      <3>2. \A image : image \in InFlight' <=> image \in InFlight \/ image \in Range(toPresent)
        BY <2>2, <2>6, <3>1, InFlightDef DEF Inv
      <3> QED
        BY <3>2
    <2>11. Range(toPresent)' = {}
      BY <2>1 DEF Range
    <2>12. Newest' = Range(toPresent) /\ Newest = Range(toPresent)
      <3>1. Newest = Range(toPresent)
        BY <2>3, <2>4 DEF Newest
      <3>2. \A image : image \in Newest' <=> image \in Range(toPresent)
        BY <1>1, <2>2, <2>3, <2>4, <2>6, <2>10, <2>11 DEF Newest
      <3> QED
        BY <3>1, <3>2
    <2>13. Pending' = Pending
      BY <1>1, <2>3, <2>10, <2>11 DEF Pending
    <2>14. SwapchainOutlivesItsImages' /\ SemaphoreInv'
      BY <1>1, <2>13 DEF Inv, SwapchainOutlivesItsImages, SemaphoreInv, Pending
    <2>15. RingInv'
      BY <1>1, <2>10, <2>12 DEF Inv, RingInv, TakenLast
    <2> QED
      BY <2>5, <2>7, <2>8, <2>9, <2>14, <2>15 DEF Inv
  <1> QED
    BY <1>2, <1>3

\* The image is the newest of its surface and has the semaphore before the next.
LEMMA AcquireKeepsInv == ASSUME Inv, NEW s \in Surfaces, NEW i \in Images, AcquireNextImage(s, i) PROVE Inv'
  <1>k. PICK k \in Semaphores : k = nextSemaphore[s]
    BY DEF Inv, Types
  <1>new. PICK new \in SurfaceImage : new = [surface |-> s, swapchain |-> swapchain[s], image |-> i, imageAvailable |-> k]
    BY <1>k DEF Inv, Types, SurfaceImage
  <1>1. /\ pc = "inside" /\ pc' = "acquired" /\ acquired' = {new} /\ acquired = {}
        /\ semaphore' = [semaphore EXCEPT ![s] = [semaphore[s] EXCEPT ![k] = "pending"]]
        /\ nextSemaphore' = [nextSemaphore EXCEPT ![s] = 1 - k]
        /\ UNCHANGED <<frame, fence, toPresent, swapchain, overtaken, imagesInFlight, frames, numSubmitted>>
    BY <1>k, <1>new, Two DEF Inv, Types, PhaseInv, AcquireNextImage, GetNextSemaphore
  <1>2. 1 - k \in Semaphores /\ k # 1 - k
    BY Two
  <1>3. new.surface = s /\ new.imageAvailable = k /\ new.swapchain = swapchain[s]
    BY <1>new
  <1>4. \A image \in Range(toPresent) : image.surface # s
    BY RangeDef DEF Inv, AcquireNextImage, NeedsImage, Types
  <1>5. Types'
    BY <1>1, <1>2, <1>3 DEF Inv, Types
  <1>6. PhaseInv' /\ QueueInv' /\ MarkInv'
    BY <1>1 DEF Inv, PhaseInv, QueueInv, MarkInv, Mark
  <1>7. InFlight' = InFlight /\ Range(toPresent)' = Range(toPresent) /\ Newest' = Newest \cup {new}
        /\ Pending' = Pending \cup {new}
    BY <1>1 DEF InFlight, Newest, Pending
  <1>8. SwapchainOutlivesItsImages'
    BY <1>1, <1>3, <1>7 DEF Inv, SwapchainOutlivesItsImages
  <1>9. \A image \in Newest : image.surface # s
    BY <1>1, <1>4 DEF Inv, PhaseInv, QueueInv, Types, Newest
  <1>10. Newest \subseteq SurfaceImage /\ InFlight \subseteq SurfaceImage
    BY PendingType DEF Inv, Newest, Pending
  <1>11. RingInv'
    <2>1. TakenLast(new)'
      BY <1>1, <1>2, <1>3, <1>5 DEF TakenLast, Inv, Types
    <2>2. \A image \in SurfaceImage : image.surface # s => TakenLast(image)' = TakenLast(image)
      BY <1>1 DEF TakenLast, Inv, Types, SurfaceImage
    <2>3. \A image \in Newest' : TakenLast(image)'
      BY <1>7, <1>9, <1>10, <2>1, <2>2 DEF Inv, RingInv
    <2>4. ASSUME NEW image \in InFlight PROVE TakenLast(image)' \/ \E newer \in Newest' : newer.surface = image.surface
      <3>1. CASE image.surface = s
        BY <1>3, <1>7, <3>1
      <3>2. CASE image.surface # s
        BY <1>7, <1>10, <2>2, <3>2 DEF Inv, RingInv
      <3> QED
        BY <3>1, <3>2
    <2> QED
      BY <1>7, <2>3, <2>4 DEF RingInv
  <1>12. SemaphoreInv'
    BY <1>1, <1>2, <1>3, <1>7 DEF Inv, Types, SemaphoreInv
  <1> QED
    BY <1>5, <1>6, <1>8, <1>11, <1>12 DEF Inv

\* A queued frame that renders to the image would have its fence pending.
LEMMA ReadyKeepsInv == ASSUME Inv, NEW image \in acquired, ImageReady(image) PROVE Inv'
  <1> DEFINE s == image.surface
             i == image.image
  <1>1. /\ s \in Surfaces /\ i \in Images /\ image \in SurfaceImage /\ acquired = {image} /\ pc = "acquired"
    BY DEF Inv, Types, PhaseInv, SurfaceImage
  <1>2. /\ imagesInFlight' = [imagesInFlight EXCEPT ![s] = [imagesInFlight[s] EXCEPT ![i] = frame]]
        /\ toPresent' = Append(toPresent, image) /\ acquired' = {} /\ pc' = "inside"
        /\ UNCHANGED <<frame, fence, swapchain, overtaken, nextSemaphore, semaphore, frames, numSubmitted>>
    BY <1>1 DEF ImageReady, queueVars
  <1>3. \A n \in 1..Len(frames) : \A other \in frames[n].images : other.surface # s \/ other.image # i
    <2> SUFFICES ASSUME NEW n \in 1..Len(frames), NEW other \in frames[n].images, other.surface = s, other.image = i
                 PROVE  FALSE
      OBVIOUS
    <2>1. Mark(other) = frames[n].frame /\ fence[frames[n].frame] = "pending" /\ frames[n].frame \in Frames
      BY EntryType DEF Inv, MarkInv, QueueInv
    <2>2. Mark(other) # NoFence
      BY <2>1, Two DEF NoFence
    <2> QED
      BY <2>1, <2>2 DEF ImageReady, ImageFenceSignalled, Mark
  <1> HIDE DEF s, i
  <1>4. s = image.surface /\ i = image.image
    BY DEF s, i
  <1>append. /\ Len(toPresent') = Len(toPresent) + 1 /\ toPresent'[Len(toPresent) + 1] = image
             /\ Len(toPresent) \in Nat /\ \A j \in 1..Len(toPresent) : toPresent'[j] = toPresent[j]
    BY <1>1, <1>2 DEF Inv, Types
  <1>5. Types'
    <2>1. imagesInFlight' \in [Surfaces -> [Images -> Frames \cup {NoFence}]]
      BY <1>1, <1>2 DEF Inv, Types
    <2> QED
      BY <1>1, <1>2, <2>1 DEF Inv, Types
  <1>6. PhaseInv' /\ QueueInv'
    BY <1>1, <1>2 DEF Inv, PhaseInv, QueueInv
  <1>7. MarkInv'
    <2>1. \A n \in 1..Len(frames) : frames[n].images \subseteq SurfaceImage
      BY EntryType DEF Inv
    <2>2. \A other \in SurfaceImage : Mark(other)' =
              IF other.surface = s /\ other.image = i THEN frame ELSE Mark(other)
      BY <1>1, <1>2 DEF Mark, Inv, Types, SurfaceImage
    <2>3. ASSUME NEW n \in 1..Len(frames), NEW other \in frames[n].images PROVE Mark(other)' = frames[n].frame
      BY <1>3, <2>1, <2>2 DEF Inv, MarkInv
    <2>4. ASSUME NEW j \in 1..Len(toPresent'), NEW x \in SurfaceImage, x = toPresent'[j] PROVE Mark(x)' = frame
      <3>1. CASE j = Len(toPresent) + 1
        BY <1>1, <1>4, <1>append, <2>2, <2>4, <3>1
      <3>2. CASE j \in 1..Len(toPresent)
        BY <1>append, <2>2, <2>4, <3>2 DEF Inv, MarkInv
      <3> QED
        BY <1>append, <3>1, <3>2
    <2>5. \A j \in 1..Len(toPresent') : toPresent'[j] \in SurfaceImage
      BY <1>5 DEF Types
    <2>6. \A j \in 1..Len(toPresent') : imagesInFlight'[toPresent'[j].surface][toPresent'[j].image] = frame
      BY <2>4, <2>5 DEF Mark
    <2>7. \A n \in 1..Len(frames) : \A other \in frames[n].images :
             imagesInFlight'[other.surface][other.image] = frames[n].frame
      BY <2>3 DEF Mark
    <2> QED
      BY <1>2, <2>6, <2>7 DEF MarkInv, Mark
  <1>8. InFlight' = InFlight /\ acquired' \cup Range(toPresent)' = acquired \cup Range(toPresent)
    <2>1. \A x : x \in Range(toPresent)' <=> x \in Range(toPresent) \/ x = image
      <3>1. \A x : x \in Range(toPresent)' <=> \E j \in 1..Len(toPresent') : x = toPresent'[j]
        <4>1. toPresent' \in Seq(SurfaceImage)
          BY <1>5 DEF Types
        <4> QED
          BY <4>1 DEF Range
      <3> QED
        BY <1>append, <3>1, RangeDef DEF Inv
    <2> QED
      BY <1>1, <1>2, <2>1 DEF InFlight
  <1>9. Newest' = Newest /\ Pending' = Pending
    BY <1>2, <1>8 DEF Newest, Pending
  <1>10. SwapchainOutlivesItsImages' /\ RingInv' /\ SemaphoreInv'
    BY <1>2, <1>8, <1>9 DEF Inv, SwapchainOutlivesItsImages, RingInv, TakenLast, SemaphoreInv
  <1> QED
    BY <1>5, <1>6, <1>7, <1>10 DEF Inv

\* The swapchain of a surface is recreated when none of its images is in use,
\* but for those that OnResize overtakes.
LEMMA RecreateKeepsInv == ASSUME Inv, NEW s \in Surfaces, AcquireOutOfDate(s) \/ OnResize(s) PROVE Inv'
  <1>1. /\ frames = <<>> /\ swapchain' = [swapchain EXCEPT ![s] = @ + 1] /\ swapchain[s] < MaxRecreations
        /\ UNCHANGED <<pc, frame, fence, toPresent, acquired, imagesInFlight, semaphore, frames, numSubmitted>>
    BY DEF AcquireOutOfDate, OnResize, RecreateSwapchain, DeviceIdle, CreateSwapchainAndImages, rendererVars, queueVars
  <1>2. InFlight = {} /\ acquired = {} /\ Pending = Range(toPresent) /\ Newest = Range(toPresent)
    <2>1. InFlight = {}
      BY <1>1, InFlightDef DEF Inv
    <2>2. acquired = {}
      BY DEF Inv, PhaseInv, AcquireOutOfDate, OnResize
    <2> QED
      BY <2>1, <2>2 DEF Pending, Newest
  <1>3. Range(toPresent) \subseteq SurfaceImage
    BY <1>2, PendingType DEF Inv
  <1>4. InFlight' = InFlight /\ Newest' = Newest /\ Pending' = Pending
    BY <1>1 DEF InFlight, Newest, Pending
  <1>5. /\ overtaken' \subseteq SurfaceImage /\ nextSemaphore' \in [Surfaces -> Semaphores]
        /\ overtaken \subseteq overtaken'
        /\ \A image \in Range(toPresent) : image.surface = s => image \in overtaken'
        /\ \A image \in Range(toPresent) : TakenLast(image)' = TakenLast(image)
    <2>1. CASE AcquireOutOfDate(s)
      <3>1. overtaken' = overtaken /\ \A image \in Range(toPresent) : image.surface # s
        BY <2>1, RangeDef DEF Inv, Types, AcquireOutOfDate, NeedsImage
      <3>2. \E k \in Semaphores : nextSemaphore' = [nextSemaphore EXCEPT ![s] = k]
        <4>1. PICK k \in Semaphores : k = nextSemaphore[s]
          BY DEF Inv, Types
        <4>2. (k + 1) % MaxFramesInFlight \in Semaphores
          BY Two
        <4> QED
          BY <2>1, <4>1, <4>2 DEF AcquireOutOfDate, GetNextSemaphore
      <3> QED
        BY <1>3, <3>1, <3>2 DEF Inv, Types, TakenLast, SurfaceImage
    <2>2. CASE OnResize(s)
      BY <1>3, <2>2 DEF OnResize, Inv, Types, TakenLast
    <2> QED
      BY <2>1, <2>2
  <1>6. Types'
    <2>1. swapchain' \in [Surfaces -> Swapchains]
      BY <1>1, SurfaceAssumption DEF SurfaceAssumption, Inv, Types, Swapchains
    <2> QED
      BY <1>1, <1>5, <2>1 DEF Inv, Types
  <1>7. PhaseInv' /\ QueueInv' /\ MarkInv'
    BY <1>1 DEF Inv, PhaseInv, QueueInv, MarkInv, Mark
  <1>8. SwapchainOutlivesItsImages'
    <2>1. ASSUME NEW image \in Range(toPresent)
          PROVE  image \in overtaken' \/ image.swapchain = swapchain'[image.surface]
      <3>1. CASE image.surface = s
        BY <1>5, <2>1, <3>1
      <3>2. CASE image.surface # s
        <4>1. swapchain'[image.surface] = swapchain[image.surface]
          BY <1>1, <1>3, <3>2 DEF Inv, Types, SurfaceImage
        <4> QED
          BY <1>5, <4>1 DEF Inv, SwapchainOutlivesItsImages
      <3> QED
        BY <3>1, <3>2
    <2> QED
      BY <1>2, <1>4, <2>1 DEF SwapchainOutlivesItsImages, Pending
  <1>9. RingInv' /\ SemaphoreInv'
    BY <1>1, <1>2, <1>4, <1>5 DEF Inv, RingInv, SemaphoreInv
  <1> QED
    BY <1>6, <1>7, <1>8, <1>9 DEF Inv

LEMMA SignalKeepsInv == ASSUME Inv, NEW image \in Pending, SignalImageAvailable(image) PROVE Inv'
  <1> DEFINE s == image.surface
             k == image.imageAvailable
  <1>1. s \in Surfaces /\ k \in Semaphores
    BY PendingType DEF Inv, SurfaceImage
  <1>2. /\ semaphore' = [semaphore EXCEPT ![s] = [semaphore[s] EXCEPT ![k] = "signalled"]]
        /\ UNCHANGED <<pc, frame, fence, toPresent, acquired, swapchain, overtaken, nextSemaphore, imagesInFlight, frames, numSubmitted>>
    BY DEF SignalImageAvailable, rendererVars, surfaceVars
  <1> HIDE DEF s, k
  <1>3. Types'
    BY <1>1, <1>2 DEF Inv, Types
  <1>4. PhaseInv' /\ QueueInv' /\ MarkInv'
    BY <1>2 DEF Inv, PhaseInv, QueueInv, MarkInv, Mark
  <1>5. InFlight' = InFlight /\ Newest' = Newest /\ Pending' = Pending
    BY <1>2 DEF InFlight, Newest, Pending
  <1>6. SwapchainOutlivesItsImages' /\ RingInv'
    BY <1>2, <1>5 DEF Inv, SwapchainOutlivesItsImages, RingInv, TakenLast
  <1>7. SemaphoreInv'
    <2>1. image.surface = s /\ image.imageAvailable = k
      BY DEF s, k
    <2> QED
      BY <1>1, <1>2, <1>5, <2>1 DEF Inv, Types, SemaphoreInv
  <1> QED
    BY <1>3, <1>4, <1>6, <1>7 DEF Inv

\* The oldest frame leaves the queue; its semaphores are idle again.
LEMMA ExecuteKeepsInv == ASSUME Inv, ExecuteFrame PROVE Inv'
  <1> DEFINE e == Head(frames)
             Used(s, k) == \E image \in e.images : image.surface = s /\ image.imageAvailable = k
  <1>1. /\ frames # <<>> /\ frames' = Tail(frames) /\ fence' = [fence EXCEPT ![e.frame] = "signalled"]
        /\ semaphore' = [s \in Surfaces |-> [k \in Semaphores |-> IF Used(s, k) THEN "idle" ELSE semaphore[s][k]]]
        /\ UNCHANGED <<pc, frame, toPresent, acquired, swapchain, overtaken, nextSemaphore, imagesInFlight, numSubmitted>>
    BY DEF ExecuteFrame, surfaceVars
  <1>2. e = frames[1] /\ 1 \in 1..Len(frames) /\ e.frame \in Frames
    <2>1. e = frames[1] /\ 1 \in 1..Len(frames)
      BY <1>1 DEF Inv, Types
    <2> QED
      BY <2>1, EntryType DEF Inv
  <1>3. Len(frames') = Len(frames) - 1 /\ \A n \in 1..Len(frames') : frames'[n] = frames[n + 1] /\ n + 1 \in 1..Len(frames)
    BY <1>1 DEF Inv, Types
  <1> HIDE DEF e, Used
  <1>4. Types'
    <2>1. semaphore' \in [Surfaces -> [Semaphores -> {"idle", "pending", "signalled"}]]
      BY <1>1 DEF Inv, Types
    <2>2. frames' \in Seq(Entry)
      BY <1>1 DEF Inv, Types
    <2>3. fence' \in [Frames -> {"signalled", "pending"}]
      BY <1>1, <1>2 DEF Inv, Types
    <2> QED
      BY <1>1, <2>1, <2>2, <2>3 DEF Inv, Types
  <1>5. PhaseInv'
    BY <1>1, <1>2 DEF Inv, Types, PhaseInv
  <1>6. QueueInv'
    <2>1. ASSUME NEW n \in 1..Len(frames') PROVE fence'[frames'[n].frame] = "pending"
      <3>1. frames[n + 1].frame # e.frame /\ frames[n + 1].frame \in Frames
        BY <1>2, <1>3, EntryType DEF Inv, QueueInv
      <3> QED
        BY <1>1, <1>3, <3>1 DEF Inv, Types, QueueInv
    <2>2. ASSUME NEW m \in 1..Len(frames'), NEW n \in 1..Len(frames'), frames'[m].frame = frames'[n].frame PROVE m = n
      <3>1. m + 1 = n + 1
        BY <1>3, <2>2 DEF Inv, QueueInv
      <3> QED
        BY <3>1
    <2>3. ASSUME NEW n \in 1..Len(frames'), frames'[n].frame = frame PROVE n = Len(frames')
      <3>1. n + 1 = Len(frames)
        BY <1>3, <2>3 DEF Inv, QueueInv
      <3> QED
        BY <1>3, <3>1
    <2> QED
      BY <1>1, <2>1, <2>2, <2>3 DEF QueueInv
  <1>7. MarkInv'
    BY <1>1, <1>3 DEF Inv, MarkInv, Mark
  <1>8. InFlight' \subseteq InFlight /\ InFlight \subseteq InFlight' \cup e.images
    <2>1. \A image : image \in InFlight' <=> \E n \in 1..Len(frames') : image \in frames'[n].images
      <3>1. DOMAIN frames' = 1..Len(frames')
        BY <1>4 DEF Types
      <3> QED
        BY <3>1 DEF InFlight
    <2>2. \A image : image \in InFlight <=> \E n \in 1..Len(frames) : image \in frames[n].images
      BY InFlightDef DEF Inv
    <2>3. \A n \in 1..Len(frames) : n = 1 \/ (n - 1 \in 1..Len(frames') /\ frames'[n - 1] = frames[n])
      BY <1>3 DEF Inv, Types
    <2> QED
      BY <1>2, <1>3, <2>1, <2>2, <2>3
  <1>9. Range(toPresent)' = Range(toPresent)
    BY <1>1
  <1>10. SwapchainOutlivesItsImages'
    BY <1>1, <1>8, <1>9 DEF Inv, SwapchainOutlivesItsImages
  <1>11. RingInv'
    <2>1. ASSUME NEW image \in Newest' PROVE image \in Newest
      <3>1. CASE image \in acquired' \cup Range(toPresent)'
        BY <1>1, <1>9, <3>1 DEF Newest
      <3>2. CASE image \in InFlight' /\ \E n \in 1..Len(frames') : frames'[n].frame = frame' /\ image \in frames'[n].images
        BY <1>1, <1>3, <1>8, <3>2 DEF Newest
      <3> QED
        BY <2>1, <3>1, <3>2 DEF Newest
    <2>2. ASSUME NEW image \in InFlight', NEW newer \in Newest, newer.surface = image.surface
          PROVE  newer \in Newest' \/ TakenLast(image)
      <3>1. CASE newer \in acquired \cup Range(toPresent)
        BY <1>1, <1>9, <3>1 DEF Newest
      <3>2. CASE \E n \in 1..Len(frames) : frames[n].frame = frame /\ newer \in frames[n].images
        <4>1. PICK n \in 1..Len(frames) : frames[n].frame = frame /\ newer \in frames[n].images
          BY <3>2
        <4>2. n = Len(frames) /\ Len(frames) \in Nat
          BY <4>1 DEF Inv, Types, QueueInv
        <4>3. Len(frames') >= 1
          <5>1. \E m \in 1..Len(frames') : TRUE
            BY <1>4, <2>2 DEF InFlight, Types
          <5> QED
            BY <1>3, <4>2, <5>1
        <4>4. n - 1 \in 1..Len(frames') /\ frames'[n - 1] = frames[n]
          BY <1>3, <4>2, <4>3
        <4>5. newer \in InFlight'
          BY <1>4, <4>1, <4>4 DEF InFlight, Types
        <4> QED
          BY <1>1, <4>1, <4>4, <4>5 DEF Newest
      <3> QED
        BY <2>2, <3>1, <3>2 DEF Newest
    <2>3. \A image : TakenLast(image)' = TakenLast(image)
      BY <1>1 DEF TakenLast
    <2>4. \A image \in Newest' : TakenLast(image)'
      BY <2>1, <2>3 DEF Inv, RingInv
    <2>5. ASSUME NEW image \in InFlight' PROVE TakenLast(image)' \/ \E newer \in Newest' : newer.surface = image.surface
      <3>1. TakenLast(image) \/ \E newer \in Newest : newer.surface = image.surface
        BY <1>8 DEF Inv, RingInv
      <3> QED
        BY <2>2, <2>3, <3>1
    <2> QED
      BY <2>4, <2>5 DEF RingInv
  <1>12. SemaphoreInv'
    <2> SUFFICES ASSUME NEW s \in Surfaces, NEW k \in Semaphores, semaphore'[s][k] # "idle"
                 PROVE  \E image \in Pending' : image.surface = s /\ image.imageAvailable = k
      BY DEF SemaphoreInv
    <2>1. ~Used(s, k) /\ semaphore[s][k] # "idle"
      BY <1>1
    <2>2. PICK image \in Pending : image.surface = s /\ image.imageAvailable = k
      BY <2>1 DEF Inv, SemaphoreInv
    <2>3. image \notin e.images
      BY <2>1, <2>2 DEF Used
    <2>4. image \in Pending'
      BY <1>1, <1>8, <1>9, <2>2, <2>3 DEF Pending
    <2> QED
      BY <2>2, <2>4
  <1> QED
    BY <1>4, <1>5, <1>6, <1>7, <1>10, <1>11, <1>12 DEF Inv

LEMMA UnchangedKeepsInv ==
    ASSUME Inv, UNCHANGED <<pc, frame, fence, toPresent, acquired, swapchain, overtaken, nextSemaphore, imagesInFlight,
                            semaphore, frames, numSubmitted>>
    PROVE  Inv'
  <1>1. Types' /\ PhaseInv' /\ QueueInv' /\ MarkInv'
    BY DEF Inv, Types, PhaseInv, QueueInv, MarkInv, Mark
  <1>2. InFlight' = InFlight /\ Newest' = Newest /\ Pending' = Pending
    BY DEF InFlight, Newest, Pending
  <1>3. SwapchainOutlivesItsImages' /\ RingInv' /\ SemaphoreInv'
    BY <1>2 DEF Inv, SwapchainOutlivesItsImages, RingInv, TakenLast, SemaphoreInv
  <1> QED
    BY <1>1, <1>3 DEF Inv

LEMMA InvNext == Inv /\ [Next]_vars => Inv'
  <1> SUFFICES ASSUME Inv, [Next]_vars PROVE Inv'
    OBVIOUS
  <1>1. CASE BeginFrame \/ EndFrame
    BY <1>1, BeginFrameKeepsInv, EndFrameKeepsInv
  <1>2. CASE \E s \in Surfaces : \E i \in Images : AcquireNextImage(s, i)
    BY <1>2, AcquireKeepsInv
  <1>3. CASE \E s \in Surfaces : AcquireOutOfDate(s) \/ OnResize(s)
    BY <1>3, RecreateKeepsInv
  <1>4. CASE \E image \in acquired : ImageReady(image)
    BY <1>4, ReadyKeepsInv
  <1>5. CASE \E image \in Pending : SignalImageAvailable(image)
    BY <1>5, SignalKeepsInv
  <1>6. CASE ExecuteFrame
    BY <1>6, ExecuteKeepsInv
  <1>7. CASE Present \/ UNCHANGED vars
    BY <1>7, UnchangedKeepsInv DEF Present, vars, rendererVars, surfaceVars, queueVars
  <1> QED
    BY <1>1, <1>2, <1>3, <1>4, <1>5, <1>6, <1>7 DEF Next, Terminated

LEMMA Invariance == Spec => []Inv
  BY InvInit, InvNext, PTL DEF Spec

\* GetNextSemaphore, for any surfaces, images and swapchains: the ring of
\* MaxFramesInFlight semaphores is long enough, although attempts that fail use
\* it up as well: the semaphore of the next acquisition is idle.
THEOREM RingIsLongEnough == Spec => []AcquireSemaphoreIdle
  <1>1. Inv => AcquireSemaphoreIdle
    <2> SUFFICES ASSUME Inv, NEW s \in Surfaces, pc = "inside", NeedsImage(s), semaphore[s][nextSemaphore[s]] # "idle"
                 PROVE  FALSE
      BY DEF AcquireSemaphoreIdle
    <2>1. PICK image \in Pending : image.surface = s /\ image.imageAvailable = nextSemaphore[s]
      BY DEF Inv, Types, SemaphoreInv
    <2>2. \A newer \in Newest : newer.surface # s
      <3>1. \A newer \in Range(toPresent) : newer.surface # s
        BY RangeDef DEF Inv, Types, NeedsImage
      <3> QED
        BY <3>1 DEF Inv, Newest, PhaseInv, QueueInv
    <2>3. image \in InFlight
      BY <2>1, <2>2 DEF Pending, Newest
    <2> QED
      BY <2>1, <2>2, <2>3 DEF Inv, RingInv, TakenLast
  <1> QED
    BY <1>1, Invariance, PTL

\* m_imagesInFlight, for any surfaces, images and swapchains: an image that is to
\* be presented is not one that a frame in the queue still renders to.
THEOREM OneFramePerImage == Spec => []ImageInOneFrame
  <1>1. Inv => ImageInOneFrame
    <2> SUFFICES ASSUME Inv, NEW j \in DOMAIN toPresent, NEW other \in InFlight,
                        toPresent[j].surface = other.surface, toPresent[j].image = other.image
                 PROVE  FALSE
      BY DEF ImageInOneFrame
    <2>1. j \in 1..Len(toPresent) /\ pc # "outside"
      BY DEF Inv, Types, PhaseInv
    <2>2. PICK n \in 1..Len(frames) : other \in frames[n].images
      BY InFlightDef DEF Inv
    <2>3. Mark(other) = frame /\ Mark(other) = frames[n].frame
      BY <2>1, <2>2 DEF Inv, MarkInv, Mark
    <2> QED
      BY <2>1, <2>3 DEF Inv, PhaseInv, QueueInv
  <1> QED
    BY <1>1, Invariance, PTL

\* RecreateSwapchain, for any surfaces, images and swapchains: an image that is
\* acquired, to be presented or in the queue is of its surface's swapchain,
\* unless the application called OnResize while the image was to be presented.
THEOREM SwapchainLives == Spec => []SwapchainOutlivesItsImages
  <1>1. Inv => SwapchainOutlivesItsImages
    BY DEF Inv
  <1> QED
    BY <1>1, Invariance, PTL

-----------------------------------------------------------------------------
(* The bounds of the type invariant.  A frame is numbered when it is       *)
(* submitted, inside a call of BeginFrame that counts for it; what the     *)
(* queues hold has the number of a frame that was submitted.               *)

FrameOf(n) == [number : 1..n, frame : Frames, images : SUBSET SurfaceImage]
PresentOf(n) == [number : 1..n, surface : Surfaces, swapchain : Swapchains, image : Images]

NumberInv ==
    /\ numFrames \in 0..MaxFrames
    /\ numSubmitted \in 0..numFrames
    /\ pc # "outside" => numSubmitted < numFrames
    /\ pc = "acquired" => Cardinality(acquired) = 1
    /\ frames \in Seq(FrameOf(numSubmitted))
    /\ presents \in Seq(PresentOf(numSubmitted))
    /\ finished \subseteq 1..numSubmitted

LEMMA SeqGrows == ASSUME NEW S, NEW T, S \subseteq T PROVE Seq(S) \subseteq Seq(T)
  OBVIOUS

LEMMA NumberInit == Init => NumberInv
  BY SurfaceAssumption DEF SurfaceAssumption, Init, NumberInv

LEMMA NumberBegin == ASSUME NumberInv, BeginFrame PROVE NumberInv'
  <1>1. /\ pc = "outside" /\ pc' = "inside" /\ numFrames < MaxFrames /\ numFrames' = numFrames + 1
        /\ UNCHANGED <<frames, presents, finished, numSubmitted>>
    BY DEF BeginFrame, queueVars
  <1> QED
    BY <1>1, SurfaceAssumption DEF NumberInv, SurfaceAssumption

LEMMA NumberEnd == ASSUME Inv, NumberInv, EndFrame PROVE NumberInv'
  <1>1. /\ pc = "inside" /\ pc' = "outside" /\ UNCHANGED <<numFrames, finished>>
    BY DEF EndFrame
  <1>2. CASE toPresent = <<>>
    <2>1. UNCHANGED <<frames, presents, numSubmitted>>
      BY <1>2 DEF EndFrame
    <2> QED
      BY <1>1, <2>1 DEF NumberInv
  <1>3. CASE toPresent # <<>>
    <2> DEFINE number == numSubmitted + 1
               added == [i \in DOMAIN toPresent |-> PresentImage(toPresent[i])]
               entry == [number |-> number, frame |-> frame, images |-> Range(toPresent)]
    <2>1. numSubmitted' = number /\ frames' = Append(frames, entry) /\ presents' = presents \o added
      BY <1>3 DEF EndFrame
    <2>2. number \in 1..number /\ 1..numSubmitted \subseteq 1..number /\ number <= numFrames /\ number \in Nat
      BY <1>1, SurfaceAssumption DEF NumberInv, SurfaceAssumption
    <2>3. entry \in FrameOf(number)
      <3>1. Range(toPresent) \in SUBSET SurfaceImage /\ frame \in Frames
        BY RangeDef DEF Inv, Types
      <3> HIDE DEF number
      <3> QED
        BY <2>2, <3>1 DEF FrameOf
    <2>4. added \in Seq(PresentOf(number))
      <3>1. toPresent \in Seq(SurfaceImage) /\ swapchain \in [Surfaces -> Swapchains]
        BY DEF Inv, Types
      <3>2. ASSUME NEW i \in 1..Len(toPresent) PROVE PresentImage(toPresent[i]) \in PresentOf(number)
        <4>1. toPresent[i] \in SurfaceImage
          BY <3>1
        <4>2. toPresent[i].surface \in Surfaces /\ toPresent[i].image \in Images
          BY <4>1 DEF SurfaceImage
        <4> QED
          BY <2>2, <3>1, <4>2 DEF PresentImage, PresentOf
      <3>3. added \in [1..Len(toPresent) -> PresentOf(number)]
        BY <3>1, <3>2
      <3> HIDE DEF added
      <3> QED
        BY <3>1, <3>3
    <2>5. FrameOf(numSubmitted) \subseteq FrameOf(number) /\ PresentOf(numSubmitted) \subseteq PresentOf(number)
      BY <2>2 DEF FrameOf, PresentOf
    <2> HIDE DEF number, added, entry
    <2>6. frames \in Seq(FrameOf(number)) /\ presents \in Seq(PresentOf(number))
      BY <2>5, SeqGrows DEF NumberInv
    <2>7. frames' \in Seq(FrameOf(number)) /\ presents' \in Seq(PresentOf(number))
      BY <2>1, <2>3, <2>4, <2>6, AppendProperties, ConcatProperties
    <2>8. /\ frames' \in Seq(FrameOf(numSubmitted')) /\ presents' \in Seq(PresentOf(numSubmitted'))
          /\ finished' \subseteq 1..numSubmitted'
      BY <1>1, <2>1, <2>2, <2>7 DEF NumberInv
    <2>9. numFrames' \in 0..MaxFrames /\ numSubmitted' \in 0..numFrames' /\ pc' = "outside"
      BY <1>1, <2>1, <2>2 DEF NumberInv
    <2> QED
      BY <2>8, <2>9 DEF NumberInv
  <1> QED
    BY <1>2, <1>3

LEMMA NumberExecute == ASSUME NumberInv, ExecuteFrame PROVE NumberInv'
  <1>1. /\ frames # <<>> /\ frames' = Tail(frames) /\ finished' = finished \cup {Head(frames).number}
        /\ UNCHANGED <<pc, numFrames, numSubmitted, acquired, presents>>
    BY DEF ExecuteFrame
  <1>2. Head(frames) \in FrameOf(numSubmitted) /\ Tail(frames) \in Seq(FrameOf(numSubmitted))
    BY <1>1, HeadTailProperties DEF NumberInv
  <1>3. Head(frames).number \in 1..numSubmitted
    BY <1>2 DEF FrameOf
  <1> QED
    BY <1>1, <1>2, <1>3 DEF NumberInv

LEMMA NumberPresent == ASSUME NumberInv, Present PROVE NumberInv'
  <1>1. /\ presents # <<>> /\ presents' = Tail(presents) /\ finished' \subseteq finished
        /\ UNCHANGED <<pc, numFrames, numSubmitted, acquired, frames>>
    BY DEF Present, rendererVars
  <1>2. Tail(presents) \in Seq(PresentOf(numSubmitted))
    BY <1>1, HeadTailProperties DEF NumberInv
  <1> QED
    BY <1>1, <1>2 DEF NumberInv

LEMMA NumberNext == Inv /\ NumberInv /\ [Next]_vars => NumberInv'
  <1> SUFFICES ASSUME Inv, NumberInv, [Next]_vars PROVE NumberInv'
    OBVIOUS
  <1>1. CASE \E s \in Surfaces, i \in Images : AcquireNextImage(s, i)
    <2>1. PICK image : acquired' = {image}
      BY <1>1 DEF AcquireNextImage
    <2>2. /\ pc = "inside" /\ pc' = "acquired"
          /\ UNCHANGED <<numFrames, frames, numSubmitted, finished, presents>>
      BY <1>1 DEF AcquireNextImage
    <2>3. Cardinality(acquired') = 1
      BY <2>1, FS_Singleton
    <2> QED
      BY <2>2, <2>3 DEF NumberInv
  <1>2. CASE \E image \in acquired : ImageReady(image)
    <2>1. /\ pc' = "inside" /\ pc = "acquired"
          /\ UNCHANGED <<numFrames, frames, numSubmitted, finished, presents>>
      BY <1>2 DEF ImageReady, queueVars, Inv, PhaseInv
    <2> QED
      BY <2>1 DEF NumberInv
  <1>3. CASE \/ \E s \in Surfaces : AcquireOutOfDate(s) \/ OnResize(s)
             \/ \E image \in Pending : SignalImageAvailable(image)
             \/ Terminated \/ UNCHANGED vars
    <2>1. UNCHANGED <<pc, numFrames, acquired, frames, numSubmitted, finished, presents>>
      BY <1>3 DEF AcquireOutOfDate, OnResize, SignalImageAvailable, Terminated, vars, rendererVars, queueVars
    <2> QED
      BY <2>1 DEF NumberInv
  <1> QED
    BY <1>1, <1>2, <1>3, NumberBegin, NumberEnd, NumberExecute, NumberPresent DEF Next

\* BeginFrame, EndFrame, AcquireNextImage and the queues, for any surfaces,
\* images and swapchains: the application holds one image at a time, and all
\* that is executed, signalled and presented is of a frame that was submitted.
THEOREM TypeCorrect == Spec => []TypeOK
  <1>1. Inv /\ NumberInv => TypeOK
    <2> SUFFICES ASSUME Inv, NumberInv PROVE TypeOK
      OBVIOUS
    <2>1. Cardinality(acquired) = IF pc = "acquired" THEN 1 ELSE 0
      BY FS_EmptySet DEF Inv, PhaseInv, NumberInv
    <2>2. frames \in Seq([number : 1..MaxFrames, frame : Frames, images : SUBSET SurfaceImage])
      <3>1. FrameOf(numSubmitted) \subseteq FrameOf(MaxFrames)
        BY SurfaceAssumption DEF NumberInv, FrameOf, SurfaceAssumption
      <3>2. frames \in Seq(FrameOf(MaxFrames))
        BY <3>1, SeqGrows DEF NumberInv
      <3> QED
        BY <3>2 DEF FrameOf
    <2>3. presents \in Seq([number : 1..numSubmitted, surface : Surfaces, swapchain : Swapchains, image : Images])
      BY DEF NumberInv, PresentOf
    <2> QED
      BY <2>1, <2>2, <2>3 DEF Inv, Types, NumberInv, TypeOK
  <1> QED
    BY <1>1, NumberInit, NumberNext, Invariance, PTL DEF Spec

=============================================================================
