------------------------------- MODULE Surface -------------------------------
(***************************************************************************)
(* Teide::VulkanSurface (VulkanSurface.cpp) under the frame loop of        *)
(* VulkanRenderer: acquiring images with semaphores from a ring, keeping   *)
(* two frames off one image, presenting, and recreating the swapchain.     *)
(*                                                                         *)
(* One application thread calls the renderer and the surface. The graphics *)
(* queue executes the submissions of EndFrame in order, each when its      *)
(* imageAvailable semaphores are signalled; the command buffers that       *)
(* render to the images are in the queue before it. The presentation       *)
(* engine is external: it may name an image as the next one while that     *)
(* image is still to be presented, and then signals the semaphore after.   *)
(*                                                                         *)
(* The thread may call OnResize between any two other calls, also between  *)
(* RenderToSurface and EndFrame. What then becomes of the image that is to *)
(* be presented is not defined: its present counts as one that ends.       *)
(*                                                                         *)
(* The branch of AcquireNextImage that logs and returns no image is left   *)
(* out: without a timeout, no result but success, suboptimal or out of     *)
(* date is returned, and errors are thrown. So is m_lastPresentedImage,    *)
(* which only a test reads.                                                *)
(***************************************************************************)
EXTENDS Integers, Sequences, FiniteSets, SequencesExt

CONSTANTS
    Surfaces,           \* the surfaces the application renders to
    NumImages,          \* m_swapchainImages.size()
    MaxFrames,          \* bound on the number of calls of BeginFrame
    MaxRecreations      \* bound on the swapchains recreated for each surface

ASSUME SurfaceAssumption ==
    /\ NumImages \in Nat \ {0}
    /\ MaxFrames \in Nat
    /\ MaxRecreations \in Nat

MaxFramesInFlight == 2
Frames == 0 .. MaxFramesInFlight - 1
Images == 1..NumImages
Swapchains == 0..MaxRecreations
Semaphores == 0 .. MaxFramesInFlight - 1
NoFence == -1

\* A SurfaceImage. Swapchains are numbered; the framebuffer is that of the image.
SurfaceImage == [surface : Surfaces, swapchain : Swapchains, image : Images,
                 imageAvailable : Semaphores]

VARIABLES
    pc,                 \* where the application's thread is
    frame,              \* m_frameResources: index of the current frame
    numFrames,          \* number of calls of BeginFrame
    fence,              \* inFlightFence of each frame
    toPresent,          \* m_surfacesToPresent
    acquired,           \* AcquireNextImage: the image it got, before it returns
    swapchain,          \* m_swapchain of each surface
    overtaken,          \* history: the images that OnResize found in m_surfacesToPresent
    nextSemaphore,      \* m_nextSemaphoreIndex of each surface
    imagesInFlight,     \* m_imagesInFlight: a frame's fence for each image
    semaphore,          \* state of each surface's m_imageAvailable
    frames,             \* graphics queue: the frames to execute, in order
    numSubmitted,       \* number of frames submitted by EndFrame
    finished,           \* the frames whose renderFinished is signalled
    presents            \* present queue: what is to be presented, in order

rendererVars == <<pc, frame, numFrames, fence, toPresent, acquired>>
surfaceVars == <<swapchain, overtaken, nextSemaphore, imagesInFlight>>
queueVars == <<semaphore, frames, numSubmitted, finished, presents>>
vars == <<rendererVars, surfaceVars, queueVars>>

TypeOK ==
    /\ pc \in {"outside", "inside", "acquired"}
    /\ frame \in Frames
    /\ numFrames \in 0..MaxFrames
    /\ fence \in [Frames -> {"signalled", "pending"}]
    /\ toPresent \in Seq(SurfaceImage)
    /\ acquired \subseteq SurfaceImage
    /\ Cardinality(acquired) = IF pc = "acquired" THEN 1 ELSE 0
    /\ swapchain \in [Surfaces -> Swapchains]
    /\ overtaken \subseteq SurfaceImage
    /\ nextSemaphore \in [Surfaces -> Semaphores]
    /\ imagesInFlight \in [Surfaces -> [Images -> Frames \cup {NoFence}]]
    /\ semaphore \in [Surfaces -> [Semaphores -> {"idle", "pending", "signalled"}]]
    /\ frames \in Seq([number : 1..MaxFrames, frame : Frames, images : SUBSET SurfaceImage])
    /\ numSubmitted \in 0..numFrames
    /\ finished \subseteq 1..numSubmitted
    /\ presents \in Seq([number : 1..numSubmitted, surface : Surfaces,
                         swapchain : Swapchains, image : Images])

Init ==
    /\ pc = "outside"
    /\ frame = 0
    /\ numFrames = 0
    /\ fence = [f \in Frames |-> "signalled"]
    /\ toPresent = <<>>
    /\ acquired = {}
    /\ swapchain = [s \in Surfaces |-> 0]
    /\ overtaken = {}
    /\ nextSemaphore = [s \in Surfaces |-> 0]
    /\ imagesInFlight = [s \in Surfaces |-> [i \in Images |-> NoFence]]
    /\ semaphore = [s \in Surfaces |-> [k \in Semaphores |-> "idle"]]
    /\ frames = <<>>
    /\ numSubmitted = 0
    /\ finished = {}
    /\ presents = <<>>

------------------------------------------------------------------------------
(* The renderer *)

\* NextFrame, and the wait for the frame's fence.
BeginFrame ==
    /\ pc = "outside"
    /\ numFrames < MaxFrames
    /\ LET next == (frame + 1) % MaxFramesInFlight IN
        /\ fence[next] = "signalled"
        /\ frame' = next
    /\ pc' = "inside"
    /\ numFrames' = numFrames + 1
    /\ UNCHANGED <<fence, toPresent, acquired, surfaceVars, queueVars>>

\* Mutant: the list is not searched, and a second RenderToSurface acquires again.
AlwaysAcquires(s) == TRUE

\* AddSurfaceToPresent: the surface has no image in this frame yet. (If it has
\* one, RenderToSurface only schedules its commands.)
NeedsImage(s) == \A i \in DOMAIN toPresent : toPresent[i].surface # s

\* The images the graphics queue has still to render.
InFlight == UNION {frames[n].images : n \in DOMAIN frames}

\* The image's index in the surface's m_swapchain, after the frame's commands.
PresentImage(image) ==
    [number |-> numSubmitted + 1, surface |-> image.surface,
     swapchain |-> swapchain[image.surface], image |-> image.image]

\* Mutant: the fence is reset before the early return.
EndFrameResetsFirst ==
    /\ pc = "inside"
    /\ pc' = "outside"
    /\ fence' = [fence EXCEPT ![frame] = "pending"]
    /\ IF toPresent = <<>>
       THEN UNCHANGED <<toPresent, frames, numSubmitted, presents>>
       ELSE /\ toPresent' = <<>>
            /\ numSubmitted' = numSubmitted + 1
            /\ frames' = Append(frames, [number |-> numSubmitted + 1, frame |-> frame,
                                         images |-> Range(toPresent)])
            /\ presents' = presents \o [i \in DOMAIN toPresent |-> PresentImage(toPresent[i])]
    /\ UNCHANGED <<frame, numFrames, acquired, surfaceVars, semaphore, finished>>

EndFrame ==
    /\ pc = "inside"
    /\ pc' = "outside"
    /\ IF toPresent = <<>>
       THEN UNCHANGED <<fence, toPresent, frames, numSubmitted, presents>>
       ELSE /\ toPresent' = <<>>
            /\ fence' = [fence EXCEPT ![frame] = "pending"]
            /\ numSubmitted' = numSubmitted + 1
            /\ frames' = Append(frames, [number |-> numSubmitted + 1, frame |-> frame,
                                         images |-> Range(toPresent)])
            /\ presents' = presents \o [i \in DOMAIN toPresent |-> PresentImage(toPresent[i])]
    /\ UNCHANGED <<frame, numFrames, acquired, surfaceVars, semaphore, finished>>

------------------------------------------------------------------------------
(* The surface *)

GetNextSemaphore(s) ==
    nextSemaphore' = [nextSemaphore EXCEPT ![s] = (@ + 1) % MaxFramesInFlight]

\* AcquireNextImage, as far as the acquisition: the frame's fence is waited
\* for. The image is one the application does not hold.
AcquireNextImage(s, i) ==
    /\ pc = "inside"
    /\ NeedsImage(s)
    /\ fence[frame] = "signalled"
    /\ \A j \in DOMAIN toPresent :
        ~(toPresent[j].surface = s /\ toPresent[j].swapchain = swapchain[s] /\ toPresent[j].image = i)
    /\ pc' = "acquired"
    /\ acquired' = {[surface |-> s, swapchain |-> swapchain[s], image |-> i,
                     imageAvailable |-> nextSemaphore[s]]}
    /\ semaphore' = [semaphore EXCEPT ![s][nextSemaphore[s]] = "pending"]
    /\ GetNextSemaphore(s)
    /\ UNCHANGED <<frame, numFrames, fence, toPresent, swapchain, overtaken,
                   imagesInFlight, frames, numSubmitted, finished, presents>>

\* Mutant: the image's earlier fence is not waited for.
ImageFenceIgnored(image) == TRUE

ImageFenceSignalled(image) ==
    LET f == imagesInFlight[image.surface][image.image] IN
    f # NoFence => fence[f] = "signalled"

\* The rest: wait for the frame that used this image before, mark the image
\* with this frame's fence, and add it to the images to present.
ImageReady(image) ==
    /\ image \in acquired
    /\ ImageFenceSignalled(image)
    /\ imagesInFlight' = [imagesInFlight EXCEPT ![image.surface][image.image] = frame]
    /\ toPresent' = Append(toPresent, image)
    /\ acquired' = {}
    /\ pc' = "inside"
    /\ UNCHANGED <<frame, numFrames, fence, swapchain, overtaken, nextSemaphore, queueVars>>

\* Mutant: the device is not waited for.
DeviceBusy == TRUE

\* waitIdle: the queue has executed all that is submitted.
DeviceIdle == frames = <<>>

\* A new swapchain with new images and framebuffers; the old ones are
\* destroyed. m_imagesInFlight is resized to the same size: it keeps its values.
CreateSwapchainAndImages(s) == swapchain' = [swapchain EXCEPT ![s] = @ + 1]

RecreateSwapchain(s) ==
    /\ swapchain[s] < MaxRecreations
    /\ DeviceIdle
    /\ CreateSwapchainAndImages(s)

\* AcquireNextImage, when the swapchain is out of date: a semaphore is taken
\* from the ring, the swapchain is recreated and there is no image.
AcquireOutOfDate(s) ==
    /\ pc = "inside"
    /\ NeedsImage(s)
    /\ fence[frame] = "signalled"
    /\ GetNextSemaphore(s)
    /\ RecreateSwapchain(s)
    /\ UNCHANGED <<rendererVars, overtaken, imagesInFlight, queueVars>>

\* Between two calls of the application's thread, in a frame or not.
OnResize(s) ==
    /\ pc # "acquired"
    /\ RecreateSwapchain(s)
    /\ overtaken' = overtaken \cup {image \in Range(toPresent) : image.surface = s}
    /\ UNCHANGED <<rendererVars, nextSemaphore, imagesInFlight, queueVars>>

------------------------------------------------------------------------------
(* The device and the presentation engine *)

\* The engine has shown what was to be shown of this image before.
SignalImageAvailable(image) ==
    /\ semaphore[image.surface][image.imageAvailable] = "pending"
    /\ \A n \in DOMAIN presents :
        ~(presents[n].surface = image.surface /\ presents[n].swapchain = image.swapchain
            /\ presents[n].image = image.image
            /\ \A m \in DOMAIN frames : image \in frames[m].images => presents[n].number < frames[m].number)
    /\ semaphore' = [semaphore EXCEPT ![image.surface][image.imageAvailable] = "signalled"]
    /\ UNCHANGED <<rendererVars, surfaceVars, frames, numSubmitted, finished, presents>>

\* The images that have been acquired and are not rendered yet.
Pending == acquired \cup Range(toPresent) \cup InFlight

\* The first frame in the queue: its semaphores are waited for and so
\* unsignalled, its renderFinished and its fence are signalled.
ExecuteFrame ==
    /\ frames # <<>>
    /\ \A image \in Head(frames).images :
        semaphore[image.surface][image.imageAvailable] = "signalled"
    /\ semaphore' = [s \in Surfaces |-> [k \in Semaphores |->
            IF \E image \in Head(frames).images : image.surface = s /\ image.imageAvailable = k
            THEN "idle" ELSE semaphore[s][k]]]
    /\ fence' = [fence EXCEPT ![Head(frames).frame] = "signalled"]
    /\ finished' = finished \cup {Head(frames).number}
    /\ frames' = Tail(frames)
    /\ UNCHANGED <<pc, frame, numFrames, toPresent, acquired, surfaceVars, numSubmitted, presents>>

\* The first present waits for its frame's renderFinished, which that unsignals.
Present ==
    /\ presents # <<>>
    /\ Head(presents).number \in finished
    /\ finished' = finished \ {Head(presents).number}
    /\ presents' = Tail(presents)
    /\ UNCHANGED <<rendererVars, surfaceVars, semaphore, frames, numSubmitted>>

\* Bound: there are no more frames.
Terminated ==
    /\ pc = "outside"
    /\ numFrames = MaxFrames
    /\ UNCHANGED vars

Next ==
    \/ BeginFrame
    \/ EndFrame
    \/ \E s \in Surfaces :
        \/ \E i \in Images : AcquireNextImage(s, i)
        \/ AcquireOutOfDate(s)
        \/ OnResize(s)
    \/ \E image \in acquired : ImageReady(image)
    \/ \E image \in Pending : SignalImageAvailable(image)
    \/ ExecuteFrame
    \/ Present
    \/ Terminated

Spec == Init /\ [][Next]_vars

\* The engine and the device go on; a call of the renderer returns when it can.
Fairness ==
    /\ WF_vars(\E image \in acquired : ImageReady(image))
    /\ WF_vars(\E image \in Pending : SignalImageAvailable(image))
    /\ WF_vars(ExecuteFrame)
    /\ WF_vars(Present)

FairSpec == Spec /\ Fairness

------------------------------------------------------------------------------
(* Properties *)

\* What vkAcquireNextImageKHR requires of the semaphore: whenever
\* AcquireNextImage may take one from the ring, it is unsignalled, nothing is
\* going to signal it and no frame in the queue waits for it. The ring has
\* MaxFramesInFlight semaphores and an attempt that fails uses one up as well.
AcquireSemaphoreIdle ==
    \A s \in Surfaces : pc = "inside" /\ NeedsImage(s) /\ fence[frame] = "signalled" =>
        semaphore[s][nextSemaphore[s]] = "idle"

\* Two frames never render to one image: an image in the list to present is
\* not one a frame in the queue still renders to (what m_imagesInFlight is for).
ImageInOneFrame ==
    \A i \in DOMAIN toPresent : \A other \in InFlight :
        ~(toPresent[i].surface = other.surface /\ toPresent[i].swapchain = other.swapchain
            /\ toPresent[i].image = other.image)

\* The swapchain an image was acquired from, and with it the framebuffer the
\* image's commands use, is still the surface's while the image is to be
\* rendered or presented: PresentImage, which presents to m_swapchain, presents
\* what was acquired. This fails only for an image of the current frame when the
\* application itself calls OnResize after RenderToSurface and before EndFrame.
SwapchainOutlivesItsImages ==
    \A image \in acquired \cup Range(toPresent) \cup InFlight :
        image \in overtaken \/ image.swapchain = swapchain[image.surface]

\* AcquireNextImage returns: the fence it waits for, which may since have been
\* submitted for a later frame, is signalled some day. And every frame that is
\* submitted is shown, if there is one surface.
FramesAreShown ==
    /\ pc = "acquired" ~> pc = "inside"
    /\ \A n \in 1..MaxFrames : numSubmitted >= n ~>
            \A m \in DOMAIN presents : presents[m].number # n

==============================================================================
