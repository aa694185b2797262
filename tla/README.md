# Teide: models, model checking and proofs

Teide is a C++ rendering library on Vulkan. An application opens a device, creates
resources, and renders frames; the library records command buffers on a pool of worker
threads, submits them to a Vulkan queue, and recycles what a frame used once the GPU has
finished with it. This directory holds TLA+ models of the parts of it that are hard to
test: the threads, the fences, the recycling, and the frame loop; and of the Python tools
that the build and its maintainers rely on: the generator of the file lists with its watch
server, the generator of the `vkex` header on top of the Khronos registry scripts, and the
benchmark script. Paths below are relative to `src/src/Teide/`, for C++, or `src/tools/`, for Python.

## 1. Inventory

| Component | State | Operations | What is hard |
|---|---|---|---|
| `Queue` | in-flight submissions (fence, callback), pool of unused fences, polling thread | `Submit`, `WaitForTasks`, `Flush` on the thread, destruction | fences are recycled while other threads wait for them; callbacks run under the lock |
| `GpuExecutor` | slots with a command buffer and a completion handler, number submitted, per-frame and per-thread command pools | `AddCommandBufferSlot`, `GetCommandBuffer`, `SubmitCommandBuffer`, `NextFrame` | recording ends in any order, submission must not; pools are reset and reused |
| `CpuExecutor` | list of dependent tasks, polling thread, Taskflow executor | `LaunchTask` (with or without a dependency), `WaitForTasks`, destruction | the list and the executor are two places a task may be in; exceptions; the destructor |
| `Scheduler` | the two executors | `Schedule`, `ScheduleGpu`, `ScheduleAfter`, `NextFrame`, `WaitForCpu`, `WaitForGpu` | references into executors that may be destroyed; a recording function that throws |
| `VulkanRenderer` | frame resources (fence, semaphore, descriptor pools), surfaces to present | `BeginFrame`, `RenderToTexture`, `RenderToSurface`, `EndFrame`, `WaitForGpu`, destruction | the CPU must not reset what the GPU uses; two frame counters |
| `VulkanSurface` | swapchain, ring of semaphores, fence of each image | `AcquireNextImage`, `PresentImage`, `OnResize` | semaphores with pending operations; indices that outlive a swapchain |
| `ThreadMap`, `Synchronized`, `FrameArray` (`Util/`) | per-thread entries, size counter | `LockCurrent`, `LockAll`, `Lock`, `NextFrame` | lock-free registration of threads |
| `Handle`, `ResourceMap` | slots with a reference count | `Insert`, `Get`, `AddRef`, `DecRef`, copy and move | counts across copies, moves and self-assignment |
| `CommandBuffer`, `DescriptorPool` | references kept alive; pools and counters | `AddReference`, `TakeOwnership`, `Reset`; `Allocate`, `Reset` | growth, what a reset forgets |
| `ListenSender` | completion state shared by a sender and a receiver | `Listen`, `start`, `set_value`, `set_stopped` | result before or after the listener; callbacks under a lock |
| `VulkanGraph` | nodes of a render graph, texture states | building, `ExecuteGraph` | order of layout transitions |
| `VulkanDevice` | caches of render passes and framebuffers, resource maps | `Create...` | stale cache entries, lazy initialisation |
| textures, buffers, shader data, formats | values | layout arithmetic, mipmaps | alignment at the boundaries |
| instance, loader, shader compiler, `vkex` adapters, `GeoLib` | none that changes after start-up | calls of third-party libraries; arithmetic | nothing concurrent |
| `gen_filelists.py` | the list of each project and its temporary file, the working directory, timers, `pause_updating`, the server socket | `gen_filelist`, file and git events, `watch start/stop/status` | threads share the working directory and files; timers cannot be recalled; processes race for a port; kills |
| `vkex/reg.py`, `genvkex.py` | dictionaries of types, groups, enums, commands, features; tags required and declared | `parseTree`, `apiGen` and its passes | the result depends on orders that nobody fixes: of features, of references, of removals |
| `vkex/parse_dependency.py` | none | parsing, evaluating and translating expressions | precedence, malformed input |
| `vkex/vkexgenerator.py`, `generator.py` | sections of a feature, temporary file, header | `beginFile` to `endFile`, `genStruct` | combinations of array lengths; errors halfway |
| `benchmark.py` | the git head, the build directory, result files | `commit`, `compare` | every step may fail or be interrupted and leaves what the next invocation finds |
| other scripts, `vkex` conventions | none | transformations of one file, string tests | nothing |

How they interact. `VulkanRenderer` calls `Scheduler::ScheduleGpu` for every render pass.
That reserves a slot in the `GpuExecutor` (behind a `Synchronized`, so each operation is
atomic), launches a task on the `CpuExecutor`, which takes a command buffer of the current
frame, records it without a lock, and hands it back with a completion handler. `GpuExecutor`
submits the ready prefix of the slots to its `Queue`. The queue's thread polls the fences and
calls the callbacks, which run the handlers, which set the promises of the tasks' futures.
`EndFrame` waits for the CPU tasks and submits one more batch, directly, whose only purpose is
to signal the frame's fence; `BeginFrame` waits for the fence of the frame it comes round to
and resets that frame's resources through `Scheduler::NextFrame`.

The tools run apart from the library. The watch server's observer thread turns file system events
into timers, whose threads run `gen_filelist`; other invocations of the script talk to it over a
socket, or generate lists themselves. `genvkex.py` loads the registry, whose `apiGen` decides which
names are generated in which order and calls the output generator for each; the dependency
expressions of features decide what is in. `benchmark.py` drives git,
CMake and the benchmark executable as child processes.

What makes it correct, in one line each:

- `Queue`: a callback is called once, after its submission has executed; waiting means what it says.
- `GpuExecutor`: the GPU sees command buffers in the order the tasks were scheduled; no handler is lost; no command buffer is in two uses.
- `CpuExecutor`: a dependent task runs once and after its dependency; `WaitForTasks` covers both places.
- `VulkanRenderer`: the CPU resets nothing the GPU, or a worker, still uses; nobody waits for a fence nobody signals.
- `VulkanSurface`: an acquire gets a semaphore with nothing pending; two frames never share an image; an image is presented to its own swapchain.
- `VulkanGraph`: a command finds its images in the layouts it was recorded for; a read gets what was last written, and whoever listens gets it once.
- `ThreadMap`: an object belongs to one thread, and to the same one for ever.
- `gen_filelists.py`: when all is quiet a list is that of its directory, whatever ran, was interrupted or killed before; a reader never sees half a list; every command returns.
- `reg.py`: a name is declared before it is used; what is removed is not there, and nothing else is missing.
- `parse_dependency.py`: evaluation, translation and the set of names have one meaning.
- `vkexgenerator.py`: a generated mapping sets counts that are true of its arrays; the header is the old one or the whole new one.
- `benchmark.py`: results are of the commit they are kept for; the user is back on the branch.

The hazards, each at its line, are listed in `PROJECT.json`; section 4 has those that no property is about.

## 2. Modules

| Module | Models | Uses |
|---|---|---|
| `SubmitQueue` | what a queue promises: submissions execute in order and are completed once, after execution, in any order | |
| `Queue` | `Queue.h`, `Queue.cpp`, with the device's fences | refines `SubmitQueue` |
| `QueueProofs` | theorems about `Queue` | extends `Queue` |
| `GpuExecutor` | `GpuExecutor.h`, `GpuExecutor.cpp`, the task of `ScheduleGpu` | `SubmitQueue` as its queue |
| `GpuExecutorProofs` | theorems about `GpuExecutor` | extends `GpuExecutor` |
| `CpuExecutor` | `CpuExecutor.h`, `CpuExecutor.cpp` | |
| `CpuExecutorProofs` | theorems about `CpuExecutor` | extends `CpuExecutor` |
| `Renderer` | the frame loop of `VulkanRenderer.cpp` | relies on `GpuExecutor!BatchesFollowSlotOrder` |
| `RendererProofs` | theorems about `Renderer` and about `ThreadMap`, which it keeps its workers' resources in | extends both |
| `Surface` | `VulkanSurface.h`, `VulkanSurface.cpp` and the frame loop around it | |
| `SurfaceProofs` | theorems about `Surface` | extends `Surface` |
| `Graph` | `VulkanGraph.h`, `VulkanGraph.cpp`, `Util/ListenSender.h`, and the device executing the commands | relies on `SubmitQueue` |
| `GraphProofs` | theorems about `Graph` | extends `Graph` |
| `ThreadMap` | `ThreadMap` of `Util/ThreadUtils.h` | |
| `WatchServer` | the server and the clients of `gen_filelists.py` | |
| `FileLists` | `gen_filelist`, the watchers and timers, the batch run | extends `WatchServer` |
| `FileListsProofs` | theorems about `FileLists` | extends `FileLists` |
| `Dependency` | `vkex/parse_dependency.py` | |
| `Registry` | `vkex/reg.py` with `genvkex.py`'s options, `regSortFeatures` of `generator.py` | extends `Dependency` |
| `VkexGenerator` | `vkex/vkexgenerator.py`, the file handling of `vkex/generator.py` | called as `Registry` calls a generator |
| `Benchmark` | `benchmark.py` | |
| `ToolProofs` | theorems about `Benchmark` and `VkexGenerator` | extends both |
| `MC...` | instances for TLC | |

### Queue

`m_mutex` is held for a whole `Submit` and a whole `GetInFlightFences`, so these are single
steps. `Flush` also holds it, but for several steps (`FlushEntry`, one turn of the loop, then
`FlushEnd`), since the device signals fences while the loop runs; `MutexFree` keeps the others
out meanwhile. A fence is its number in order of creation, a submission likewise; an entry of
`m_inFlightSubmits` is the pair. An entry is removed in the turn that pools its fence; the code
removes it after the loop, under the same lock, which every reader takes.

`WaitForTasks` is three kinds of step: `BeginWait` copies the in-flight entries under the lock;
`ObserveSignalled` is `waitForFences` looking at one fence; `WaitSucceeds` and `WaitTimesOut`
are its results. Seeing the fences one at a time is what an implementation of `vkWaitForFences`
may do, and includes the case in which they are all seen at once. The device is external: it
executes in submission order, and a fence is signalled at any time after its submission.
`calls` and `awaited` are history variables that the code does not have.

A lost device, on which the code calls `std::abort`, is left out.

### GpuExecutor

The executor is used through `Synchronized<GpuExecutor>`: one operation, one step. A command
buffer is the frame, thread and index of the pool it is from, so that handing it out again is
visible as equality. `EndsBatch` states what `std::ranges::find` for the first null handle
yields; `HandlersToSubmit` is the filter over all unsubmitted handlers. `CompleteBatch` is the
callback given to `Queue::Submit`. `NextFrame` comes at any time and resets the pools of the next frame
whatever is in use of them, as the code does; the history variable `caught` has the slots whose command
buffer was in use then, and `LiveCommandBuffersDistinct` is about the others. That nothing is caught is for the caller to see to:
`Renderer!PresentedFramesAreWaitedFor` states when the renderer does, for frames that present.

### CpuExecutor

A task is queued or running in Taskflow, or scheduled in `m_scheduledTasks`. The polling thread
keeps the mutex for a scan of the list, one `ScanTask` per entry; workers finish tasks meanwhile.
`Execute` begins with `future.get()`, which rethrows a failed dependency's exception in a thread
function: the process ends (`crashed`). `WaitForTasks` is one step per `wait_for_all` and per look
at the list. The destructor sets the flag, joins, then waits. Taskflow and the future of a GPU task
are external.

### Renderer

Rounds are counted; frame `r` uses the resources of index `r % MaxFramesInFlight`. `round` is the
renderer's `FrameArray`, `gpuRound` the one inside `GpuExecutor`; `BeginFrame` advances the first,
waits, then advances the second. `cbRound` and `viewRound` record which round's command pool and
view parameters a task uses. `fence` is the frame's `inFlightFence`, `fenceAfter` what had been
submitted before the submission that signals it. The application presents in a frame or not, and
with `RendersOutside` also renders between `EndFrame` and `BeginFrame`; the history variables
`presented` and `outside` record what it did, since the properties depend on it.
Acquiring and presenting images is reduced to whether there is anything to present; `Surface` has
the rest.

### Surface

The frame loop is repeated in the form in which the surface sees it: `BeginFrame` waits for the
frame's fence, `RenderToSurface` acquires (through `AddSurfaceToPresent`), `EndFrame` submits and
presents. Workers and textures are left to `Renderer`. `AcquireNextImage` is two steps, since it
waits twice: the acquisition, and `ImageReady` after the wait for the fence of the frame that used
the image before. `AcquireOutOfDate` is the branch that recreates the swapchain. Swapchains are
numbered, so that an image of an old one can be told from an image of the new one with the same index. `OnResize` may come
between any two calls of the application, also between `RenderToSurface` and `EndFrame`; the history variable `overtaken` has the images
it then found to be presented. Their present, of an index that was not acquired from the new swapchain, is undefined in Vulkan, and the model
lets it end like any other. The
queue executes a frame when its `imageAvailable` semaphores are signalled, the presentation engine
shows an image when its frame's `renderFinished` is signalled, and it may hand out an image that is
still to be shown and signal its semaphore afterwards, as `vkAcquireNextImageKHR` allows.
The number of images stays the same when the swapchain is recreated.

A semaphore is unsignalled by the operation that waits for it. `EndFrame` presents every surface
with the same `renderFinished`, so with two surfaces the second present waits for ever; the runs
have one surface, and the hazard is listed at its line (`VulkanRenderer.cpp:206`).

### Graph

Command nodes are put together in any order (`nodes`, by index), `BuildGraph` derives from them the
states each texture is expected in and left in, `RecordNode` is one call of `Process`, in the order
of `ForEachCommandNode` (by type, not by index), and `ExecuteNode` is the device executing one command
buffer, by index. The content of an image is the number of the node that wrote it, so that a barrier
from the undefined layout, a wrong barrier or a store operation that discards shows in what is read.
`stateChanges` is a set: `AddStateChange` keeps its vector sorted by index whatever the order of adding.
The barriers of a node are a function of the place of the texture in the node, so that one texture in two places has two;
places whose texture is in the right state already are not in its domain.
The render pass's layouts are those of `CreateRenderPass`; its store operation is `eDontCare`, which
the device may take as keeping or losing the content (`Kept`).

A read node's result goes through a completion state, which the sender, and the operation once started,
hold by a shared pointer and the receiver by a weak one. `Start` (`SetReceiver`) and `CallReceiver`
(`SetValue`, from the queue's thread) each hold its lock and are single steps; a sender can be destroyed
at any time, also before its node is recorded. A sender is started once, as in all tests (the library itself
only makes senders): the code would give one that is started again a moved-from value, or fail the assertion in `SetReceiver`. Dispatch and present nodes are
unfinished in the code ("TODO"): they are added and counted by `BuildGraph`, and are the last use of
their textures (`Usable`).

Two things upset a texture, and the properties name them. A read node whose sender is gone is skipped
(`VulkanGraph.cpp:77`) although its state has been counted: until a barrier changes it, the texture misses that state
(`Missed`). A render list that has a texture twice gets two equal barriers (`VulkanGraph.cpp:141`, `BoundTwice`), the second of which
does not match, but leaves the right layout. `LayoutsMatch` allows a wrong barrier or layout in these places and nowhere else, and
`ReadsSeeLastWrite` a lost content only if one of them is between the write and the read.

### ThreadMap

`LockCurrent` takes no lock, so each access to shared memory is a step: reading `m_size`, each
comparison of `find`, the `fetch_add`, the decrement before the exception, the write of the id.
Reading an id while its owner writes it is a race in C++; a reader never looks for another's id,
so either value leads it on, and the two orders of the steps give both. `entryOf` is a history variable.
`LockAll`, which the application's thread calls when no worker is inside `LockCurrent` (that is
`Renderer!OneFramePerTask`), changes no state of the map.

### WatchServer and FileLists

The observer of a server watches the `src` and `include` directories that exist when the process becomes the server (`StartWatching`), and no
others later: `watch_subdir` looks once. An `include` directory may be made at any time (`MakeDir`), and is then watched by later servers only.
These directories themselves are not removed, and `.git` is always there.

A process in watch mode is a client first (`Connect`, `Receive`) and becomes the server if nobody
answers; `Bind` comes after its observer was started and may find the port taken. The server accepts one
connection at a time and serves it until the client closes it. Closing the socket resets what is in the
backlog, which the client does not catch. `KeyboardInterrupt` may come wherever the server waits. Sockets are
external: they deliver in order, and a connection to a port nobody listens on is refused.

A run of `gen_filelist` is a thread of its own, in as many steps as it has accesses to what is shared: the
working directory (`GetCwd`, `ChDir`, `Walk`, `RestoreCwd`, for `src` and for `include`), the temporary file
and the list (`OpenTemp`, `WriteTemp`, `Compare`, `RemoveTemp` or `RemoveOld` and `Rename`). Files are
identities and names refer to them, so that a run that writes a file which another run has renamed writes where
it is now. An exception ends the thread (`died`), or the batch run. A walk is one step. Events that the handlers
do not react to are left out by `told`; those they do react to are counted until they are dispatched or the
observer has stopped. A kill is a state that `Init` may start from: no list, or a temporary file that was left.

### Dependency and Registry

An expression is a sequence of names, operators and parentheses, `ExprStack` the parser with its stack, and the
three evaluators pop that stack as the code does. `Trees`, `Meaning` and `CMeaning` are the reference: what an
expression with a given structure means, and what a C expression means with C's precedence. `reg.py` calls the evaluation; the
translation to C is for generators that write `#if` directives of expressions, which the vkex generator does not do.

`Registry` keeps what elements name and refer to. A pass of `apiGen` over one feature is one action; the recursion of
`markTypeRequired` and `generateFeature` is inside, as a fold over the state it changes. A `RecursionError` is
`Overflow` at depth `MaxDepth`; an exception ends the generation (`failed`). `FillFeatureDictionary` is what stands before the tagging of each
feature: it follows the aliases of the types that are listed, and may end in an error or follow a circle for ever (`looping`). `members` pairs every `<enum>` of a group
with the feature that added the copy, since the code finds copies by name and takes the first. `hidden` is a history
variable: names that were marked as declared while the feature was not emitted. Regular expressions of the options are
the sets of names they match. A variant with an `api` attribute next to one without, which the schema forbids, is
left out, and so are `api` attributes below `<type>` and `<feature>`.

### VkexGenerator

`genStruct` goes through the members once, and what it finds (`Scan`) determines the text: the kind of struct, the
arrays each member is the length of, and which are `const`. `Scanned` is the pass, a function of the number of members seen. The properties are about the function `map()` in the text:
`Compiles`, `AssertsHold`, `SizesAfter` and `MappedCount` state what its statements do for arrays of given sizes. File
handling has the temporary file, the copy over the old header, which is not atomic, and failures in between.

### Benchmark

`head` is where git is; a child process is one step with an outcome, and an interrupt or kill may come instead.
`GitSwitcher` calls `__exit__` after everything inside the `with` statement and not if `__enter__` failed. `binary` is the commit
the executable in the build directory was built from: it survives a failed configure step, since `rmtree` ignores errors.
A result file has a state (part or whole) and the commit it was really measured on. `first` and `unclean` are history
variables: where the script was started, and whether something happened that no code can repair.
Edits in the tree that are not committed are left out. `git switch --detach` carries them along (`benchmark.py:23`), or fails when they conflict with the
commit, which is a failed `Enter`; so what the model calls a build of a commit is one of the commit with these edits.

## 3. Runs

| Run | Bounds | Shows |
|---|---|---|
| `queue` | 3 submissions, 2 waiting threads | ownership of fences, callbacks once and after execution, sound waiting, refinement of `SubmitQueue`; callbacks are called, destruction ends |
| `gpu_executor` | 3 slots, 2 workers | batches in slot order, handlers in one place, command buffers distinct unless a reset caught them in use; every handler runs |
| `gpu_executor_early` | 3 slots, 2 workers | the finding of section 4 |
| `cpu_executor` | 3 tasks, 2 threads, task 1 may throw | dependents after dependencies and once; `WaitForTasks` covers what was launched; every task runs, waiting and destruction end |
| `renderer` | 3 tasks, 4 frames, any application | a frame that presents is waited for; no task with resources of two frames; `BeginFrame`, `EndFrame` and the destructor return |
| `surface` | 1 surface, 3 images, 4 frames, 2 recreations at any time | semaphores idle when acquired, images in one frame, presented to their swapchain unless `OnResize` overtook them; an acquire returns, what is presented is shown |
| `graph` | 3 commands, a colour and a depth texture | layouts match, reads see the last write, listeners are served |
| `thread_map` | 4 threads (interchangeable), 3 entries | objects exclusive and stable, exceptions only when full |
| `file_lists` | 2 projects (one without an `include` directory at first, which may be made), 3 processes (two start, one stops), a batch run, 3 inputs (commands, changes, git locks), 2 runs at once | lists current when quiet, never half written, caught up in the end; commands return |
| `registry` | 5 families of registries (up to 4 types, a group of 4 values, 6 features), 4 sets of options, depth 3 | declaration before use, removals win, nothing missing, one meaning of expressions |
| `generator` | structs of a count and two arrays in ten forms each, 3 features | counts are true, the header is old or whole |
| `benchmark` | 3 commits, 2 branches, 3 invocations | results of their commit, back on the branch |

Why the bounds are enough. A fence's whole life is creation, use, return to the pool, second use:
three submissions let one be reused while another is in flight and a thread waits for the first
use. Out-of-order recording needs three slots (one in the batch, a gap, one behind the gap), which also
make a batch of two and a pool that grows from 1 to 2 to 4. A chain of two dependencies
behind a task that throws needs three CPU tasks. Four frames use each of the renderer's two frame
indices twice; with fewer than 3 nothing is reused, and the mutants of these properties would
survive. Three commands give every texture state a predecessor and a successor, and two textures let
a render node read one and write the other. Four frames use each of the surface's two semaphores twice, with attempts
that fail (and use one up) before, between and after. Four threads on three entries have one that is
refused while others register. Three inputs are enough to start a server, stop it and change a file, to
change a file twice with a timer between, or to change both projects, and two runs at once are enough for every pair of threads to
meet; MaxInputs counts what the world does and not what follows from it. Three types have circles of length two and three and a
type reached in two ways; five names of expressions' trees would add no pair of operators that four do not have.
Three invocations let one find what a failed one left that had found what another one left.

The runs have between 20,000 and 650,000 distinct states and take between 3 and 100 seconds.

Fairness. `Queue`: the device executes what is submitted and signals it; the polling thread and a
thread inside a wait go on, because all of the thread's waits have timeouts. Nobody has to submit,
wait or destroy. `GpuExecutor`: workers take launched tasks and finish recording, and the queue
completes what it is given, which is `EveryCallbackIsCalled` of the module below. `CpuExecutor`:
workers, the polling thread and a waiting thread go on when they can; reading the list needs strong
fairness, since the mutex is taken and released for ever by the scans, between which the thread
sleeps 2 ms outside the lock. `Renderer`: workers record, the GPU executes and signals, and the
application's thread leaves a call when it can; the application need not begin or end a frame.
`Surface`: the same, and the presentation engine shows what is presented and gives images back.
`Graph`: `ExecuteGraph` returns, the device executes what is submitted, and the queue calls the callback;
nobody has to listen, or to execute a graph. `FileLists`: threads go on, timers fire, the observer dispatches, and
clients and server go on when their sockets allow it; no user has to do anything, and git may keep its lock. The
inputs are bounded, so from some time on nothing changes, which is when the lists must have caught up.

Deadlock is checked in all runs except where noted by the configuration: the ends of the objects'
lives are explicit (`Terminated`) in the models of the library; the tools' programs simply end.

Each property has a mutant: a definition of the model changed as a plausible bug would change the
code (a fence not reset, a handler left out, a missing last wait), under which TLC must find the
property violated. The mutated forms stand before the definitions they replace.

## 4. Finding and known deviations

`gpu_executor_early` is a violation. `SubmitCommandBuffer` moves all unsubmitted handlers into the batch, also
those of slots behind a gap (`GpuExecutor.cpp:135`). Task 3 recorded before task 2 has its future
made ready when the batch of task 1 completes. `SchedulerTest.cpp:110-114` reads results as soon as
the future is ready.

Elsewhere the models do what the code does, and the properties say what is true of it; these are the places where a reader
may have expected more.

- `WaitForTasks` may wait its 4 seconds for a fence that `Flush` has recycled, and log a timeout although everything
  has completed (`Queue.cpp:111`). When it succeeds, all is executed (`WaitCoversItsSubmissions`, proved).
- In a frame that presents nothing `EndFrame` leaves the frame's fence signalled (`VulkanRenderer.cpp:183`), so two frames
  later `BeginFrame` does not wait, against the comment at line 109. Frames that present are safe whatever the others do
  (`PresentedFramesAreWaitedFor`).
- A read node whose sender is gone is skipped (`VulkanGraph.cpp:77`), but the state it was to leave its texture in counts, and the
  next barrier names a layout the image is not in. Reads that follow it directly find the image in that layout, and what was
  written may be lost at the next barrier. `LayoutsMatch` and `ReadsSeeLastWrite` name the case (`Missed`, `Upset`).
- A texture that a render list has twice gets two equal transitions (`VulkanGraph.cpp:141`), and the second barrier names the layout
  that the first has replaced; the properties name this case too (`BoundTwice`).
- The render pass of a render node need not store what it renders (`VulkanGraph.h:239`, `VulkanDevice.cpp:1385`);
  `ReadsSeeLastWrite` allows it to be lost.
- Changes made while git holds its lock are in no list until the next change (`gen_filelists.py:130`); `QuietListsAreCurrent` leaves such
  projects out (`stale`), and those whose last run another thread disturbed.
- A `src` or `include` directory that is made after the server started is never watched (`gen_filelists.py:64`): changes in it are in no list until
  something else in the project changes. The properties count such a project as stale too.
- Two runs of `gen_filelist` for one project, a timer's and a batch run or those of two timers, may leave half a list (`gen_filelists.py:42`), and two for different
  projects in one process may leave the wrong one (`gen_filelists.py:22`). The properties are about runs that nothing disturbed, whatever was before them.
- `OnResize` between `RenderToSurface` and `EndFrame` presents an index of the old swapchain to the new one (`VulkanSurface.cpp:259`); the application in
  `examples/` resizes between frames. `SwapchainOutlivesItsImages` names the case (`overtaken`).
- The destructor of `CpuExecutor` does not return if a task is left in the list (`CpuExecutor.cpp:44`); `WaitsEnd` supposes that there is none.
- A removed enum stays in its group if it was added to it twice, or by a core version, an unselected extension or an
  unsatisfied block (`vkex/reg.py:1166`); `RemovalsWin` names the case.
- Removing an alias removes what it is an alias of (`vkex/reg.py:1204`); `NothingMissing` counts that as removed.
- A circle of type aliases keeps the script in `fillFeatureDictionary` for ever (`vkex/reg.py:1395`); `NothingMissing` names it as the only cause.
- A contradiction in `supersededby` is reported for types and enums and never for commands (`vkex/reg.py:1504`).
- A benchmark that was interrupted may leave part of a file, which counts as cached from then on (`benchmark.py:70`); comparing it
  fails. Started from a detached head, the script cannot go back (`benchmark.py:26`): `BackOnTheBranch` is about branches.

Hazards that no property covers, beside those listed in `PROJECT.json`:

- `Queue::Flush` and the completion state of `ListenSender` call callbacks with their mutex held (`Queue.cpp:77`, `Util/ListenSender.h:78`):
  one that submits, waits or touches the same state would block. The callbacks in the repository do not.
- `GpuExecutor` is destroyed before `CpuExecutor`, whose tasks may still record (`Scheduler.h:79`, with a TODO at 37).
- One `renderFinished` semaphore serves the presents of all surfaces of a frame (`VulkanRenderer.cpp:206`), and what renders to a surface
  image is submitted before the submission that waits for the image (`VulkanRenderer.cpp:201`).
- Dispatch and present nodes leave none of the states they count for (`VulkanGraph.cpp:169`).
- `ResourceMap.h:82` (a dead slot looks alive), `CommandBuffer.cpp:38` (render lists that `Reset` keeps), `VulkanDevice.cpp:1413` (framebuffers
  found by handles that may come back).
- `gen_filelists.py:210` (a relative `--dir`), `gen_filelists.py:51` (no `cmake-format`), `vkex/reg.py:1712` (aliases add
  enums to their group that were never required, against the comment at 1154), `vkex/reg.py:156` (a variant without `api`),
  `vkex/vkexgenerator.py:27` (two members with one name), `vkex/genvkex.py:85` and `116` (options without effect),
  `benchmark.py:68` (results kept by commit only), `benchmark.py:73` (two scripts in one tree).

## 5. Proofs

`QueueProofs` proves, for any number of submissions and any set of waiting threads (assuming only
`QueueAssumption`: the bound is a natural number and the polling thread is not one of the callers):

- `TypeCorrect`: `Spec => []TypeOK`;
- `FenceOwnership`, `FenceReuse`, `Callbacks`, `WaitIsSound`: the safety properties of the run `queue`;
- `Implements`: `Spec => Refinement`, that is, `Queue` implements `SubmitQueue`.

None of the properties is inductive alone. The inductive invariant `Inv` adds to `TypeOK` and
`FenceHasOneOwner` three parts. `EntriesInv` ties the device to the list: what is still to be
signalled is in flight; an in-flight entry whose fence is signalled has executed and is not signalled
again; a signalled fence belongs to an entry in flight. So a pooled fence is idle, which is `FenceReuse`, and
a fence seen signalled in `Flush` means that its own submission has executed, which is the heart of
`Callbacks`. `CallsInv` counts: a submission has been called once or is in flight. `WaitInv` is the
subtle one: an entry that a waiter still holds may be stale. If it is no longer in flight then its
submission has executed, so when the waiter later sees the fence signalled, on account of another
submission, it is wrong about whose signal it is but right that its own is done.

The proof that a step preserves `Inv` is one lemma per part (`EntriesNext`, `FencesNext`,
`CallsNext`, `WaitNext`), each over the actions that can disturb it; `StepKinds` reduces `Next` to the
few actions that change fences, entries or snapshots, so that the others are one case.

The second part of `RendererProofs` proves type correctness and the three properties of `thread_map` (`MapTypeCorrect`, `Exclusive`,
`SameObject`, `Throws`) for any finite set of threads and any capacity, assuming that the thread that
constructs the map does not register. An entry is taken by incrementing `m_size`, so it is taken once
if `m_size` never falls below a taken entry. `SizeInv` is the strengthening that gives this: while
any thread is about to undo its increment, `m_size` is at least the capacity plus the number of such
threads. `HoldersInv` then says that the entries up to `m_size` have exactly one holder each, `IdsInv`
that an id in the array is that of the thread that got the entry, and `ThreadInv` that a thread's search
has not gone past its own entry, which is why it never registers twice.

The first part of `ToolProofs` proves the two properties of `benchmark` (`Measurements`, `Restored`) and `TypeCorrect` for any sets
of branches and commits and any number of invocations, assuming that branches, commits and `HEAD` are different names. `Inv` says, by
where the script is, what git and the build directory hold: inside the `with` statement the head is the commit being
measured; after the build, and while the benchmark runs, the executable is of that commit; what was saved is the branch the script was
started from as long as nothing unrepairable has happened; and the files collected so far are the commits of the first refs.
That the results are of their commit follows because a result is only written from the executable of the commit at
which the head is; that the script ends on its branch, because every way out of the statement goes through
`Exit` or sets `unclean`.

The second part proves the two properties of `generator` (`HeaderStaysOldOrWhole`, `MappedCountsHold`) for any
interfaces. They assume `VkexAssumption` (an interface is a list of features, each with a list of types) and `StructsAssumption`: the members of a
struct have different names, and a struct whose `map()` would not compile is in the generator's list of broken ones, which was made by
hand for the registry at hand, so that part of `MappedCountsAreTrue` is an assumption about the registry, which TLC evaluates for
the instance. What the header must hold is stated without recursion: there is an enumeration, in order, of the emitted features
(`IsWholeHeader`), and of the types of each that are structs. `HeaderInv` carries it through the
generation: what `sections` holds is the text of the first `done` types of the feature (`SectionInv`), and what the temporary file holds is that of
the first `pos - 1` features (`FileInv`); `EnumeratesMore` is the lemma by which an enumeration goes on by one. `BodiesInv` says that each body was scanned from
a struct of the interface. The counts rest on `ScanHasInv`, an induction over the members of a struct. `Scanned` is a recursive function
on `0..n`: that it exists is proved (`ScanExists`), and since induction theorems with an operator parameter are out of the provers' reach, both
inductions take the least counterexample by `WFMin`. The fact that is carried along is that an array is among the arrays of one length only, so that
`FirstOf` is well defined and the sizes that `map()` sets are equal wherever its assertions hold.

`GpuExecutorProofs` proves `SlotOrder`, `Handlers` and `Distinct`, the safety properties of the run `gpu_executor`,
for any workers, any number of frames and any bound on the slots; it assumes only that the bound is a natural
number. A slot is filled once, by the one worker that records for it (`RecordInv`), so the slots that were
submitted are a full prefix that nobody writes again: that is `SlotOrder`. A handler the executor still has is of a slot
not yet taken, and a batch takes all of them (`EmptyInv` with `HandlerInOnePlace`). A live command buffer has
a number that its pool has handed out (`PoolInv`) and the next one is above it, unless `NextFrame` set the pool back to zero
while the command buffer was in use: that is `Distinct`. These proofs use `Types`, which is weaker than `TypeOK`. `TypeCorrect` is the full type
invariant; what it needs besides `Inv` is `CountInv`: a pool's counter is at most the number of tasks that have started, of which there
are at most as many as slots.

`CpuExecutorProofs` proves `TypeCorrect`, `Dependents` and `WaitIsComplete` for any numbers of tasks and workers and any tasks
that throw (`CpuExecutorAssumption` only). A task passes through its statuses in one direction: `RunsInv` ties the
number of runs to the status, `GivenInv` says that what a task was given is still done. `LastInv` is the fact behind
`WaitIsComplete`: after the busy loop has once seen the list empty under the mutex, a task that is waited for is not in
it, and never comes back, though later tasks may; so when nothing is queued or running either, it has finished.

`RendererProofs` proves `TypeCorrect`, `Presented` and `OneFrame` for any numbers of tasks and rounds, whether or not the application
renders outside frames. `RecordInv` says that a task of a frame is recorded before the frame ends, while the two counters
agree; `SubmitInv` that everything recorded without a gap is submitted, so that after `WaitForCpu` the frame's fence comes
after every task. `FenceInv` is the strengthening that makes the property inductive: a task of a frame that presented
has been executed, or its frame's fence is pending, comes after it, and the round is not two behind yet.
The case that matters is `ResetFrame`: the round is two behind exactly when the fence it waits for is that one.

`SurfaceProofs` proves `RingIsLongEnough`, `OneFramePerImage` and `SwapchainLives` for any surfaces, images, frames and recreations.
Inside a frame its fence is signalled, while the fences of queued frames are pending (`QueueInv`): so the queue holds at most
the other frame. `MarkInv` says that an image in use is marked with the fence of the frame it is used in: an image whose earlier fence was
waited for is in no queued frame. `RingInv` is the subtle part: the newest image of a surface has the semaphore that
was taken last, and so has an older one if there is no newer; so an image left over from the frame before never has the
semaphore that is next. `SwapchainLives` needs that the device is idle when a swapchain is recreated: what is left is in
`m_surfacesToPresent`, where a failed acquisition finds no image of its surface and `OnResize` those it overtakes. A failed
acquisition takes one more from the ring, but then the device is idle and the surface has
no image. `TypeCorrect` is the type invariant in full, by `NumberInv`: the frames queued, executed and to be shown have numbers of
submitted frames, and an image is acquired in the state `acquired` only, one at a time.

`FileListsProofs` proves `TypeCorrect`, `Whole` and `UpToDate`, the safety properties of the run `file_lists`, for any projects, files,
processes, batch order and number of inputs. Besides `FileListsAssumption` it uses `NamesAssumption`: a file is named after a project or
after the number of the run that created it, and the remaining constants are different from these. `FilesInv` says that names of two projects
never refer to the same file, that a list and a temporary file are two files, that a run writes to a file of its own project, and that
no name refers to the file of a run that has not opened it yet; even `TypeOK` needs it, since a run keeps the file it opened while others
rename and remove it. `HistoryInv` ties the history variables `overlaps` and `last` to the runs, and a waiting timer to its watcher. `WholeInv` is
what `Whole` needs: in a project without overlapping runs the list is whole, and the only run at work writes to the temporary
file. `CurrentInv` is what `UpToDate` needs: of every project that is not stale, either an event is still pending or a timer still waits
(`Covered`), or its last run was disturbed, or it is `OnCourse`, which says for every place in `gen_filelist` what the run has found so far, what
its files hold, and that the rest of the run leads to a current list. A step of the last run itself keeps it on course; a step of another run either touches only
files of other projects (`Elsewhere`) or has overlapped with it; a change of the tree is pending, if an observer watches the directory, or makes the project stale, if none does; and a
timer is cancelled only together with the start of another.

`GraphProofs` proves `TypeCorrect`, `LayoutsHold` and `Results`, the safety properties of the run `graph`, for any textures, depth textures and
number of nodes, with senders that are dropped at any time. The barriers of a node are worked out from the state changes, which do
not change any more, so `RecordInv` can say that they are `BarriersOf(n)` whenever the node was recorded, and that of the finished nodes
only reads that nobody holds any more are not recorded. `DeviceInv` goes with the device: after the first `k` nodes a texture is in the state
that the last of them to use it ensures, or this last use is a read and the texture misses the state of a skipped one; and it has what
the last of them to write it wrote, unless a render pass or an upset since has lost it. An unfinished node that has used it ends
both, but after it nobody uses the texture (`NodesInv`). `Transitions` is the lemma that connects the two: the
transition of a texture for node `n` is from what the last use before `n` ensures (the undefined state if there is none) to what `n` needs. Hence each barrier
matches (`Found`), and one that discards the content comes before any write. That a miss ends at the next use that is not a read is
because that use needs a state other than a read's, so it has a barrier, and a barrier leaves its layout whatever it
found (`EqualBarriers`, which also covers a texture that a node has twice). `MissedUpsets` says that nothing writes the texture between the skipped
read and that barrier. `ListenInv` has the rest of `Results`: a result is kept or delivered only by the one call of
its receiver, for a node that was recorded, after the staging buffers have been filled.

Left to TLC: all liveness properties (fairness and ENABLED are beyond the prover), and the four properties of `registry`. `Dependency` and
`Registry` follow the recursion of the scripts with recursive operators and folds over sequences: with a recursive operator in reach the prover
has no arithmetic, and of a fold nothing can be shown, since its theorems take operators as parameters.

## 6. Not modelled

A lost device, allocation failures and other errors on which the library throws or aborts; debug names,
logging and statistics; what is inside a command buffer. Instance creation, the loader, the shader
compiler, the `vkex` adapters and `GeoLib` have no state to model (straight-line calls, tables, floating-point
arithmetic). Reference counts of handles, descriptor pools, the device's caches and the composition of
the two executors in a `Scheduler` have state of their own and are not modelled yet.

Of the tools: the elements of the registry that the `vkex` generator ignores (SPIR-V, formats, sync, video), enum values,
the dump and validity functions of `reg.py`; the C declarations and the enum bodies of `generator.py`, which are text and mostly not
called by this generator; the conventions (constants and string tests); the asciidoc forms of dependency
expressions; the scripts `check_readme.py`, `package_hash.py`, `run_tests.py`, `update_packages.py` and
`update_references.py`, which are straight lines around one file or one command; the `local` command of
`benchmark.py`, which only runs the executable that is there.

## 7. Plan

1. Done: `SubmitQueue`, `Queue`, `GpuExecutor`, `CpuExecutor`, `Renderer`, `Surface`, `Graph` (with `ListenSender`), `ThreadMap`,
   `WatchServer`, `FileLists`, `Dependency`, `Registry`, `VkexGenerator`, `Benchmark`; `QueueProofs`, `GpuExecutorProofs`, `CpuExecutorProofs`,
   `RendererProofs`, `SurfaceProofs`, `GraphProofs`, `FileListsProofs`, `ToolProofs`.
2. `Scheduler`: the two executors together, a recording function that throws, the order of destruction.
3. `ResourceMap` with `Handle` (counts), `DescriptorPool`, command buffer references; the device's caches.
4. Theorems: `Registry` with its passes stated as relations between what they find and what they leave, so that they can be proved about.
