# A verification development for wwn-iland

wwn-iland lets Linux graphics programs (Weston, kmscube) run on Apple systems and
Android: it replaces libdrm, GBM, EGL, udev and libinput, and it emulates epoll,
eventfd, timerfd and signalfd over kqueue. This directory holds TLA+ models of its
stateful parts, TLC runs that check them on small instances, and TLAPS proofs.

`PROJECT.json` lists components, runs, the source lines of every definition, the
hazards, the findings and the theorems. This file explains them. Paths below are
relative to `src/dependencies/libs/iland/upstream/shims/`.

## 1. Inventory

| Component | State it keeps | Operations | Talks to |
|---|---|---|---|
| Reader/writer lock, `epoll/src/rwlock.c` | two counters, two semaphores, a mutex | lock/unlock read and write, downgrade | guards the descriptor table |
| Descriptor table, `epoll/src/epoll_shim_ctx.c` | `open_files`: number -> reference-counted description with a mutex; the step-detector thread's generation | create, install, drop, find, read, write, close, poll, fcntl | the kernel's numbers, epoll instances (a close removes the number from all) |
| epoll instance, `epoll/src/epoll.c`, `epollfd_ctx.c` | registered descriptors, the list of poll-only ones, `nr_polling_threads`, a kqueue | `epoll_ctl`, `epoll_wait` | kqueue, `ppoll`, descriptions registered with it |
| eventfd, timerfd, signalfd, `epoll/src/*fd.c`, `*fd_ctx.c`, `kqueue_event.c` | counter; timer, expirations, clock offset; signal mask | create, read, write, settime, gettime, poll, fcntl, close | a kqueue each, the step detector, the signal queue |
| Step detector, in `epoll_shim_ctx.c` and `timerfd.c` | how many realtime timers, a generation, a detached thread | join, leave, tell all | the clock, every open timerfd |
| Compatibility functions, `epoll/src/compat_*.c`, `wrap.c` | none between calls | `ppoll` over `poll`, flags of `socket`, `pipe2`, ... | signals, kqueue |
| DRM buffers, `drm/drm/src/drm_linux.c`, `gbm/src/gbm.m` | dumb buffers, GBM handle table, framebuffers | create, destroy, AddFB, RmFB | IOSurface reference counts |
| DRM presentation, `drm_linux.c`, `drm_ioctl.c`, `drm.c` | CRTC state, object properties, pending flip data, event pipe, pooled requests | SetCrtc, PageFlip, atomic commit (libdrm and ioctl), HandleEvent | the host's present callback (Mode A) or framebufferd by Mach message (Mode B) |
| framebufferd, `drm/framebufferd/src/main.m` | the latest client surface, a dirty flag | receive, present on a timer | clients by Mach message, the display server |
| GBM surfaces and EGL, `gbm.m`, `egl/src/egl.c` | a ring of buffers with read and write index and a count; the render target | create, swap, lock front, release | ANGLE, DRM buffers |
| inputd, `libinput/input-daemon/inputd.c` | table of clients and its lock, accumulated motion | subscribe, broadcast, flush, shut down | the HID system, a Mach port per client |
| libinput, `libinput/input/libinput.c` | devices, key and button state, event queue, pipe, a receiving thread | create, dispatch, get_event, unref | inputd, the client's event loop |
| Start-up, `wayland-mac.c` | the daemons' executables on disk | extract, spawn, wait for the services | the bootstrap server, other processes that load |
| Stubs and hooks (udev, glibc, wayland-server), Android port, symbol resolver, AMFI handler, build scripts | set once or none | | |

What makes them hard, and what makes them correct:

* **Lock**: readers and a writer race on two counters that are read in different
  orders. Correct: exclusion; exactly one token for each sleeper; everyone enters.
* **Table**: a close takes the mutex of *every* epoll instance without holding
  references, while other threads hold references without the table's lock, and the
  application may close a number behind the shim's back. Correct: references equal
  uses, no mutex is destroyed under its owner, a closed number is forgotten by all
  instances, no deadlock.
* **epoll instance**: a thread inside `ppoll` uses a copy of a list others change.
  Correct: nobody polls a stale copy, no wakeup is lost, one-shot events go to one
  thread, the thread that changes the list gets out again.
* **DRM buffers**: one surface has up to three kinds of owners that go away in any
  order, one table keeps bare pointers, and two name spaces of handles share one
  lookup. Correct: a surface lives as long as its owners; a framebuffer shows the
  buffer it was made from.
* **DRM presentation**: completion is signalled by a byte in a pipe and a global,
  failures happen half way, the consumer can change between a flip and its event.
  Correct: one event for each flip, with its data; what completes was shown.
* **eventfd, signalfd, timerfd**: a kqueue event that a thread sets and clears by hand
  stands for state that changes under another lock, in another process, or with time.
  Correct: what is due makes the descriptor readable whatever came before, and what is
  read is what happened (a counter neither loses nor invents, a timer counts every
  period once).
* **Step detector**: a detached thread that is only told by a number that it is no
  longer wanted. Correct: one detector, no step untold.
* **One registered file**: Linux's event bits are made of kqueue filters that are
  changed as ends of file are learnt. Correct: nothing due is waited for with a filter
  that does not show it, nothing is reported that was not so, no endless retry.
* **ppoll**: the signal mask and the sleep are two system calls. Correct: a signal in
  between ends the sleep.
* **Frames**: the client draws on without being told what the screen uses, and the
  presenting thread clears its flag without the lock. Correct: the frame flipped to is
  the one drawn, a frame underway stays intact while the ring allows, the last one
  is shown, surfaces are held by whoever uses them.
* **Input**: the daemon sends under a lock without a timeout, clients die at any time,
  a byte in a pipe stands for events in a queue. Correct: no wakeup is lost, keys do
  not stick, clients that stop do not stop the others.
* **Start-up**: processes overwrite the executables others start. Correct: all load.

## 2. Modules

| Module | Models | Notes |
|---|---|---|
| `AbstractRWLock` | what a reader/writer lock promises | refined by `RWLock`, used by `FdTable` |
| `RWLock` | `rwlock.c`, one atomic operation per step | `RWLock_proofs` proves about it |
| `FdTable` | `epoll_shim_ctx.c`'s table with the double lookup of `epoll_ctl` and any call that works on a description | uses `AbstractRWLock` as its lock |
| `LockOrder` | which locks the calls of the epoll shim take while they hold others, and where they sleep with one held | over `FdTable`'s locks and all kinds of descriptors |
| `EpollWait` | one instance: `epoll_ctl`, `epoll_wait`, repoll | the kqueue and the files are external |
| `DrmBuffers` | buffers, handle table, framebuffers, surface references | `DrmBuffers_proofs` proves about it |
| `DrmKms` | flips, commits, events, the two consumers | framebuffers of `DrmBuffers` are ids here |
| `AbstractEventFd` | what an eventfd promises: a counter and who waits for it | refined by `EventFd` |
| `KQueueEvent` | `kqueue_event.c`, as operators | used by the next three |
| `EventFd`, `SignalFd`, `TimerFd` | one descriptor of each kind and the threads that use it | the kernel's signals and clock are external |
| `StepDetector` | the detection of clock steps, `epoll_shim_ctx.c` | with the calls of `timerfd.c` that join and leave |
| `EpollNode` | one registered file: needed filters, `feed_event`, EOF states, `epoll_wait`'s retry | the file and the kqueue's filters are external |
| `CompatPpoll` | `compat_ppoll.c`, one system call per step | |
| `EventSources` | composes the last six: a behaviour is about one of them | descriptors share no state beyond what `FdTable` and `EpollWait` model; `EventSources_proofs` proves about the six |
| `FramePipeline` | EGL, the ring, the client's loop, `drm.c`'s port cache, framebufferd | |
| `Startup` | the constructor of `wayland-mac.c`, several processes | |
| `Session` | composes `Startup` and `FramePipeline`: the copy of framebufferd that registers takes the frames; another process starts the next one | |
| `Input` | inputd and any number of libinput clients | |
| `*_proofs` | theorems of the module they are named after | |
| `MC*` | constants and symmetry for TLC | |

How state corresponds to code: variables carry the names of the C variables
(`open_files`, `g_dumb`, `nr_polling_threads`, `g_pending_flip_data`, ...). Tables
searched by key are sets of entries or functions. `pc` says where a thread is in its
call where calls of several threads interleave (all modules of the epoll shim; in
`TimerFd` it is `inside`, as the owner of the mutex is alone there);
the two DRM modules have one client thread, as every client in the repository, so
that a call is one step and what interleaves is the host, framebufferd and the
pipe. `PROJECT.json`'s map names the lines of each definition.

Definitions named `Mut...` are deliberate bugs: each shows that the property it is
listed with in `PROJECT.json` notices the mistake. No run uses them.

### RWLock and AbstractRWLock
`num_pending` counts readers, less a bias while a writer has announced itself;
`readers_departing` counts the readers the writer waits for. Every `atomic_fetch_*`,
semaphore and mutex call is a step. `ImplementsRWLock` maps a thread to "read" from
the moment its downgrade removes the bias. `EveryoneEnters` is about each thread: a
reader asleep behind a writer, and a writer that waits for the readers or for the
mutex of the writers before it.

### FdTable
A description's life: `create` under the write lock (which first releases a stale
slot), `find` under the read lock, use under its mutex, unlist and destroy. Sections
that only read under the read lock are one step, taken when a reader could hold the
lock, which refinement of `AbstractRWLock` by `RWLock` makes sound. `AppFds` are the
numbers the application also opens and closes without the shim. An eventfd without a
poll function behaves in an instance like a descriptor without a description
(its pollable is NULL), so that one kind of pollable suffices. What is done under a
description's mutex is one step here: references and slots do not change in it. The
waits in it are the subject of `LockOrder`.

### LockOrder
Every call of the epoll shim reduced to the locks it takes and what it waits for with them:
the table's lock, the mutex of each epollfd, signalfd and timerfd, the threads inside
`ppoll` (`trigger_repoll` waits for them with the instance's mutex), and a signal
(`sigwait` with the signalfd's mutex). An `epoll_ctl` or `epoll_wait` polls descriptors with
the instance's mutex, which takes theirs; `poll` and the step detector poll under the
table's read lock. A close has the read lock after its downgrade and takes the mutexes of
all epollfds in the order of their numbers. Which descriptors are registered where
and what the calls return is left to the other modules, so a call may poll any of them.

### EpollWait
A descriptor's file is idle, ready or closed. `Active` is what kqueue would return;
an event of a kqueue registration disappears when its file is no longer ready, one of
a poll-only registration is a user event that the thread triggers itself and checks
with `poll` when it takes it. Between `trigger_repoll`'s two halves (`Repoll`,
`Repolled`) the thread keeps the instance's mutex. Only readability is modelled.

### DrmBuffers and DrmKms
A call that fails leaves the state alone and is left out where it cannot be observed. In
`DrmKms` a request is a sequence of settings; FB_ID of the primary and the cursor plane
and the cursor's position are the only ones with an effect beyond being stored. A
position is sent when it has changed since the last one that was sent, to the cursor
callback if there is one, else to framebufferd, which drops it (`main.m:132`): so the
host behind the callback (`host_cursor`) is the one that may have a wrong position.
`owed`, what the client waits for, and `cursor_to` and `host_cursor`, who was sent the
last position and what the host has, are the variables the code does not have; they say
what an event and a cursor should be. The event pipe is assumed prepared
(`iland_drm_prepare_virtual_fd` or the hook in `wayland-mac.c` has run), and clients
name framebuffers they have when they flip.

### EventFd, SignalFd, TimerFd
Each section under the description's mutex is a step of `EventFd`, where nothing but
the calls changes the state. In `SignalFd` signals come and go between any two system
calls of a section, so these are steps and the mutex is a variable. In `TimerFd` time
passes and the clock is stepped between system calls; a section is cut where that
makes a difference, and `inside` is what it has on its stack at the cut. A read,
`poll` and `ppoll` of each kind, and `fcntl`'s O_NONBLOCK, are actions. `lost` in
`TimerFd` marks the two places in which the code itself gives the event up (an
expired one-shot whose `gettime` disarmed it, an interval after ECANCELED).
Times are small naturals: the arithmetic on `timespec` is left out. `tally` is not in
the code: it has the first expiration of the timer since it was set and the sum of what
its reads have returned, for `ExpirationsExact` to compare with the clock.

### StepDetector
Every step of the clock gives `offset` a new value, so a step and its reversal within
one second, which the code misses by comparing values, is not a behaviour; nor does
the detector see a step between a timer's settime and its own start (`missed`) or any
step if its thread cannot be created (`failed`: the code calls it "best effort").

### EpollNode
`file` is what a file is: its kind, what can be read and written, what has ended. The
registered filters are derived from it as in `get_needed_filters`; `kevs` are the kevents
that `epoll_wait` has retrieved and not yet fed. The file changes between any two of
these steps. Out-of-band data is left out.

### CompatPpoll
The fast paths and the timeout's conversion are in `Watched` and the three timeouts
(zero, finite, infinite); a signal is a member of `Caught` or of `Restarted`.

### FramePipeline, Startup, Session
A frame is a number, an IOSurface the frame in it. `refused` are the buffers ANGLE
cannot bind; with all or none of them refused (as ANGLE does, by format) the two modes of
`eglSwapBuffers` result. The client's loop is kmscube's in Mode B. `incarnation` tells
the processes of framebufferd apart, as a Mach port does; a port dies with its
queue. In `Startup` an executable is `short` from the open with O_TRUNC to the
write; a spawn of one that is short fails, one of an executable that another process has
open may fail, and copies that were started from a
file that is then truncated may or may not live.

### Input
A port holds `PortLimit` messages and a pipe `PipeLimit` bytes; both block their writer.
The daemon's server thread and its HID thread each have a list `todo` of what they still
send; `client_lock` is held for one message to all clients. A client's process may end
at any moment. `held` is not in the code: it is what the client has been told is down.
libinput keeps the buttons as bits `button & 31`; the model's buttons are such that no two
share a bit, as up to 32 buttons of a mouse are.

## 3. Runs

| Run | Checks | Instance |
|---|---|---|
| `rwlock` | `MutualExclusion Accounting`, `ImplementsRWLock`, `EveryoneEnters` | 4 threads: two readers, an active and a waiting writer at once |
| `fdtable` | `ReferencesCounted MutexOutlivesOwner ClosedForgotten` | 2 threads, 3 numbers, one of which the application also opens and closes itself, 2 descriptions: two instances, or one and a target, or an address reused while another thread still holds the number |
| `lock_order` | `CallsReturn` | 3 threads, two epollfds and a signalfd: a closer, a thread with an instance's mutex and one inside `ppoll`, or in `sigwait`, at once |
| `epoll_wait` | `PollersCurrent OneshotOnce` | 2 waiting threads, 1 controller, a poll-only and a kqueue descriptor, room for one event |
| `epoll_served` | `WaiterServed RepollEnds` | the same with one-shot registrations only, under fairness |
| `event_sources` | `CounterReadable`, `ImplementsCounter`; `PendingReadable`; `EventArmed ExpirationsExact`; `OneDetector StepTold`; `DueReadable ReportsTrue PassEnds`; `SignalEndsWait` | see below |
| `drm_buffers` | `SurfacesCounted GbmTableLive FbShowsItsBuffer` | 3 surfaces, tables of 2, 2 and 3 entries so that each can be full |
| `drm_kms` | `PendingIsNext EventsInPipe CompletedFramesShown CursorFollows` | 2 framebuffers, one flip in flight, five requests, three of them through the ioctl too |
| `session` | `FlipsLastDrawn RingKeepsFrames SurfacesRetained FailsOnlyInOutage`, `FlipShown LoadEnds` | 2 processes, one of which draws 5 frames with a ring of 3; framebufferd dies at most once |
| `input` | `QueueReadable KeysAgree`, `ClientServed EventsSent` | 2 clients, both subscribed, one button, ports and pipes that hold 1, an event with up to 2 changes of the button (or motion, or the signal to end) |
| `drm_handle_clash` | violates `FbShowsItsBuffer` | surface ids that overlap the dumb handles |
| `drm_atomic_pool` | violates `IoctlFramesShown` | commits through the ioctl, room for 2 settings |

`event_sources` has, by what the first step chooses: two readers of an eventfd with counter up
to 2 (so that the limit, an exact fit and an overflow all occur); two threads on a signalfd
with 2 signals; one reader and one that sets a timer of either clock over 3 ticks with one-shot
settings, periods of 2 and two clock offsets (a second period within one read, one counted by
`gettime` before it, a step to the past and to the future); two timers joining and leaving two
generations of the detector with 3 clock offsets; a file of each kind in each registration mode
with every interest that makes a difference; and `ppoll` with every mask over one signal that
interrupts and one that does not. What one of them does cannot be disturbed by another, so one
run checks them all.

Bounds that are the model's and not the code's: `MaxReaders` (the bias, 2^30 in the code; 8 is
above the number of threads, all that matters), `MaxHandle`, `MaxFb` (ids are counters that are
never reused), `MaxPipe` (a write to a full pipe blocks for ever), `MaxOutstanding` (what the
client does), `MaxCounter` (2^64-2 in the code), `MaxTime`, `MaxOffset`, `MaxGeneration` (time,
steps and generations end), `MaxFrames` (more than the ring has buffers, so that it goes
round), `MaxDeaths`, `MaxInputs` and `MaxChildren` (a press and a release in one event),
`PortLimit` and `PipeLimit` (small, so that writers block). `MAX_DUMB_BUFS`, `MAX_GBM_BUFS`,
`MAX_FBS` and `MAX_ATOMIC_PROPS` are 64 in the code, `MAX_CLIENTS` 4 and `MAX_DEVICES` 8, and
scaled down so that tables fill within few steps; only `MAX_CLIENTS` is the number of clients
in the run, so that both are sent to (a third makes the run too long, and one the table has no
room for is never sent a broadcast). The safety theorems of `Input_proofs` are for any
`MAX_CLIENTS`. A single controller suffices in `epoll_wait` because `epoll_ctl` runs under the
mutex from start to end and waits in one place only.

Deadlock checking is off in `drm_buffers`, where ids run out at `MaxHandle`; in
`event_sources`, where time, steps and generations end; in `session`, which stops with the last
frame or a failed flip; and in `input`, which stops when all processes have ended.

Fairness. `rwlock`: every thread inside a call goes on; the callers themselves unlock
eventually; a reader asleep on the readers' semaphore and a writer blocked on the
writers' mutex get it if it comes up again and again (strong, for each thread).
`lock_order`: the same for the table's lock and the mutexes, a thread that waits for
nothing goes on, and one whose kqueue is triggered leaves `ppoll`, as `RepollEnds` says;
nothing starts calls, makes files ready or sends signals.
`epoll_served`: the same, and nothing makes files ready, time out, call `epoll_ctl` or
`epoll_wait`. Strong fairness is what a mutex or semaphore that does not starve its
waiters gives; the code relies on pthread and kernel locks for it and has no other
mechanism. `event_sources`: a thread inside a read of an eventfd, inside `epoll_wait`, or
reporting to the step detector goes on (weak); the detector thread wakes, and gets a
mutex that is free again and again (strong). `session`: processes that load, daemons that
were started and framebufferd's threads go on; the client, signals and deaths are not
fair. `input`: the daemon's threads go on, a client with a context polls, dispatches and
gets its events; the HID system, subscriptions and deaths are not fair. That a process
which has released its context ends is not assumed: `EventsSent` excepts, by name
(`Abandons`), the one that does not and leaves a full port behind.

## 4. What the runs show about the code

The locks, the tables, the waits, the descriptors, the frames and the input queue hold up.
Two places do not do what the repository says, and have a run that shows it:

1. **Handle clash** (`drm_linux.c:583`): the handle of a GBM buffer (an IOSurface id)
   that equals a dumb buffer's handle resolves to the dumb buffer.
2. **Pooled atomic requests** (`drm_ioctl.c:417`): settings accumulate from commit to
   commit, and once the request is full new ones are dropped without an error.

Further observations, met while the code was read, which the models have as they are:

* **DRM**: only one flip's user data is kept ("only one outstanding flip at a time",
  `drm_linux.c:217`), nothing refuses a second; `MaxOutstanding` is 1 for that reason.
  Test-only commits (`drm_linux.c:1419`) are applied and presented. A commit in Mode B
  completes even if framebufferd did not get the frame (an exception in
  `CompletedFramesShown`). A cursor position that is set while no callback is registered
  goes to framebufferd, which ignores it, and is not sent again when a callback comes
  (the premise of `CursorFollows`). The ioctl's pool is read and written without a lock.
* **epoll**: an edge-triggered poll-only descriptor behaves as a level-triggered one.
  The write end of a FIFO registered edge-triggered while nobody reads is told
  so once, and its write filter is not tried again when a reader comes (the exception
  in `Armed`). A thread cancelled in `ppoll` stays counted in `nr_polling_threads`.
* **eventfd**: a write of 0 makes the descriptor readable with counter 0, until the next
  read; a write that does not fit returns EAGAIN from a blocking descriptor too.
* **signalfd**: on Apple systems a reader whose signal is taken by another thread
  between the look and `sigwait` blocks with the description's mutex held. Whoever then
  polls the descriptor waits for it with what it holds: `epoll_ctl` and `epoll_wait` with
  the mutex of the instance, `poll` with the table's read lock, and a close behind those.
  `CallsReturn` has this as its one exception.
* **timerfd**: `gettime` of an expired one-shot disarms it, and the expiration is never read;
  of an interval timer it only counts, and the next read returns what it counted. A
  non-blocking read of an absolute realtime timer notes a clock step and returns EAGAIN without
  rearming. After ECANCELED the interval timer's event is not registered again.
* **Step detector**: see `missed` and `failed` above; a failed start is not retried.
* **Frames**: a flip completes when it is sent, and nothing tells the client when a
  buffer has left the screen; `RingKeepsFrames` says how far that carries. If ANGLE bound
  only some buffers, `eglSwapBuffers` would publish a stale one (`MCRefusals` has
  all or none). What is queued when framebufferd ends is lost although its flips completed.
* **Input**: a subscription announces the devices to everybody again; the slots of dead
  clients are not freed; a live client that has released its context blocks
  the daemon when its port is full; a failed connection is not retried.
* **Start-up**: a process that finds framebufferd registered does not wait for inputd;
  if the extraction fails it waits for ever; a dead daemon is started again only by a
  process that loads.
* **ppoll**: a timeout that does not fit an `int` of milliseconds becomes infinite.

## 5. Proofs

Every safety property of the passing runs is a theorem for all values of the constants:
the invariants, the action property `ExpirationsExact`, and the two refinements (of the
one whose specification states fairness, the part without). What is assumed of the
constants are the `ASSUME` of the module and, where it says so below, a hypothesis of the
theorem. `*_proofs` modules are laid out alike: the inductive invariant as named parts,
lemmas about the operators, a lemma for each action, the theorems last.

### The lock: `RWLock_proofs`
For every finite set of threads smaller than the bias (`RWLockAssumption`):

* `AccountingInvariant`: `TypeOK` and `MutualExclusion` are not inductive; `Accounting`
  says how the counters and semaphores account for the threads at each point of the
  writer's progress, and is. The proof has one lemma for each action, over lemmas that
  say how the number of threads at a point changes when one moves.
* `MutualExclusionInvariant`: a writer inside implies `Active = 0`.
* `Refinement`: each step maps to a step of `AbstractRWLock` or stutters.

### The descriptor table: `FdTable_proofs`
For any finite sets of threads, numbers and descriptions, whatever numbers the
application closes itself. The inductive invariant `FdInv` (`FdInvariant`) says

* who has the table's lock at each step (`LockHeld`) and whose the mutexes are
  (`MutexOf`): a closer has those of the table's epollfds and of nothing else;
* what a call refers to at each step and what kind of description that is (`CallOf`,
  `NodesInv`): nodes are in epollfds only and refer to descriptions that are not, so
  that destroying a description destroys no further one, which is why the code's
  recursive `unref` ends after one level;
* that every count is the number of references (`ReferencesCounted`), and what a closer
  has unlisted so far (`ForgottenOf`).

`ReferencesCountedInvariant` and `ClosedForgottenInvariant` are parts of it;
`MutexOutlivesOwnerInvariant` follows from `MutexOf` and the counts. The counts are
cardinalities of four sets; the lemmas about them say what one slot, one node or one call
more or less does, and what all nodes of the destroyed epollfds together do.

### An epoll instance: `EpollWait_proofs`
For every set of threads and descriptors (`EpollWaitAssumption`):

* `PollersCurrentInvariant`: `PollersCurrent` speaks of the moments when the mutex is free
  and is not inductive. `RepollInv` adds what makes it so: `nr_polling_threads` counts
  the threads inside `ppoll` (`Counted`), whoever waits in `trigger_repoll` or retrieves
  holds the mutex (`Holding`), and a thread in `ppoll` can have an old list only while
  another waits (`Current`). That waiting ends with a count of zero is why the lists are
  current again when the mutex is released.
* `OneshotOnceInvariant`, from the types in `RepollInv`.

### What is waited for: `EventSources_proofs`
The theorems are about `SourcesSpec`. `SourcesInv` has each component either at rest or in
its own invariant, and whichever a behaviour is about, the others stay at rest.

* eventfd: `CounterReadableInvariant` needs that the kqueue event is raised, or lowered with
  an empty counter (`InStep`), and that nobody is inside a call of a closed descriptor
  (`ClosedIdle`). `CounterRefinement`: the initial states and the steps map to those of
  `AbstractEventFd`, the safety part of `ImplementsCounter`.
* signalfd: `PendingReadableInvariant`; the event may be out of step with the signals only
  at the steps in which a reader has the mutex and has still to look again (`SignalInv`).
* timerfd: `EventArmedInvariant` speaks of a timer nobody is inside of. `TimerInv` adds what
  is on the stack inside: a settime's event is right for the clock as it read it
  (`InSettime`), a read has taken what had fired (`InRead`), a change waits for the
  timers that jump only (`InChange`). `ExpirationsExactHolds` needs `TallyInv`: the next
  expiration is the first one and as many periods as the reads have returned and as are
  counted and unread (`Tallied`), and the last of those has ended (`Begun`). Every section
  keeps it by the arithmetic of `update_to_current_time` (`CountingTallies`), and when a
  read ends it says that what was returned is what has ended (`PeriodsEnded`).
* Step detector (finite `Timers`): `OneDetectorInvariant`; `DetectorInv` adds that `nr_fds`
  is the number of timers that joined and that no thread is of a later generation.
* One registered file (`Interests` has bits of EPOLLIN, EPOLLOUT and EPOLLRDHUP, which the
  code masks for): `ReportsTrueInvariant` and `DueReadableInvariant` from `NodeInv`, the longest
  of the invariants. `TrueInv` is what a retrieved kevent says and what the file had
  since. For level triggering (`LevelInv`) the registered filters are the needed ones
  (`AsNeeded`) and an end that a filter cannot show any more is on its way (`EndsSeen`).
  For edge triggering (`EdgeInv`) what came up and was not reported is in `revents`, in a
  kevent that is not fed yet, or in a filter that has fired and stands for it (`EdgeTold`);
  a socket needs beyond that where the events of a completed pair come from (`EdgeGot`) and
  that no end of a direction is overlooked when `register_for_completion` removes a filter
  (`EdgeNoticed`). The lemmas about `get_needed_filters` say, for each kind of file, which
  filter shows which event, and that for other files than sockets what is needed does
  not depend on what has ended (`EdgeIndependent`).
* ppoll: `SignalEndsWaitInvariant` follows the order of the calls in `compat_ppoll`: the kqueue
  watches before the pending signals are looked at (`Watching`), they are looked at
  before the mask changes (`Remembered`), and a handler that runs after that has made the
  kqueue readable (`Told`).

### Buffers and presentation: `DrmBuffers_proofs`, `DrmKms_proofs`
For every finite set of surfaces with distinct ids and every size of the tables
(`DrmBuffersAssumption`):

* `SurfacesCountedInvariant`. The strengthening `Counters` says that handles and
  framebuffer ids are below their counters, so what a call adds is a new entry; the
  lemmas `CountAdd` and `CountRemove` say what one entry more or less does to the count
  of a surface.
* `GbmTableLiveInvariant` needs the first one: a surface that is created has no owner, so
  no entry of the table can have its id, and the branch of the code that replaces an
  entry is never taken.
* `FbShowsItsBufferInvariant` under `IdsApart`, the surface ids exceed every dumb handle.
  The code does nothing to make it so; the run `drm_handle_clash` shows what happens
  without it.

For any framebuffers, requests, positions and consumers (`DrmKmsAssumption`; a request has
room for at least one setting):

* `EventsInPipeInvariant` for a client that asks for the event of every flip (`EventFlips`,
  what the run uses and the clients in the repository do: without it the code writes a
  byte nobody waits for).
* `PendingIsNextInvariant` if it has one flip in flight as well (`OneInFlight`): there is
  one `g_pending_flip_data` for all flips.
* `CompletedFramesShownInvariant` under `OneInFlight`, for requests of any length: the frame
  a commit shows is the last FB_ID among its settings.
* `CursorFollowsInvariant`, with no assumption: `CursorInv` says beside it that the position
  sent last is the plane's, whoever it went to.

### Frames: `Session_proofs`
For a ring of any size, any number of processes and any lives and deaths of framebufferd:

* `FlipsLastDrawnInvariant` under `AllOrNone`, ANGLE can bind every buffer of a surface or
  none (they have one format and size). `RingInv` says what each place in the client's
  loop means for the ring and for the render target.
* `SurfacesRetainedInvariant` needs that only surfaces of the ring are sent (`LockedInv`) and
  counts the three holders: the message received, the client's current surface, and what
  the timer presents.
* `RingKeepsFramesInvariant` under `AllOrNone`. Beside the last two it needs where in the ring a
  surface on its way is (`KeepsInv`): as many buffers behind `write_idx` as its frame is
  old, until the ring has gone round.
* `FailsOnlyInOutageInvariant`: `FailsInv` says at each step of `send_msg` which port may be
  stale.

### Input: `Input_proofs`
For any clients, devices and limits:

* `QueueReadableInvariant` needs that a process without a context has no thread and nothing
  queued (`NotYet`).
* `KeysAgreeInvariant`. `Agree` for one client and key is inductive over the types in `SentTypes`
  (`Broadcasting`: the thread with the lock is at a message to all); the two lemmas that
  carry it say what an event more at the end and one less at the head of the queue
  does to what is down by it.

### Only model-checked
* Liveness and everything with fairness: `EveryoneEnters`, `CallsReturn`, `WaiterServed`,
  `RepollEnds`, `StepTold`, `PassEnds`, `ClientServed`, `EventsSent`, `FlipShown`, `LoadEnds`,
  and the fairness of `ImplementsCounter`. TLAPS proves neither ENABLED nor what rests on it.
* The two runs that expect a violation, which are counterexamples.
* Composition: `FdTable` uses `AbstractRWLock`, which `RWLock` is proved to implement;
  that a section which only reads may be one step is argued in section 2.

The library's induction theorems take an operator and cannot be used. Where a proof needs
the last FB_ID of a request or the least number of a set, it takes a minimal element by
`WFMin` and the order of the naturals instead. No module declares a recursive operator.

## 6. Not modelled

* Build scripts, the symbol resolver, the AMFI handler, the stubs of udev, glibc and
  wayland-server: no state after start, or pure platform I/O.
* The Android port (`android/`): GBM and IOSurface over heap memory with the table
  discipline of `gbm.m`, which `DrmBuffers` models; its lines are not claimed.
* IOSurface property lists, mode and connector enumeration, property and blob tables,
  query calls of DRM and EGL: functions of constants.
* `poll` over several descriptors of the shim in one call, `EPOLLPRI`, epoll instances in
  epoll instances; `kevent` failing.
* Values of input events, touch frames, HID matching, libinput's accessors.
* Thread cancellation and fork.
