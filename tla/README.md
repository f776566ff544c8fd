# RT-Thread on the STM32H743 LCD board: a TLA+ model of the kernel

The repository is a board support package: the RT-Thread 4.1.0 kernel, its
device framework and shell, the ST HAL, and a few board drivers, configured by
`rtconfig.h` as a uniprocessor with 32 priorities, hard timers only, semaphores,
mutexes, event sets, mailboxes, message queues, memory pools and the
small-memory heap. The application (`applications/main.c`) blinks a LED. The
logic of the program, and everything in it that is concurrent, is the kernel.
The project models the kernel, its heap and the console's receive path, checks
them with TLC and proves the safety properties of the scheduler, the timers, the
semaphores, the mutexes, the other objects and the heap with TLAPS.

## 1. Inventory

| Part | State | Operations | Hard behaviour | What makes it correct |
|---|---|---|---|---|
| scheduler (`scheduler.c`) | priority table of ready lists, bitmap of levels in use, current thread, lock nest | insert, remove, `rt_schedule`, enter/exit critical | interrupts between a thread's suspension and its `rt_schedule`; the yield flag | bitmap and lists agree, nobody more urgent is ready, a locked scheduler does not switch |
| threads (`thread.c`) | status, yield flag, priority, slice, error, one list node, one timer | create, startup, sleep, yield, suspend, resume, priority, exit, delete, detach | timeouts crossing resumes and deletes; tests made before interrupts are disabled | a thread is on exactly the list its status names |
| tick and interrupts (`clock.c`, `irq.c`, `drv_common.c`) | tick, nest count | `SysTick_Handler`, `rt_tick_increase` | two windows with interrupts enabled inside the handler | slices are shared, timers are checked |
| idle thread (`idle.c`) | defunct list | reclaim | reads the list head outside its critical section | frees only what nothing refers to |
| timers (`timer.c`) | sorted list, wrap-around tick | init, start, stop, detach, delete, control, check | wrap-around; timer functions that change their own timer | fires exactly on time |
| semaphores (`ipc.c`) | value, flag, suspend list | take, trytake, release, reset, detach | release in an interrupt, timeout crossing a release | tokens conserved, no lost wakeup |
| mutexes (`ipc.c`) | owner, hold, original priority, suspend list | take, trytake, release, detach | hand-over, timeouts, priority inheritance | mutual exclusion, inheritance, restoration |
| event sets (`ipc.c`) | set of events, suspend list | send, recv (AND, OR, CLEAR), reset | one send wakes many and consumes | nobody waits for events that are there; each is told what it asked for |
| mailboxes (`ipc.c`) | ring, two offsets, count, two suspend lists | send, send_wait, urgent, recv, reset | waits repeated with the remaining time; a woken caller overtaken | a bounded queue, no lost wakeup |
| message queues (`ipc.c`) | cells on a queue list and a free list, two suspend lists | the same | copies outside the critical section, two critical sections per call | a bounded queue, no cell lost or used twice |
| memory pools (`mempool.c`) | free list through the blocks, count, suspend list | alloc, free, delete | a block freed for one waiter and taken by another | blocks conserved, no lost wakeup |
| completion (`completion.c`) | flag, suspend list | wait, done | the flag is tested before interrupts are disabled; done crosses the timeout | flag and list agree |
| serial receive path and shell (`serial.c`, `shell.c`) | ring, semaphore | interrupt, `finsh_getchar` | a character between the look into the ring and the wait | in order, loss only when full, the shell is woken |
| heap (`mem.c`, `kservice.c`) | row of linked items, lowest free item, statistics | malloc, realloc, free | long sequences of calls; merging on both sides | items tile the heap, what is handed out keeps its room |
| other driver IPC (`waitqueue.c`, `dataqueue.c`, `workqueue.c`, `ringbuffer.c`, `pipe.c`) | lists, rings | wait, push, pop | interrupt against thread | not modelled, see section 8 |
| objects, devices, LCD/SDRAM/GPIO drivers | tables, registers | lookup, I/O | little concurrency of their own | not modelled, see section 8 |

How the parts interact: every IPC object owns a suspend list and calls
`rt_thread_suspend`, `rt_timer_start` and `rt_thread_resume` inside a critical
section (`rt_hw_interrupt_disable .. enable`), then `rt_schedule` outside of it.
A thread has one list node (`tlist`), which is on a ready list, on a suspend
list, on the defunct list or on none, and one one-shot timer whose function,
`_thread_timeout`, runs in the tick interrupt. Everything therefore meets in
the lists, and the interleavings that matter are those of critical sections.

`PROJECT.json` lists the hazards at their lines with the property that covers
each.

## 2. Modules

| Module | Models | Uses |
|---|---|---|
| `LinkedLists` | doubly linked lists as sequences: removal, insertion, order | |
| `Kernel` | the kernel state as a record `k`; each kernel function as an operator from kernel to kernel | `LinkedLists` |
| `Scheduler` | threads, tick interrupt, device interrupt: one action per critical section | `Kernel` |
| `UnguardedCalls` | `rt_thread_delete` with interrupts enabled | `Scheduler` |
| `Mutex` | `rt_mutex_*` | `Scheduler` |
| `Semaphore` | `rt_sem_take`, `release`, `control` | `Scheduler` |
| `SemDetach` | `rt_sem_detach`, `_ipc_list_resume_all` with interrupts enabled | `Semaphore` |
| `Timer` | hard timers with a wrapping tick | `LinkedLists`, refines `Countdown` |
| `Countdown` | what a timer service promises, without ticks that wrap | |
| `TimerQuery` | the queries of `rt_timer_control` | `Timer` |
| `Links` | singly linked lists in memory | |
| `Waiting` | what the waiting calls share: the wait, the rest of a timeout, the interrupt handler that uses the object | `Scheduler`, `Links` |
| `Channel` | parameters of the two queues | `Waiting` |
| `Mailbox` | `rt_mb_*` | `Channel` |
| `MessageQueue` | `rt_mq_*`, both critical sections of each call | `Channel` |
| `Event` | `rt_event_*` | `Waiting` |
| `Mempool` | `rt_mp_*` | `Waiting` |
| `Completion` | `rt_completion_*` | `Waiting` |
| `Serial` | receive interrupt of the serial device, `finsh_rx_ind`, `finsh_getchar` | `Waiting` |
| `Objects` | the composition: threads and a handler that share one of these objects | refines `BoundedQueue` |
| `BoundedQueue` | what a mailbox and a message queue promise | |
| `Heap` | `rt_malloc`, `rt_realloc`, `rt_free`, `plug_holes` | |
| `MC*` | model values and small functions for TLC | |
| `ListLemmas` | lemmas about lists | `LinkedLists` |
| `KernelLemmas` | lemmas about the operators of `Kernel` | `Kernel`, `ListLemmas` |
| `SchedulerProofs` | theorems about `Scheduler`, and what its steps do to waiting threads | `Scheduler`, `KernelLemmas` |
| `SemaphoreProofs`, `MutexProofs` | theorems about `Semaphore`, `Mutex` | `SchedulerProofs` |
| `ObjectsProofs` | theorems about `Objects`: the six objects, and that the two queues implement `BoundedQueue` | `Objects`, `SchedulerProofs` |
| `HeapProofs` | theorems about `Heap` | `Heap`, `ListLemmas` |
| `TimerProofs` | theorems about `Timer` | `ListLemmas` |

### Kernel and Scheduler

`k` holds the C globals and the thread control blocks field by field (the table
is at the top of `Kernel.tla`). `RT_THREAD_STAT_YIELD` is a field of its own,
`yield`, since the code masks it apart from the status. The bitmap is the set
of its bits and `__rt_ffs` is `Min`. `Unlink` is `rt_list_remove(&tlist)`: it
takes the node off whichever list it is on. The bitmap is updated only where
the code does it, in `rt_schedule_insert_thread` and
`rt_schedule_remove_thread`; `rt_list_remove` alone leaves it as it is.

Thread timers are kept as the ticks that remain (`left`), since their only
use is to wake a suspended thread; `Timer` shows that the real, wrapping tick
implements such a countdown.

`Scheduler` makes one action of each critical section. `pc[t]` says where a
thread is between two of them: before the `rt_schedule` that follows a call
(`sched`, `sleep`), after it (`slept`), or, for the idle thread, between
reading the defunct list and unlinking (`reclaim`). `isr` says where the tick
interrupt is: after its critical section with a used-up slice (`expired`, its
`rt_schedule` comes next), before `rt_timer_check` (`tick`), or in its loop
(`check`). Interrupts are enabled in the first two, so a device interrupt may
nest there. A context switch requested in an interrupt is performed by PendSV
when the interrupts end; the model changes `current` in `rt_schedule`, as the
code does with `rt_current_thread`, and lets no thread execute before `isr` is
`none`.

`owed` records that a priority was changed and `rt_schedule` not called since:
`RT_THREAD_CTRL_CHANGE_PRIORITY` does not reschedule, and neither does
`rt_mutex_release` without waiters, which lowers its own priority. `HighestRuns`
says nothing until the next `rt_schedule`.

The calls of `Scheduler` are made the way the kernel's own code makes them:
`rt_thread_resume`, `rt_thread_delete` and `rt_thread_detach` with interrupts
disabled. Called with interrupts enabled they have a window;
`UnguardedCalls` models the one of `rt_thread_delete` and its run shows what
goes wrong in it.

### Mutex, Semaphore

A mutex or semaphore is identified with its suspend list. `held` (mutex) and
`credit` (semaphore) are history variables: what callers have been *told* by
return values, against which the object's own fields are checked. A waiting
call is three actions: suspend and start the timer, `rt_schedule`, and the
return, which reads `thread->error`.

`SemReleaseIrq` is `rt_sem_release` in an interrupt handler, between any two
steps, inside the tick interrupt's open windows too.

### Waiting and the objects that are waited for

`obj` is the object, a record whose `kind` says which of the six it is and which
fields it has; `call[t]` holds the local variables of the call `t` is in, `t`
being a thread or `Handler`, one interrupt handler that makes the calls allowed
there. A waiting call is a loop in the code: `..Round` is one round of it, from
`rt_hw_interrupt_disable` to the end of the critical section, made by the call
(`MbSend`) and again after each wakeup (`MbSendAgain`) with `Rest`, what is left
of the timeout. `k.left` goes on counting down after a timer was stopped, so
`Rest` is `timeout - (rt_tick_get() - tick_delta)`, cut off at 0. A wait that
failed (`thread->error`) ends its call in `WaitFailed`.

Between the two critical sections of a message-queue call (`fill`, `copy`), and
between the two halves of `rt_completion_done`, interrupts are enabled: other
threads run, the handler makes its own calls and the tick comes in. The same
holds for the handler's calls, which the tick may interrupt: `at` records what
the handler has interrupted, and threads stand still until it leaves.

The two queues are mapped to `BoundedQueue` by `Content` (the mails from
`out_offset` on; the messages along the chain from `msg_queue_head`) and
`InHand` (the message of a cell a receiver has unlinked and not yet copied).
That a mapped message stays the same until `Return` is what says that nobody
reuses a cell too early. A message begins to count when it is linked, so an
urgent one may overtake one whose copy began earlier.

In `Mempool` the rest of the time is an action of its own (`MpAwake`), since
`rt_mp_alloc` computes it with interrupts enabled. In `Completion` one thread at
a time waits, which the code asserts while that thread is suspended.

In `Serial` the ring is read by one thread, the shell, and its semaphore is part
of the object (`rx_sem`, waiters in `Receivers`). `RxChar` is one round of the
interrupt's loop; the tick may come in between two rounds.

### Heap

An item is the record of its header, kept under its offset from `heap_ptr`; the
used bit of `pool_ptr` is `used`. `given` is a history variable: what was handed
out and with which size. Calls are single steps because `rt_malloc` and the
others hold the heap mutex, which `Mutex` is about. `SizeAssumption`
excludes a heap smaller than the minimum size, for which the unsigned bound of
the search (`mem.c:314`) would wrap. `heap_end->prev` is kept as
the code keeps it, which is not up to date. The two loops along `next`, for an
item that fits and for the next free one, are `Search`, a recursive function on
the items that ends at the first item of a set; the set holds the items at which
the loop ends without a result too.

### Timer, Countdown

`TickMax` stands for `RT_TICK_MAX` and all arithmetic on ticks is modulo
`TickMax + 1`. A timer function is modelled by the calls it may make:
between `Fire` and `Return` every API call on every timer is possible, the
firing timer included; `popped` is the local list of `rt_timer_check`, by
which the code notices that the function has started, stopped or deleted its
own timer. The refinement mapping takes a linked timer to its remaining
ticks, an unlinked one to `Off`, and `firing` to the timer whose function runs,
so that firing early is not mistaken for a stop; nothing but `TickIncrease`
lets time pass.

Two uses are left out, with a comment at the place: a period of 0 ticks, with
which `rt_timer_check` never leaves its loop, and a timer function that makes
its own timer one-shot, after which the timer is off the list with
`RT_TIMER_FLAG_ACTIVATED` set.

## 3. Runs

| Run | Instance | Shows |
|---|---|---|
| `sched_safety` | idle, main and one thread of main's level; all calls; slice 1, delay 1, lock nest 1; 3 priorities | `TypeOK`, `ListsConsistent`, `HighestRuns`, `LockHolds`, `FreedIsUnused` |
| `sched_live` | idle and three threads of one level; slice 1, delay 1 | `RoundRobin`, `SleepEnds` |
| `mutex_one` | one mutex, three threads of three priorities, hold limit 2, timeouts 1 and forever | mutual exclusion, accounting, no lost wakeup, inheritance and restoration |
| `semaphore` | one semaphore of either flag and any initial value up to 1; three threads of two levels; timeouts 1 and forever | tokens, wakeups, order |
| `timer` | three timers, ticks 0 to 7, periods 1 and 2; symmetric timers | list, flag, order, refinement of `Countdown` |
| `objects` | each of the six objects in turn (one initial state each); idle and two threads of two levels, a handler; timeouts 0, 1 and forever; two messages, two events, two characters (symmetric); capacity 2, two blocks, a ring of 3 | `ImplementsQueue`, `CellsAccounted`, `WaitersServed`, `RestShrinks`, `NoMissedEvent`, `EventReported`, `BlocksAccounted`, `DoneSeen`, `InputSeen`, `InputOrdered` |
| `heap` | 108 bytes, headers of 12, minimum 12, alignment 4, requests of 5, 16, 30 and 52 bytes | `Tiled`, `LowestFree`, `AllocationsHold` |
| `pool_time` | expects a violation; a pool of one block, timeout 2 | a wait that is longer than its time |
| `delete_race` | expects a violation | a deleted thread on a ready list |
| `mutex_nested` | expects a violation; two mutexes | an inherited priority that is never given back |
| `sem_detach` | expects a violation | a list head taken for a thread |
| `timer_query` | expects a violation | `GET_STATE` answers with a tick |

Bounds and why they are enough:

- *Three or four threads.* The kernel's lists are touched two threads at a
  time. `sched_safety` has two threads that can be on the same ready list, on
  the timer list and on the defunct list together, and `SetPriority` moves them
  over all levels, the idle thread's included. `mutex_one` needs an owner and
  two waiters of different urgency, `semaphore` the same; the proofs cover every
  number of threads.
- *Slice 1, delay 1.* Each tick ends a slice and each timeout comes at the next
  tick, which makes the windows collide most often. Longer ones add waiting
  states only. `Delays` may hold any natural number in the proofs.
- *Lock nest 1* (`MaxNest`): the nest count matters only as zero or not; 1 lets
  the outermost exit and an unmatched `rt_exit_critical` happen.
- *Ticks modulo 8, periods 1 and 2.* `Half` is 3, the largest period the
  assertion admits is 2, and every alignment of three timers with the
  wrap-around is reached.
- *Two threads and a handler* (`objects`): a waiter, a second caller that takes
  what the waiter was woken for, and a handler that gives or takes in between
  are three actors at one object, and both threads may wait at once. With one
  more thread the message queue alone exceeds the time of a run. Waiters are
  queued by priority; queueing in order of arrival is checked with the
  semaphore, which uses the same list functions.
- *Capacity 2* lets a queue be empty, partly filled and full, with a cell in a
  caller's hands in each case, and the offsets of the mailbox wrap both ways.
  *Two messages* tell order and identity apart.
- *A ring of 3 characters* holds 2, overflows and wraps; `RxValueMax = 1` is
  reached.
- *Requests* (`heap`): 5 is below the minimum size, 30 unaligned, 52 forces the
  item after it to be too small to split; up to four items at once, with every
  order of freeing, merging and shrinking.
- *`ValueMax = 1`, `HoldMax = 2`*: both limits are reached and refused.

## 4. Fairness

`sched_live` assumes that the tick interrupt keeps coming and that its handler
goes on: `WF_vars(TickStep)`, where one step of the handler is possible in every
state. SysTick is a free-running hardware timer that nothing in the code stops
and its handler is not preempted by threads; that the loop of `rt_timer_check`
ends is not assumed, it follows from each round taking a timer off the list.
No fairness is assumed of threads: a thread may loop for ever in its own code,
call the API for ever, and device interrupts may come at every step. The run
makes no calls that legitimately keep a thread from running: a scheduler lock
that is never left, and a change of priority (`LiveCalls`).

## 5. Properties

- `ListsConsistent`: after each critical section the ready table holds exactly
  the ready threads, once, at their priority; the bitmap has exactly the levels
  in use; who waits or has an active timer is suspended (the assertion in
  `_thread_timeout`); only the current thread is running; the defunct are
  closed; the idle thread can always run.
- `HighestRuns`: a thread that executes its own code with the scheduler
  unlocked and nothing owed is running and no ready thread is more urgent.
- `LockHolds`: with the scheduler locked no step changes the current thread.
- `FreedIsUnused`: what the idle thread frees is closed and on no list, although
  it has read the list head before it disabled interrupts.
- `RoundRobin`, `SleepEnds`: a thread at the most urgent level gets the
  processor again and again; a sleeping thread is woken.
- `HolderIsOwner`, `WaitersHaveOwner`: the return values of `rt_mutex_take` and
  the fields of the mutex tell the same story, also while the heir has not run.
- `PriorityInherited`, `PriorityRestored`, `HandsToMostUrgent`.
- `TokensConserved`, `NoWaitWithTokens`, `UrgentFirst`.
- `ActiveIsLinked`, `Sorted`, `FiresOnTime`.
- `ImplementsQueue`: mailbox and message queue are a bounded queue. Messages
  leave in the order they were linked, urgent ones first, only at the front or
  all together by a reset; none is doubled or changed.
- `CellsAccounted`, `BlocksAccounted`: every cell is in the queue, free, or in
  one caller's hands; every block is free or handed out; the counts the code
  tests are the lengths of the lists it then takes from.
- `WaitersServed`: while threads wait, everything that is there is matched by a
  thread that was woken and is on its way to it.
- `RestShrinks`: a call that is woken and has to wait again ends no later.
- `NoMissedEvent`, `EventReported`; `DoneSeen`; `InputSeen`, `InputOrdered`.
- `Tiled`, `LowestFree`, `AllocationsHold`: the heap's own assertions and the
  statement of its comment that two unused items never follow each other.

Every property of a passing run has a mutant in `PROJECT.json`: a plausible
mistake in one definition (`..._NoReload`, `..._NoWrap` and so on, each
commented "Mistake") under which the property fails.

## 6. Findings

1. `rt_thread_delete` and `rt_thread_detach` unlink the thread before they
   disable interrupts (`thread.c:512`, `409`): `delete_race`.
2. A mutex stores the current, possibly inherited, priority of its taker as the
   original one (`ipc.c:962`): `mutex_nested`.
3. `_ipc_list_resume_all` tests the list outside its critical section
   (`ipc.c:225`): `sem_detach`. The callers that hold interrupts disabled
   (`rt_sem_control`) are not affected.
4. `RT_TIMER_CTRL_GET_STATE` has no `break` (`timer.c:587`): `timer_query`.
5. `rt_mp_alloc` computes the rest of its waiting time outside the critical
   section (`mempool.c:379`): `pool_time`. The calls of `ipc.c` do it inside, and
   `RestShrinks` holds for them.

Seen and not the subject of a run: the comment of `rt_mq_send` (`ipc.c:2905`) has
the two send functions the wrong way round; a completion that is done after its
waiter's timeout, before the waiter runs, is cleared by the waiter
(`completion.c:110`).

## 7. Proofs

Each theorem holds for every value of the constants of its module, under the
named assumptions there, which TLC evaluates in each run: the idle thread has
the lowest priority and the main thread a higher one, slices are positive; there
is a mutex or a semaphore; for counting the threads that were woken only (of the
semaphore and of the objects), the threads are finitely many; an object has the
two lists `Receivers` and `Senders`, the handler is no thread, a queue holds at
least one message and no more than `EntryMax`, a pool has a block, the ring of
the serial device two characters or more (`RT_SERIAL_RB_BUFSZ`); for the heap, the header and the heap are aligned,
the heap has room for an item of the minimum size, and requests are positive.
The set `Calls` of the other calls that threads and handlers make is a constant
too; where a theorem needs some call not to be made, that is a hypothesis of the
theorem.

| Theorem | States | Hypotheses |
|---|---|---|
| `SchedulerProofs`: `AlwaysIInv` | `Spec => []IInv` | |
| `TypeCorrect`, `ListsAlwaysConsistent`, `HighestAlwaysRuns` | `TypeOK`, `ListsConsistent`, `HighestRuns` | |
| `LockAlwaysHolds`, `FreedAlwaysUnused` | the action properties `LockHolds`, `FreedIsUnused` | |
| `TimerProofs`: `TimerTypeCorrect`, `ActiveAlwaysLinked`, `AlwaysSorted` | `TypeOK`, `ActiveIsLinked`, `Sorted` | |
| `AlwaysOnTime` | `Timer` implements `Countdown` (`FiresOnTime`) | |
| `SemaphoreProofs`: `NeverWaitWithTokens`, `SemListsConsistent`, `SemHighestRuns` | `NoWaitWithTokens`, `ListsConsistent`, `HighestRuns` | |
| `TokensAlwaysConserved`, `SemTypeCorrect` | `TokensConserved`, `SemTypeOK` | `WaitersLeftAlone` |
| `AlwaysUrgentFirst` | `UrgentFirst` | no `"priority"` |
| `MutexProofs`: `WaitersAlwaysHaveOwner`, `MutexListsConsistent`, `MutexHighestRuns` | `WaitersHaveOwner`, `ListsConsistent`, `HighestRuns` | |
| `HolderAlwaysOwner`, `MutexTypeCorrect` | `HolderIsOwner`, `MutexTypeOK` | `WaitersLeftAlone` |
| `PriorityAlwaysRestored` | `PriorityRestored` | `OneMutex`, no `"priority"` |
| `PriorityAlwaysInherited`, `AlwaysHandsToMostUrgent` | `PriorityInherited`, the action property `HandsToMostUrgent` | `OneMutex`, no `"priority"`, no `"create"` |
| `ObjectsProofs`: `ObjectsTypeCorrect`, `ObjectsListsConsistent`, `ObjectsHighestRuns` | `ObjectsTypeOK`, `ListsConsistent`, `HighestRuns` | |
| `BlocksAlwaysAccounted`, `NeverMissedEvent`, `InputAlwaysSeen` | `BlocksAccounted`, `NoMissedEvent`, `InputSeen` | |
| `RestAlwaysShrinks`, `InputAlwaysOrdered` | the action properties `RestShrinks`, `InputOrdered` | |
| `WaitersAlwaysServed`, `DoneAlwaysSeen` | `WaitersServed`, `DoneSeen` | `WaitersLeftAlone` |
| `EventAlwaysReported` | the action property `EventReported` | `WaitersLeftAlone` |
| `CellsAlwaysAccounted` | `CellsAccounted` | `NotReplaced` |
| `ObjectsImplementQueue` | `Objects` implements `BoundedQueue` (`ImplementsQueue`) | `NotReplaced` |
| `HeapProofs`: `AlwaysInOrder` | `Spec => []HeapInv(heap, given)` | |
| `HeapTypeCorrect`, `AlwaysTiled`, `AlwaysLowestFree`, `AllocationsAlwaysHold` | `TypeOK`, `Tiled`, `LowestFree`, `AllocationsHold` | |

Why the hypotheses are there; without each of them the property is false of the
code:

- `WaitersLeftAlone` (no `"resume"`, `"delete"`, `"irq"`): `rt_thread_resume`
  takes any suspended thread off its list. One that waits in `rt_sem_take` or
  `rt_mutex_take` then returns with `thread->error` as it was set before the
  wait, `RT_EOK`, without a token or without owning the mutex. A thread deleted
  in its wait takes its place in the account with it. In the same way a thread in
  `rt_event_recv` or `rt_completion_wait` returns although nothing was sent or
  done, and a thread that is deleted after a message woke it leaves the message
  to nobody while others wait for one.
- no `"priority"`: `RT_THREAD_CTRL_CHANGE_PRIORITY` changes the priority of a
  waiting thread and leaves it at its place in the list, and gives an owner a
  priority that is not the one it inherited.
- no `"create"`: a thread made in the memory of an owner that has exited starts
  with its own priority, below that of those who wait.
- `NotReplaced` (no `"create"`): a thread that is deleted between the two critical
  sections of a message-queue call takes its cell with it. As long as it is not
  replaced the model counts the cell as its own; a thread created in the same
  memory does not have it, and the cell is lost to the queue.
- `OneMutex`: with two, the priority stored as the original one may be inherited
  itself, which is finding 2.

### The scheduler

The inductive invariant `IInv` is the types, `Sound(k)`, `Scheduled`,
`ClosedLeaves`, `PickedClosed`, `SuspendedLeaves` and `WaitsUnlocked`. `Sound(k)`
is `ListsConsistent` together with the type of `k`; the operators of `Kernel` are
shown to preserve it one by one, in `KernelLemmas` (insert, remove,
`rt_schedule`, the functions of `thread.c`, the timer list, the suspend lists of
`ipc.c`). It is not inductive for the specification:

- `Scheduled` is `HighestRuns` without its first conjunct: interrupts come
  anywhere, so it must hold wherever the current thread is not about to call
  `rt_schedule`, not only in the thread's own code and outside interrupts.
- `ClosedLeaves`: a closed current thread is about to call `rt_schedule` with
  the scheduler unlocked. Without it a thread that has exited could stay
  current and be made running again by an interrupt while it is on the defunct
  list.
- `PickedClosed`: what the idle thread has read from the defunct list stays
  closed until it is unlinked. Together with `Sound` it says that the entry is
  on no ready, suspend or timer list, which `FreedIsUnused` needs.
- `SuspendedLeaves` and `WaitsUnlocked`: a current thread that is suspended with
  the scheduler unlocked is about to call `rt_schedule`, and a thread in a
  waiting call has not locked the scheduler. So a thread that has come back from
  the `rt_schedule` of its wait is running and on no list.

The labels of the waiting calls (those of `Semaphore`, `Mutex` and `Waiting`) are
in the invariant already (`EveryLabel`, `InWait`), so that `IInv` is preserved by the steps of the modules that extend `Scheduler`,
and the steps of `Scheduler` are described once for all of them: `NextWaiters`
(a step passes the waiting threads by, or the wait of one of them times out),
`NextLists` (a suspend list loses one thread at most), `NextPriorities`. The
steps a waiting call is made of are lemmas of their own: `JoinStep` (the thread
suspends on a list and starts its timer; `EnqueueStep` and `BlockStep` for the
objects), `TakeScheduleStep`, `TakeReturnStep`, `WakeStep` and `WakeHandlerStep`
(the first waiter is resumed).

### Semaphore

`SInv` adds `NoWaitWithTokens` itself to `IInv` and is inductive: a thread joins
a list only when the value is 0, and a release counts a token only when the list
is empty. `TokInv` adds, under `WaitersLeftAlone`, that the threads on the lists
are exactly the suspended ones in `rt_sem_take` (`TakersKept`), each on the list
of the semaphore it asked for and with no error yet (`WaitersMine`). Then a
release adds one thread to those that were granted a token and have not
returned, a timeout adds none, and the return takes one away.
`_ipc_list_resume_all` is a loop; `ResumeAllSound` follows its rounds, by the
least round that would break the invariant.

### Mutex

`MInv`: each mutex is free and nobody waits for it, or it belongs to a thread
that is not on its list. `HInv` adds, under `WaitersLeftAlone`, what links the
return values with the fields: `TakersKept`, `WaitersMine`, and `Outcome`, a wait
that is over returns `RT_EOK` if and only if the thread was made the owner, then
with hold count 1. `HolderIsOwner` alone is not inductive: a timeout that fires
for a thread which has become the owner would break it, and `Outcome` and
`WaitersMine` say that the thread's timer is stopped by then.
`RInv` adds that the stored original priority is the one the owner was given;
`UInv` that the list is sorted, so that the heir is as urgent as those who stay.

### The objects

`Objects` is one of six objects with all of its operations. Each operation is
looked at once: `Outcomes` says that a step of the specification keeps `IInv` and
does to the kernel, the calls and the object one of the things listed in
`Outcome`, such as "a cell leaves the free ones and is in the hands of the caller,
nobody is resumed" or "the count is 0 and the caller waits". What follows about
an object is shown for its outcomes. `Base` is what all of them need beside `IInv`:
a thread on a suspend list is in the wait of a call that this list is for. `BInv` adds the messages and the times the calls hold.

- Mailbox: `MailOk` is the ring, `in_offset` as many words after `out_offset` as `entry`
  says, modulo the capacity. The mails from `out_offset` on are `Content`, and
  `PostedOk`, `PostedFirstOk` and `FetchedOk` say what the three changes do to
  them. `Wrap` replaces the remainder of indices that have gone round at most
  once, so that the arithmetic is linear.
- Message queue: `QueueWith(q, p)` says that the cells of the queue are the
  sequence `q` and the free ones `p`, each linked in that order and ending in
  `Null`, with no cell twice and none of them in the hands of a caller (`Owned`),
  and that no two callers hold the same cell. Each of the four critical sections
  moves one cell between the three; the reset is a loop, followed round by round
  like `_ipc_list_resume_all`. That the walk `Chain` of the model finds these
  sequences is a lemma of its own (`ChainsAre`): a function that follows a path
  without repetition satisfies the recursive equation of the walk, and only one
  function does. `CellsAccounted` is not inductive alone: `Holders` and `Carriers`
  add that a caller has a cell exactly while it is between two critical sections.
- Refinement: in a step of the queue at most one cell changes place, and the
  messages spelled by the others stay (`HandsStep`, `HandsOthers`, `Spelled`). A
  sender that fills its cell writes where no queued message and no message in a
  receiver's hands is; this is where the cells being in one place is used.
- Memory pool: `FreeList(o, s)`: `s` is the chain from `block_list`, the blocks
  whose header does not point to the pool, each once.
- Event set: `NoMissedEvent` is inductive with the types; `rt_event_send` walks
  the list and removes from it while walking, and `SentKernel` and `SentEvents` say
  what holds after each round. `EventReported` is read off the end of the walk.
- Completion: `CompletionOk` adds to `DoneSeen` that at most one thread is in
  `rt_completion_wait`. Without it the one that returns and clears the flag could
  leave another that was resumed without it.
- Serial device: `InputSeen` alone is not inductive, since the shell finds the ring
  empty in one critical section and takes its semaphore in another. `ShellOk` adds
  that in between the semaphore has a token if a character has come, and that it
  has none while the shell waits. `RingOk` is the ring.
- `WaitersServed` counts. `Offered(w)` is compared with the number of threads that
  were woken (`OnWay`), and the lemmas say for each outcome (`Change`) that what is
  offered stays and nobody leaves those that were woken; that one less is offered
  and one thread at most leaves them (only one moves in a step: `Mover`); or that what is offered grows by one and a thread is
  woken for it, if one waits. The invariant needs that a thread on a list has not
  been told of an error (`ErrorsOk`), or the one that is woken would return
  without taking anything; and `TakersKept`, for which `WaitersLeftAlone` is the
  hypothesis.

### Timer

`TInv` adds two facts to the three invariants. `InTime`: no timer on the list is
`Half` ticks away or further, so that the unsigned difference tells past from
future, and none is due when the tick interrupt is over. `PoppedFires`: the local
list of `rt_timer_check` holds a timer only while its function runs, and that
timer is on no other list. Each step is then shown to be a step of `Countdown` or
a stutter.

### Heap

`HeapInv(h, g)` is about any heap `h` and what it has handed out, `g`, because
`rt_realloc` takes a heap through an intermediate one. It is the four invariants
with what they need to be inductive: the links backward of the items that are not
the first (`Row`; `plug_holes` follows `prev`), the header of `heap_end` (used, its
own next), and the `prev` of the first item, which is itself and stops the merge
backward. `AbsorbedRow` and `DividedRow` show that merging two items and splitting
one keep the row; `PlugHoles` that no two free items are left in a row if only
the item `plug_holes` is called with may have a free neighbour, which is what
`rt_smem_free` and `rt_smem_realloc` leave it. `TakenKeeps`, `FreedKeeps` and
`ShrunkKeeps` are the three operations. Two arguments are of interest:

- `SearchIs`: the recursive `Search` is the lowest item of its set from the
  start on. Where `next` leads up, the function that gives the lowest item
  satisfies the recursive equation, and the highest item at which another
  solution differed would not be one; no induction is needed.
- the statistics count bytes, not items: `used` is the number of addresses inside
  the items handed out (`Bytes`), so that splitting and freeing change it by the
  size of an interval.

### Only model-checked

`RoundRobin` and `SleepEnds` (liveness under fairness is beyond the prover). The
five findings are counterexamples and are TLC's. Every invariant, action property
and refinement of the passing runs is a theorem.

## 8. Not modelled

Of the 1.1 million lines of the repository nearly all are the ST HAL and CMSIS
headers for the whole chip family, RT-Thread's ports to other processors, and
components that `rtconfig.h` does not select (network, file systems, USB and
other device classes, libc). They are third-party or are not compiled. The model
is about the few thousand lines of the kernel and of the console path that are.

- SMP variants, signals, `RT_USING_TIMER_SOFT`, slab and memheap are not compiled.
- Stacks, names, hooks, debug output and object containers are left out of the
  modelled functions; no guard depends on them.
- Detach and delete of mutexes, events, mailboxes, message queues and pools.
  They resume the waiters with interrupts enabled, as `rt_sem_detach` does, for
  which `SemDetach` shows the window; afterwards the object is gone.
- Wait queue, data queue, work queue, ring buffers and pipes: the board's
  drivers and application do not use them. Polling and DMA paths of `serial.c`.
- The object and device tables, the shell's line editor and commands: lookup and
  text handling without concurrent state. LCD, SDRAM and GPIO drivers: register
  access.

## 9. Plan

Done: `Kernel`, `Scheduler`, `UnguardedCalls`, `Mutex`, `Semaphore`, `SemDetach`,
`Timer`, `Countdown`, `TimerQuery`, `Waiting` with `Mailbox`, `MessageQueue`,
`Event`, `Mempool`, `Completion`, `Serial` and their composition `Objects`,
`BoundedQueue`, `Heap`; the proofs about `Scheduler`, `Timer`, `Semaphore`,
`Mutex`, `Heap` and `Objects`.

Next, in this order:

1. The unguarded `rt_thread_resume`, `rt_mutex_detach`.
2. Priorities changed while a thread waits in a priority-ordered list.
3. Detach of the six objects, as `SemDetach` has it for the semaphore.
