---------------------------- MODULE SignalStream ----------------------------
(***************************************************************************)
(* examples/src/coro/async_signal2.cpp: a Signal whose handlers feed        *)
(* AsyncQueues, on one io_context thread (asio_pool_init(1)).             *)
(*                                                                         *)
(*  - ModuleA's task loops: async_sleep(1500), then emit("/a", x, y).      *)
(*  - ModuleB's on_a prints the pair.                                     *)
(*  - ModuleC's on_a pushes it to ModuleC's AsyncQueue; its               *)
(*    background_task loops: pop, async_sleep(500), print the list.       *)
(*  - async_background_task makes a SignalStream, whose constructor       *)
(*    registers a handler pushing to the stream's AsyncQueue, then loops: *)
(*    async_wait (the queue's pop), print the list.                       *)
(*                                                                         *)
(* The io_context runs ready handlers in FIFO order, one at a time: a     *)
(* coroutine runs from one suspension (async_sleep, the async_wait of     *)
(* pop) to the next in one step.  emit calls the handlers inline; push's  *)
(* wake dispatches timer_.cancel() to a strand that is free on this       *)
(* thread, so it runs inline and makes the pending async_wait's           *)
(* completion ready.  A timer may expire at any moment (time itself is   *)
(* not modelled).  The pair emitted by the k-th emit is the item k.      *)
(***************************************************************************)
EXTENDS Naturals, Sequences
LOCAL INSTANCE SequencesExt

CONSTANTS ModA, ModB, ModC, Stream,  \* the three modules and async_background_task
          MaxEmits                   \* bound on the iterations of ModuleA's loop

\* The subscribers with an AsyncQueue, the coroutines, the printers.
Owners == {ModC, Stream}
Coroutines == {ModA, ModC, Stream}
Printers == {ModB, ModC, Stream}

VARIABLES registry,  \* the subscribers registered on "/a"
          queue,     \* queue[o]: queue_ of o's AsyncQueue
          waiting,   \* owners whose pop has an async_wait pending on timer_
          ready,     \* the io_context's ready handlers: the coroutines to resume
          pc,        \* where each coroutine is suspended
          held,      \* the list ModuleC's pop returned, printed after the sleep
          printed,   \* printed[p]: the items p has printed, in order
          emits      \* the emits made so far

vars == <<registry, queue, waiting, ready, pc, held, printed, emits>>

Emitted == [k \in 1..emits |-> k]

\* main: ModuleB and ModuleC register, then the co_spawns of ModuleA's task,
\* ModuleC's background_task and async_background_task, then asio_pool_run.
Init == /\ registry = {ModB, ModC}
        /\ queue = [o \in Owners |-> <<>>]
        /\ waiting = {}
        /\ ready = <<ModA, ModC, Stream>>
        /\ pc = [x \in Coroutines |-> "start"]
        /\ held = <<>>
        /\ printed = [p \in Printers |-> <<>>]
        /\ emits = 0

\* Coroutine x is the handler the io_context runs next.
Runs(x) == ready # <<>> /\ Head(ready) = x

(***************************************************************************)
(* AsyncQueue::try_pop on one thread: try_lock succeeds (no one else can *)
(* hold queue_mtx_) and the list is moved out, leaving queue_ empty.     *)
(***************************************************************************)
\* Mutant: try_pop that copies the list instead of moving it out.
TryPopCopy(q) == [got |-> q, rest |-> q]

TryPop(q) == [got |-> q, rest |-> <<>>]

\* AsyncQueue::pop begun on o's queue: a non-empty try_pop is returned at
\* once; an empty one goes on to the strand, expires_at and async_wait.
Pop(o) == LET r == TryPop(queue[o])
          IN  [got |-> r.got, rest |-> r.rest, waits |-> r.got = <<>>]

(***************************************************************************)
(* AsyncQueue::push of item k by every subscriber in subs that owns a     *)
(* queue: lock, emplace_back, unlock, then wake(): the inline cancel       *)
(* completes a pending async_wait.                                        *)
(***************************************************************************)
Push(subs, k) == [o \in Owners |-> IF o \in subs THEN Append(queue[o], k) ELSE queue[o]]

\* Mutant: a wake whose cancel completes no pending wait.
WakeLost(subs) == {}

Wake(subs) == waiting \cap subs

(***************************************************************************)
(* Signal::emit("/a", x, y) of item k: every registered handler, in the   *)
(* unordered_multimap's order (any), so the woken consumers' completions  *)
(* become ready in any order.                                              *)
(***************************************************************************)
Emit(k) == /\ printed' = [printed EXCEPT ![ModB] = Append(@, k)]
           /\ queue' = Push(registry, k)
           /\ waiting' = waiting \ Wake(registry)
           /\ ready' \in {Tail(ready) \o w : w \in SetToSeqs(Wake(registry))}

\* ModuleA's task starts: async_sleep(1500) arms a timer.
TaskStart == /\ Runs(ModA) /\ pc[ModA] = "start"
             /\ pc' = [pc EXCEPT ![ModA] = IF MaxEmits > 0 THEN "timer" ELSE "done"]
             /\ ready' = Tail(ready)
             /\ UNCHANGED <<registry, queue, waiting, held, printed, emits>>

\* ModuleA's timer has expired: emit, then the next async_sleep(1500).
Tick == /\ Runs(ModA) /\ pc[ModA] = "timer"
        /\ emits' = emits + 1
        /\ Emit(emits + 1)
        /\ pc' = [pc EXCEPT ![ModA] = IF emits + 1 < MaxEmits THEN "timer" ELSE "done"]
        /\ UNCHANGED <<registry, held>>

(***************************************************************************)
(* ModuleC's background_task calls pop: a non-empty list is returned at   *)
(* once and the task sleeps 500 ms holding it; otherwise it waits.  It    *)
(* does so when it starts and, after printing the list, when its sleep    *)
(* ends.                                                                   *)
(***************************************************************************)
WorkerPop(toPrint) ==
  LET r == Pop(ModC)
  IN  /\ printed' = [printed EXCEPT ![ModC] = @ \o toPrint]
      /\ queue' = [queue EXCEPT ![ModC] = r.rest]
      /\ held' = r.got
      /\ waiting' = IF r.waits THEN waiting \cup {ModC} ELSE waiting
      /\ pc' = [pc EXCEPT ![ModC] = IF r.waits THEN "wait" ELSE "sleep"]
      /\ ready' = Tail(ready)
      /\ UNCHANGED <<registry, emits>>

WorkerStart == Runs(ModC) /\ pc[ModC] = "start" /\ WorkerPop(<<>>)

WorkerWake == Runs(ModC) /\ pc[ModC] = "sleep" /\ WorkerPop(held)

\* ModuleC's pop resumes after the cancel: lock, r = std::move(queue_),
\* return r; then async_sleep(500).
WorkerResume == /\ Runs(ModC) /\ pc[ModC] = "wait"
                /\ held' = queue[ModC]
                /\ queue' = [queue EXCEPT ![ModC] = <<>>]
                /\ pc' = [pc EXCEPT ![ModC] = "sleep"]
                /\ ready' = Tail(ready)
                /\ UNCHANGED <<registry, waiting, printed, emits>>

(***************************************************************************)
(* async_background_task.  At its start make_signal_stream registers the  *)
(* stream's handler (which holds a weak_ptr to the queue, alive for the  *)
(* task's whole life) and async_wait pops.  When the wait completes, pop *)
(* moves the list out under the lock and the task prints it, then pops   *)
(* again; the queue is empty now (nothing ran in between), so it waits.   *)
(***************************************************************************)
\* make_signal_stream: the SignalStream constructor registers, under topic
\* "/a", a std::function that pushes the args to the queue when its
\* weak_ptr still locks.
StreamSubscribe(reg) == reg \cup {Stream}

StreamRun == /\ Runs(Stream) /\ pc[Stream] \in {"start", "wait"}
             /\ registry' = StreamSubscribe(registry)
             /\ printed' = [printed EXCEPT ![Stream] = @ \o queue[Stream]]
             /\ queue' = [queue EXCEPT ![Stream] = <<>>]
             /\ waiting' = waiting \cup {Stream}
             /\ pc' = [pc EXCEPT ![Stream] = "wait"]
             /\ ready' = Tail(ready)
             /\ UNCHANGED <<held, emits>>

(***************************************************************************)
(* A steady_timer of async_sleep expires (ModuleA's 1500 ms, ModuleC's    *)
(* 500 ms): the coroutine's completion becomes ready.                     *)
(***************************************************************************)
Expire(x) == /\ \/ x = ModA /\ pc[x] = "timer"
                \/ x = ModC /\ pc[x] = "sleep"
             /\ \A i \in 1..Len(ready) : ready[i] # x
             /\ ready' = Append(ready, x)
             /\ UNCHANGED <<registry, queue, waiting, pc, held, printed, emits>>

Next == \/ TaskStart \/ Tick
        \/ WorkerStart \/ WorkerWake \/ WorkerResume
        \/ StreamRun
        \/ \E x \in {ModA, ModC} : Expire(x)

(***************************************************************************)
(* The io_context thread runs every ready handler, and a timer does      *)
(* expire: weak fairness of each.                                          *)
(***************************************************************************)
Fairness == /\ WF_vars(TaskStart \/ Tick)
            /\ WF_vars(WorkerStart \/ WorkerWake \/ WorkerResume)
            /\ WF_vars(StreamRun)
            /\ \A x \in {ModA, ModC} : WF_vars(Expire(x))

Spec == Init /\ [][Next]_vars /\ Fairness
-----------------------------------------------------------------------------
(***************************************************************************)
(* Every pair ModuleA emits reaches each subscriber exactly once and in    *)
(* emit order: what ModuleB printed is everything emitted; what ModuleC    *)
(* printed, then the list it holds through its 500 ms sleep, then its    *)
(* queue, is everything emitted; and so for the stream's printed items    *)
(* and its queue.  The list moves of try_pop and pop, the wake of push    *)
(* and the re-pop after each sleep or wait have to preserve it.           *)
(***************************************************************************)
InOrderOnce ==
  /\ printed[ModB] = Emitted
  /\ printed[ModC] \o held \o queue[ModC] = Emitted
  /\ printed[Stream] \o queue[Stream] = Emitted

(***************************************************************************)
(* Every pair emitted is eventually printed by ModuleB, ModuleC's          *)
(* background_task and async_background_task: no consumer is left waiting *)
(* on its timer_ while its queue holds items.                            *)
(***************************************************************************)
AllPrinted == <>[](\A p \in Printers : printed[p] = Emitted /\ emits = MaxEmits)
=============================================================================
