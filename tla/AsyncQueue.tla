----------------------------- MODULE AsyncQueue -----------------------------
(***************************************************************************)
(* ccl2::AsyncQueue (src/include/ccl2/async_queue.h) driven as in         *)
(* examples/src/coro/async_queue.cpp: producer coroutines push items      *)
(* (with an async_sleep(0) before each push), consumer coroutines call    *)
(* pop in a loop and consume the list it returns.                         *)
(*                                                                         *)
(* The queue is a std::list under a std::recursive_mutex; pop waits on a  *)
(* steady_timer set to time_point::max, and push wakes it by dispatching  *)
(* timer_.cancel() to the strand.  A strand handler runs atomically with  *)
(* respect to other strand handlers, so the part of pop that runs on the  *)
(* strand (expires_at, which cancels waits already pending, then          *)
(* async_wait) is one step, and so is the cancel.                          *)
(*                                                                         *)
(* multi is the executor, fixed at start.  TRUE: the io_context runs on  *)
(* several threads (AsioPool's default) or producers push from threads of *)
(* their own; every step may interleave with every other, and the cancel  *)
(* that wake dispatches from outside the strand runs later.  FALSE: one   *)
(* io_context thread (asio_pool_init(1), as in the example); a coroutine  *)
(* runs until it suspends (async_sleep, async_wait), and wake's dispatch  *)
(* runs the cancel inline.                                                 *)
(***************************************************************************)
EXTENDS Integers, Sequences, FiniteSets
LOCAL INSTANCE SequencesExt

CONSTANTS Producers,   \* producer coroutines
          Consumers,   \* consumer coroutines
          Spawnings,   \* the sets of consumers main may co_spawn
          ItemsPer,    \* items each producer pushes (PRODUCER_ITEM_COUNT)
          Executors,   \* the values multi may start with (see above)
          None         \* no coroutine

ASSUME Executors \subseteq BOOLEAN /\ Spawnings \subseteq SUBSET Consumers /\ None \notin Producers \cup Consumers

VARIABLES queue,     \* queue_: the items in the list
          owner,     \* the coroutine holding queue_mtx_, or None
          waiting,   \* consumers with an async_wait pending on timer_
          cancels,   \* timer_.cancel() handlers dispatched to the strand, not run yet
          ppc,       \* producer: "sleep", "lock", "emplace", "wake", "done"
          pushed,    \* producer: how many items it has emplaced
          cpc,       \* consumer: "pop", "strand", "wait", "resume", "consume"
          held,      \* consumer: the list pop returned, not consumed yet
          consumed,  \* the items consumed, in order
          running,   \* with one thread: the coroutine running on it, or None
          multi,     \* the io_context runs on several threads
          spawned,   \* the consumer coroutines main spawned
          stopped    \* AsioPool::stopped_: asio_pool_shutdown has run

vars == <<queue, owner, waiting, cancels, ppc, pushed, cpc, held, consumed, running, multi, spawned, stopped>>

Item(p, k) == <<p, k>>

\* A step of coroutine a: none once the io_context is stopped; on one
\* thread, only the coroutine already running or, when none is, any of them.
Runs(a) == ~stopped /\ (multi \/ running \in {None, a})
\* The coroutine keeps the thread (it did not suspend).
Keeps(a) == running' = IF multi THEN None ELSE a
\* The coroutine suspends.
Yields == running' = None

-----------------------------------------------------------------------------
Init == /\ queue = <<>>
        /\ owner = None
        /\ waiting = {}
        /\ cancels = 0
        /\ ppc = [p \in Producers |-> IF ItemsPer > 0 THEN "sleep" ELSE "done"]
        /\ pushed = [p \in Producers |-> 0]
        /\ cpc = [c \in Consumers |-> "pop"]
        /\ held = [c \in Consumers |-> <<>>]
        /\ consumed = <<>>
        /\ running = None
        /\ multi \in Executors
        /\ spawned \in Spawnings
        /\ stopped = FALSE

\* co_producer resumes from co_await async_sleep(0).
Sleep(p) == /\ ppc[p] = "sleep" /\ Runs(p) /\ running = None
            /\ ppc' = [ppc EXCEPT ![p] = "lock"]
            /\ Keeps(p)
            /\ UNCHANGED <<multi, spawned, stopped, queue, owner, waiting, cancels, pushed, cpc, held, consumed>>

\* push: std::lock_guard on queue_mtx_ (blocks while another holds it).
Lock(p) == /\ ppc[p] = "lock" /\ Runs(p) /\ owner = None
           /\ owner' = p
           /\ ppc' = [ppc EXCEPT ![p] = "emplace"]
           /\ Keeps(p)
           /\ UNCHANGED <<multi, spawned, stopped, queue, waiting, cancels, pushed, cpc, held, consumed>>

\* push: queue_.emplace_back(v), then the lock_guard releases the mutex.
Emplace(p) == /\ ppc[p] = "emplace" /\ Runs(p)
              /\ queue' = Append(queue, Item(p, pushed[p] + 1))
              /\ pushed' = [pushed EXCEPT ![p] = @ + 1]
              /\ owner' = None
              /\ ppc' = [ppc EXCEPT ![p] = "wake"]
              /\ Keeps(p)
              /\ UNCHANGED <<multi, spawned, stopped, waiting, cancels, cpc, held, consumed>>

\* Mutant: wake() whose cancel is lost when it runs inline on one thread.
WakeNoCancel(p) == /\ ppc[p] = "wake" /\ Runs(p)
                   /\ IF multi THEN cancels' = cancels + 1 ELSE UNCHANGED cancels
                   /\ ppc' = [ppc EXCEPT ![p] = IF pushed[p] < ItemsPer THEN "sleep" ELSE "done"]
                   /\ Yields
                   /\ UNCHANGED <<multi, spawned, stopped, queue, owner, pushed, held, consumed, waiting, cpc>>

(***************************************************************************)
(* push: wake() dispatches timer_.cancel() to the strand, cancelling every *)
(* pending wait.  On one thread the strand is free and the cancel runs     *)
(* inline; otherwise it is queued.  The producer then loops to its next   *)
(* async_sleep(0), or ends.                                               *)
(***************************************************************************)
Wake(p) == /\ ppc[p] = "wake" /\ Runs(p)
           /\ IF multi
              THEN /\ cancels' = cancels + 1
                   /\ UNCHANGED <<waiting, cpc>>
              ELSE /\ cpc' = [c \in Consumers |-> IF c \in waiting THEN "resume" ELSE cpc[c]]
                   /\ waiting' = {}
                   /\ UNCHANGED cancels
           /\ ppc' = [ppc EXCEPT ![p] = IF pushed[p] < ItemsPer THEN "sleep" ELSE "done"]
           /\ Yields
           /\ UNCHANGED <<multi, spawned, stopped, queue, owner, pushed, held, consumed>>

\* Mutant: the cancel handler run without one having been dispatched.
RunCancelUnguarded == /\ Runs(None) /\ running = None
                      /\ cancels' = cancels - 1
                      /\ cpc' = [c \in Consumers |-> IF c \in waiting THEN "resume" ELSE cpc[c]]
                      /\ waiting' = {}
                      /\ UNCHANGED <<multi, spawned, stopped, queue, owner, ppc, pushed, held, consumed, running>>

\* A queued cancel handler runs on the strand: every pending wait completes.
RunCancel == /\ cancels > 0 /\ Runs(None) /\ running = None
             /\ cancels' = cancels - 1
             /\ cpc' = [c \in Consumers |-> IF c \in waiting THEN "resume" ELSE cpc[c]]
             /\ waiting' = {}
             /\ UNCHANGED <<multi, spawned, stopped, queue, owner, ppc, pushed, held, consumed, running>>

\* Mutant: try_pop that copies the list instead of moving it out.
TryPopKeep(c) == /\ cpc[c] = "pop" /\ Runs(c)
                 /\ LET r == IF owner = None THEN queue ELSE <<>>
                    IN  /\ held' = [held EXCEPT ![c] = r]
                        /\ cpc' = [cpc EXCEPT ![c] = IF r # <<>> THEN "consume" ELSE "strand"]
                 /\ Keeps(c)
                 /\ UNCHANGED <<multi, spawned, stopped, queue, owner, waiting, cancels, ppc, pushed, consumed>>

(***************************************************************************)
(* pop begins with try_pop: when try_lock succeeds the whole list is moved *)
(* out (leaving queue_ empty); when another coroutine holds the mutex the  *)
(* result is empty.  A non-empty result is returned at once; an empty one *)
(* sends pop to the strand.                                                *)
(***************************************************************************)
TryPop(c) == /\ cpc[c] = "pop" /\ Runs(c)
             /\ LET r == IF owner = None THEN queue ELSE <<>>
                IN  /\ queue' = IF owner = None THEN <<>> ELSE queue
                    /\ held' = [held EXCEPT ![c] = r]
                    /\ cpc' = [cpc EXCEPT ![c] = IF r # <<>> THEN "consume" ELSE "strand"]
             /\ Keeps(c)
             /\ UNCHANGED <<multi, spawned, stopped, owner, waiting, cancels, ppc, pushed, consumed>>

(***************************************************************************)
(* pop on the strand: timer_.expires_at(time_point::max()) cancels the     *)
(* waits already pending (another consumer's), then co_await               *)
(* timer_.async_wait suspends this consumer until a cancel.               *)
(***************************************************************************)
Strand(c) == /\ cpc[c] = "strand" /\ Runs(c)
             /\ cpc' = [d \in Consumers |-> IF d = c THEN "wait"
                                            ELSE IF d \in waiting THEN "resume" ELSE cpc[d]]
             /\ waiting' = {c}
             /\ Yields
             /\ UNCHANGED <<multi, spawned, stopped, queue, owner, cancels, ppc, pushed, held, consumed>>

\* pop after the wait completed: lock_guard, r = std::move(queue_), return r.
Resume(c) == /\ cpc[c] = "resume" /\ Runs(c) /\ running = None /\ owner = None
             /\ held' = [held EXCEPT ![c] = queue]
             /\ queue' = <<>>
             /\ cpc' = [cpc EXCEPT ![c] = "consume"]
             /\ Keeps(c)
             /\ UNCHANGED <<multi, spawned, stopped, owner, waiting, cancels, ppc, pushed, consumed>>

\* co_consumer counts every item of the list and calls pop again.
Consume(c) == /\ cpc[c] = "consume" /\ Runs(c)
              /\ consumed' = consumed \o held[c]
              /\ held' = [held EXCEPT ![c] = <<>>]
              /\ cpc' = [cpc EXCEPT ![c] = "pop"]
              /\ Keeps(c)
              /\ UNCHANGED <<multi, spawned, stopped, queue, owner, waiting, cancels, ppc, pushed>>

\* prod_cnter: a producer counts an item once push has returned.
Prods == MapThenSumSet(LAMBDA p : pushed[p] - (IF ppc[p] = "wake" THEN 1 ELSE 0), Producers)

\* cons_cnter: one count per item consumed.
Conss == Len(consumed)

(***************************************************************************)
(* co_moniter wakes every second and, once both counters have reached     *)
(* PRODUCER_COUNT * PRODUCER_ITEM_COUNT, calls asio_pool_shutdown:        *)
(* stopped_ is set, ctx_.stop() and the work guard is released, and       *)
(* asio_pool_run returns.  Its polls before that change nothing.          *)
(***************************************************************************)
Monitor == /\ Runs(None) /\ running = None
           /\ Prods = Cardinality(Producers) * ItemsPer
           /\ Conss = Cardinality(Producers) * ItemsPer
           /\ stopped' = TRUE
           /\ UNCHANGED <<multi, spawned, queue, owner, waiting, cancels, ppc, pushed, cpc,
                          held, consumed, running>>

Producer(p) == Sleep(p) \/ Lock(p) \/ Emplace(p) \/ Wake(p)
Consumer(c) == c \in spawned /\ (TryPop(c) \/ Strand(c) \/ Resume(c) \/ Consume(c))

Next == \/ \E p \in Producers : Producer(p)
        \/ \E c \in Consumers : Consumer(c)
        \/ RunCancel
        \/ Monitor

(***************************************************************************)
(* The io_context keeps its ready handlers in a FIFO queue and runs them   *)
(* in turn, so a coroutine whose handler is ready is resumed before any   *)
(* handler made ready after it.  A step enabled again and again (a        *)
(* producer's async_sleep(0) completion, while two consumers keep         *)
(* cancelling each other's waits) is therefore eventually taken: strong  *)
(* fairness per coroutine, for the strand's cancel handler and for the    *)
(* monitor's timer completion.                                            *)
(***************************************************************************)
Fairness == /\ \A p \in Producers : SF_vars(Producer(p))
            /\ \A c \in Consumers : SF_vars(Consumer(c))
            /\ SF_vars(RunCancel)
            /\ SF_vars(Monitor)

Spec == Init /\ [][Next]_vars /\ Fairness
-----------------------------------------------------------------------------
Count(s, i) == Cardinality({k \in 1..Len(s) : s[k] = i})

\* Where an item can be: in queue_, in a list pop returned, or consumed.
Occurrences(i) ==
  Count(queue, i) + Count(consumed, i) + MapThenSumSet(LAMBDA c : Count(held[c], i), Consumers)

AllItems == {Item(p, k) : p \in Producers, k \in 1..ItemsPer}
ItemSeqs == {s \in Seq(AllItems) : Len(s) <= Cardinality(AllItems)}

TypeOK ==
  /\ queue \in ItemSeqs /\ consumed \in ItemSeqs /\ held \in [Consumers -> ItemSeqs]
  /\ owner \in Producers \cup {None}
  /\ waiting \subseteq Consumers
  /\ cancels \in 0..Cardinality(Producers) * ItemsPer
  /\ ppc \in [Producers -> {"sleep", "lock", "emplace", "wake", "done"}]
  /\ pushed \in [Producers -> 0..ItemsPer]
  /\ cpc \in [Consumers -> {"pop", "strand", "wait", "resume", "consume"}]
  /\ running \in Producers \cup Consumers \cup {None}
  /\ multi \in BOOLEAN
  /\ spawned \subseteq Consumers
  /\ stopped \in BOOLEAN

(***************************************************************************)
(* No item is lost or duplicated: every item a producer has emplaced is   *)
(* exactly once in queue_, in a list a pop returned, or among the items   *)
(* consumed, and no other item is anywhere.  This is what the moves out  *)
(* of queue_ in try_pop and pop, racing with push, must preserve.         *)
(***************************************************************************)
Conservation ==
  \A p \in Producers, k \in 1..ItemsPer :
     Occurrences(Item(p, k)) = IF k <= pushed[p] THEN 1 ELSE 0

(***************************************************************************)
(* Every item pushed is eventually consumed: the consumer is woken for    *)
(* each push (examples/src/coro/async_queue.cpp waits for the consumed    *)
(* count to reach the produced count before it shuts the pool down).      *)
(***************************************************************************)
AllConsumed == <>(Len(consumed) = Cardinality(Producers) * ItemsPer)

(***************************************************************************)
(* The example ends: on one io_context thread, the executor it creates    *)
(* (asio_pool_init(1)), every pushed item is consumed and the monitor     *)
(* shuts the pool down, so asio_pool_run returns.  There the cancel that  *)
(* wake dispatches runs inline and pop's check and wait are not separated *)
(* by another coroutine.                                                  *)
(***************************************************************************)
SingleThreadStops == ~multi => <>stopped
=============================================================================
