----------------------------- MODULE AsyncSignal -----------------------------
(***************************************************************************)
(* examples/src/coro/async_signal.cpp: signal_async_wait turns one signal *)
(* of topic "/a" into an asio asynchronous operation.  Its initiation      *)
(* registers with register_handler2 a permanent Signal handler (the outer *)
(* lambda) that captures the operation's completion handler; each call of *)
(* the outer lambda moves the completion handler into an inner lambda and *)
(* dispatches that to the handler's executor, which calls it.  The        *)
(* registry of the SignalProvider keeps the outer lambda for ever.        *)
(*                                                                         *)
(* The program runs on one io_context thread (asio_pool_init(1)).  main   *)
(* waits with a plain lambda before asio_pool_run; background_task waits  *)
(* with use_awaitable when it first runs; ModuleA's task emits "/a" every *)
(* 1500 ms.  Every dispatch happens on the io_context thread (or to the  *)
(* lambda's system executor) and so runs inline: an emit invokes every    *)
(* handler and, for the awaitable one, resumes background_task to its     *)
(* end, in one step.                                                      *)
(***************************************************************************)
EXTENDS Naturals, TLC

CONSTANTS Waiters,   \* the completion handlers given to signal_async_wait
          Awaiting,  \* those of them that resume a coroutine (use_awaitable)
          Main,      \* the waiter main registers before asio_pool_run
          MaxEmits   \* bound on the iterations of ModuleA's loop

ASSUME Awaiting \subseteq Waiters /\ Main \in Waiters \ Awaiting /\ MaxEmits \in Nat

VARIABLES registry,  \* registry_ on "/a": waiter -> the outer lambda still
                     \* holds its completion handler (not moved from)
          bg,        \* background_task: "start", "waiting", "done"
          emits,     \* the emits ModuleA's task has made
          invoked    \* invoked[w]: calls of w's completion handler

vars == <<registry, bg, emits, invoked>>

\* The state when main calls asio_pool_run: ModuleA's task and
\* background_task are spawned, main's lambda waits on "/a".
Init == /\ registry = (Main :> TRUE)
        /\ bg = "start"
        /\ emits = 0
        /\ invoked = [w \in Waiters |-> 0]

\* register_handler2 emplaces the bound outer lambda under the topic.
Register(reg, w) == reg @@ (w :> TRUE)

(***************************************************************************)
(* background_task co_awaits signal_async_wait("/a", as_tuple(            *)
(* use_awaitable)): the initiation registers the outer lambda holding the *)
(* awaitable's handler, and the coroutine suspends.                       *)
(***************************************************************************)
SignalAsyncWait(w) == /\ bg = "start" /\ w \in Awaiting
                      /\ registry' = Register(registry, w)
                      /\ bg' = "waiting"
                      /\ UNCHANGED <<emits, invoked>>

(***************************************************************************)
(* The outer lambda of waiter w, called through the bound ccl2::function   *)
(* (bind_t calls it in place: the std::move(fn) handed to hana::unpack    *)
(* does not move it out, so what it captured persists between calls).     *)
(* Its inner lambda takes handler = std::move(handler), leaving the outer *)
(* capture moved from, and the inline dispatch calls it.  Called again,   *)
(* the outer lambda moves and calls the moved-from handler.               *)
(***************************************************************************)
Invoke(w) == invoked[w] + 1

(***************************************************************************)
(* Signal::emit("/a", x, y): every handler of the topic, in the registry's *)
(* order, each through Invoke.  A held awaitable handler resumes           *)
(* background_task, which prints [X] and returns.                         *)
(***************************************************************************)
Emit == /\ registry' = [w \in DOMAIN registry |-> FALSE]
        /\ invoked' = [w \in Waiters |-> IF w \in DOMAIN registry THEN Invoke(w) ELSE invoked[w]]
        /\ bg' = IF bg = "waiting" /\ \E w \in DOMAIN registry \cap Awaiting : registry[w]
                 THEN "done" ELSE bg

(***************************************************************************)
(* ModuleA's task: async_sleep(1500) completes and the task emits "/a".  *)
(* A 1500 ms timer expires only after the handlers made ready at start    *)
(* (background_task's first run) have run.                               *)
(***************************************************************************)
Tick == /\ emits < MaxEmits /\ bg # "start"
        /\ emits' = emits + 1
        /\ Emit

Next == \/ \E w \in Waiters : SignalAsyncWait(w)
        \/ Tick

Spec == Init /\ [][Next]_vars
-----------------------------------------------------------------------------
TypeOK ==
  /\ DOMAIN registry \subseteq Waiters /\ \A w \in DOMAIN registry : registry[w] \in BOOLEAN
  /\ bg \in {"start", "waiting", "done"}
  /\ emits \in 0..MaxEmits
  /\ invoked \in [Waiters -> 0..MaxEmits]

(***************************************************************************)
(* An asynchronous operation calls its completion handler at most once:  *)
(* the handler signal_async_wait receives (main's lambda, background_task *)
(* 's awaitable handler) is called once for the emit that completes the  *)
(* wait, never again by a later emit of ModuleA's loop.                   *)
(***************************************************************************)
CompletionOnce == \A w \in Waiters : invoked[w] <= 1
=============================================================================
