------------------------------- MODULE Signal -------------------------------
(***************************************************************************)
(* ccl2::Signal (src/include/ccl2/signal.h): a registry of handlers, an   *)
(* unordered_multimap from topic to handler, shared by threads.           *)
(* register_handler and remove take the WriterLock, emit takes the        *)
(* ReaderLock and keeps it while it invokes every handler of the topic,   *)
(* one after the other; a handler may emit again (on_vel of               *)
(* examples/src/signal.cpp emits "game_over"), on the same thread and     *)
(* under the lock the outer emit holds.                                   *)
(*                                                                         *)
(* The MutexPolicy is NonMutex (SignalProvider: every lock is a no-op) or *)
(* std::shared_mutex with std::shared_lock as ReaderLock and MutexLock as *)
(* WriterLock (ConcurrentSignalProvider).  shared_mutex is libstdc++'s    *)
(* pthread_rwlock with the glibc default, which prefers readers: a        *)
(* shared lock is granted unless a writer holds the lock, even while a    *)
(* writer waits and even to a thread that already holds it shared.        *)
(* register and remove hold the lock only for the emplace or erase, and   *)
(* are one step once the lock is theirs, so no writer holds it between    *)
(* steps.                                                                 *)
(***************************************************************************)
EXTENDS Integers, Sequences, FiniteSets, Bags

CONSTANTS Threads,    \* the threads that use the signal
          Topics,
          Handlers,   \* the handlers a thread may register
          Reemit,     \* Reemit[h]: the topic handler h emits when invoked with
                      \* a negative x (on_vel), or None
          Scripts,    \* the calls each thread may make, in order
          Registered, \* the registry main builds before the threads start
          Policies,   \* the MutexPolicy: "NonMutex" or "shared_mutex"
          None

VARIABLES policy,     \* the MutexPolicy the Signal was instantiated with
          registry,   \* registry_: a bag of <<topic, handler>>
          script,     \* script[t]: the calls thread t has still to make
          pending,    \* pending[t]: the call thread t waits to take the lock for
          stack,      \* stack[t]: the emits thread t is inside, innermost last
          readers     \* readers[t]: how many shared locks thread t holds

vars == <<policy, registry, script, pending, stack, readers>>

\* equal_range(topic): the handlers registered for topic, as a bag.
RangeOf(reg, topic) ==
  [h \in {e[2] : e \in {x \in DOMAIN reg : x[1] = topic}} |-> reg[<<topic, h>>]]

Locks == policy = "shared_mutex"

Idle(t) == pending[t] = None

Init == /\ policy \in Policies
        /\ registry = Registered
        /\ script \in [Threads -> Scripts]
        \* SignalProvider is used by one io_context thread.
        /\ policy = "NonMutex" => Cardinality({t \in Threads : script[t] # <<>>}) <= 1
        /\ pending = [t \in Threads |-> None]
        /\ stack = [t \in Threads |-> <<>>]
        /\ readers = [t \in Threads |-> 0]

\* Thread t makes its next call.
Call(t) == /\ Idle(t) /\ stack[t] = <<>> /\ script[t] # <<>>
           /\ pending' = [pending EXCEPT ![t] = Head(script[t])]
           /\ script' = [script EXCEPT ![t] = Tail(@)]
           /\ UNCHANGED <<policy, registry, stack, readers>>

\* Thread u waits for the WriterLock.
Writing(u) == pending[u] # None /\ pending[u].op # "emit"

\* A rwlock that prefers writers: no shared lock while another thread waits
\* to write.
LockSharedWriterFirst(t) ==
  /\ pending[t] # None /\ pending[t].op = "emit"
  /\ Locks => \A u \in Threads \ {t} : ~Writing(u)
  /\ readers' = [readers EXCEPT ![t] = IF Locks THEN @ + 1 ELSE @]
  /\ stack' = [stack EXCEPT ![t] = Append(@, [topic |-> pending[t].topic,
                                              neg |-> pending[t].neg,
                                              snap |-> RangeOf(registry, pending[t].topic),
                                              todo |-> RangeOf(registry, pending[t].topic)])]
  /\ pending' = [pending EXCEPT ![t] = None]
  /\ UNCHANGED <<policy, registry, script>>

\* emit: ReaderLock _lck{mtx_}; range = registry_.equal_range(topic).
LockShared(t) ==
  /\ pending[t] # None /\ pending[t].op = "emit"
  /\ readers' = [readers EXCEPT ![t] = IF Locks THEN @ + 1 ELSE @]
  /\ stack' = [stack EXCEPT ![t] = Append(@, [topic |-> pending[t].topic,
                                              neg |-> pending[t].neg,
                                              snap |-> RangeOf(registry, pending[t].topic),
                                              todo |-> RangeOf(registry, pending[t].topic)])]
  /\ pending' = [pending EXCEPT ![t] = None]
  /\ UNCHANGED <<policy, registry, script>>

\* What handler h does when invoked: on_vel emits "game_over" when x < 0,
\* the other handlers of the example only print.
HandlerCall(h, neg) ==
  IF neg /\ Reemit[h] # None THEN [op |-> "emit", topic |-> Reemit[h], neg |-> FALSE]
  ELSE None

\* ccl2::invoke(it->second, args...) for one handler of the range, in the
\* multimap's unspecified order; on_vel emits again when x < 0.
Invoke(t) ==
  /\ Idle(t) /\ stack[t] # <<>>
  /\ LET f == stack[t][Len(stack[t])]
     IN  \E h \in BagToSet(f.todo) :
           /\ stack' = [stack EXCEPT ![t][Len(stack[t])].todo = f.todo (-) SetToBag({h})]
           /\ pending' = [pending EXCEPT ![t] = HandlerCall(h, f.neg)]
  /\ UNCHANGED <<policy, registry, script, readers>>

\* Mutant: emit returns without releasing its shared lock.
UnlockKeep(t) ==
  /\ Idle(t) /\ stack[t] # <<>>
  /\ stack[t][Len(stack[t])].todo = EmptyBag
  /\ stack' = [stack EXCEPT ![t] = SubSeq(@, 1, Len(@) - 1)]
  /\ UNCHANGED <<policy, registry, script, pending, readers>>

\* The loop ends and emit returns: ~ReaderLock.
Unlock(t) ==
  /\ Idle(t) /\ stack[t] # <<>>
  /\ stack[t][Len(stack[t])].todo = EmptyBag
  /\ stack' = [stack EXCEPT ![t] = SubSeq(@, 1, Len(@) - 1)]
  /\ readers' = [readers EXCEPT ![t] = IF Locks THEN @ - 1 ELSE @]
  /\ UNCHANGED <<policy, registry, script, pending>>

\* WriterLock _lck{mtx_}: granted when nobody holds the lock in any mode.
Exclusive == Locks => \A u \in Threads : readers[u] = 0

\* register_handler without its WriterLock.
RegisterUnlocked(t) ==
  /\ pending[t] # None /\ pending[t].op = "register"
  /\ registry' = registry (+) SetToBag({<<pending[t].topic, pending[t].handler>>})
  /\ pending' = [pending EXCEPT ![t] = None]
  /\ UNCHANGED <<policy, script, stack, readers>>

\* register_handler: registry_.emplace(topic, handler).
Register(t) ==
  /\ pending[t] # None /\ pending[t].op = "register"
  /\ Exclusive
  /\ registry' = registry (+) SetToBag({<<pending[t].topic, pending[t].handler>>})
  /\ pending' = [pending EXCEPT ![t] = None]
  /\ UNCHANGED <<policy, script, stack, readers>>

\* remove: registry_.erase(equal_range(topic)).
Remove(t) ==
  /\ pending[t] # None /\ pending[t].op = "remove"
  /\ Exclusive
  /\ registry' = [e \in {x \in DOMAIN registry : x[1] # pending[t].topic} |-> registry[e]]
  /\ pending' = [pending EXCEPT ![t] = None]
  /\ UNCHANGED <<policy, script, stack, readers>>

Thread(t) == Call(t) \/ LockShared(t) \/ Invoke(t) \/ Unlock(t) \/ Register(t) \/ Remove(t)

Next == \E t \in Threads : Thread(t)

\* Every thread is scheduled while it can run.
Spec == Init /\ [][Next]_vars /\ \A t \in Threads : WF_vars(Thread(t))
-----------------------------------------------------------------------------
TypeOK ==
  /\ policy \in Policies
  /\ IsABag(registry) /\ BagToSet(registry) \subseteq Topics \X Handlers
  /\ \A t \in Threads : readers[t] \in Nat /\ readers[t] <= Len(stack[t])

(***************************************************************************)
(* EmitStable: while an emit of a topic is inside its loop over           *)
(* equal_range (signal.h, emit), the handlers registered for that topic   *)
(* stay those it found when it took the ReaderLock: no register_handler   *)
(* or remove of another thread runs in between, which would invalidate    *)
(* the iterators the loop walks.  With NonMutex this rests on the         *)
(* signal being used by one thread and on no handler registering or      *)
(* removing.                                                              *)
(***************************************************************************)
EmitStable ==
  \A t \in Threads : \A i \in 1..Len(stack[t]) :
     stack[t][i].snap = RangeOf(registry, stack[t][i].topic)

(***************************************************************************)
(* AllReturn: every thread gets through all of its calls.  An emit from   *)
(* inside a handler (on_vel emitting "game_over") asks for the shared     *)
(* lock again while a register or remove of another thread may be         *)
(* waiting for the lock; the reader-preferring rwlock grants it, so       *)
(* neither waits on the other for ever.                                   *)
(***************************************************************************)
AllReturn ==
  <>(\A t \in Threads : script[t] = <<>> /\ Idle(t) /\ stack[t] = <<>>)
=============================================================================
