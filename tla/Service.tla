------------------------------- MODULE Service ------------------------------
(***************************************************************************)
(* ccl2::Service (src/include/ccl2/service.h): a registry from service    *)
(* name to one type-erased handler, with the MutexPolicy, ReaderLock and *)
(* WriterLock of Signal.  register_handler takes the WriterLock, throws   *)
(* "dup svc" when the name is taken and otherwise emplaces the handler;  *)
(* call takes the ReaderLock, throws "expect svc" when the name is        *)
(* missing and otherwise invokes the handler under the lock.             *)
(*                                                                         *)
(* The service is used by the same threads as the Signal of module       *)
(* Signal: a thread's script mixes calls of both, and the MutexPolicy is *)
(* the one the program picked for both providers.  Each Service           *)
(* operation holds its own mtx_ from start to end and the handlers do not *)
(* call back into the service, so each is one step.  An exception leaves *)
(* the thread: it makes no further calls.                                 *)
(***************************************************************************)
EXTENDS Signal

CONSTANTS Svcs,        \* service names
          SvcHandlers  \* the handlers threads may register for them

VARIABLE services     \* registry_: service name -> handler

svcVars == <<services>>
allVars == <<vars, svcVars>>

\* The exception propagates out of the thread's calls.
Throw(t) == script' = [script EXCEPT ![t] = <<>>]

SvcInit == /\ Init
           /\ services = [s \in {} |-> None]

(***************************************************************************)
(* register_handler(svc, f): under the WriterLock, a name already in      *)
(* registry_ throws; otherwise the bound handler is emplaced (and kept    *)
(* alive in dummy_).                                                      *)
(***************************************************************************)
SvcRegister(t) ==
  LET c == pending[t]
  IN  /\ c # None /\ c.op = "svc_register"
      /\ IF c.svc \in DOMAIN services
         THEN /\ Throw(t)
              /\ UNCHANGED svcVars
         ELSE /\ services' = services @@ (c.svc :> c.handler)
              /\ UNCHANGED script
      /\ pending' = [pending EXCEPT ![t] = None]
      /\ UNCHANGED <<policy, registry, stack, readers>>

(***************************************************************************)
(* call<R>(svc, args...): under the ReaderLock, a missing name throws;   *)
(* otherwise registry_.at(svc) is invoked and its result returned.       *)
(***************************************************************************)
SvcCall(t) ==
  LET c == pending[t]
  IN  /\ c # None /\ c.op = "svc_call"
      /\ IF c.svc \in DOMAIN services THEN UNCHANGED script ELSE Throw(t)
      /\ pending' = [pending EXCEPT ![t] = None]
      /\ UNCHANGED <<policy, registry, stack, readers, services>>

SvcThread(t) == \/ Thread(t) /\ UNCHANGED svcVars
                \/ SvcRegister(t)
                \/ SvcCall(t)

SvcNext == \E t \in Threads : SvcThread(t)

\* Every thread is scheduled while it can run.
SvcSpec == SvcInit /\ [][SvcNext]_allVars /\ \A t \in Threads : WF_allVars(SvcThread(t))
-----------------------------------------------------------------------------
SvcTypeOK ==
  /\ TypeOK
  /\ DOMAIN services \subseteq Svcs
  /\ \A s \in DOMAIN services : services[s] \in SvcHandlers

=============================================================================
