----------------------------- MODULE MC_Signal -----------------------------
(***************************************************************************)
(* The signals of examples/src/signal.cpp: main registers on_vel and a    *)
(* Player's on_vel for "vel" and two handlers for "game_over"; on_vel     *)
(* emits "game_over" when x < 0.  Two threads then make up to two calls  *)
(* of the signal, or up to two of a Service (examples/src/service.cpp):   *)
(* register "/add" with add or with another handler, or call it.         *)
(***************************************************************************)
EXTENDS Service, TLC

CONSTANTS t1, t2, OnVel, OnGameOver, Add, Sub

MCThreads == {t1, t2}
MCHandlers == {OnVel, OnGameOver}
MCTopics == {"vel", "game_over"}
MCReemit == [h \in MCHandlers |-> IF h = OnVel THEN "game_over" ELSE None]

MCRegistered == (<<"vel", OnVel>> :> 1) @@ (<<"vel", OnGameOver>> :> 1)
                  @@ (<<"game_over", OnGameOver>> :> 2)

Calls == {[op |-> "emit", topic |-> "vel", neg |-> n] : n \in BOOLEAN}
         \cup {[op |-> "emit", topic |-> "game_over", neg |-> FALSE],
               [op |-> "register", topic |-> "vel", handler |-> OnVel],
               [op |-> "register", topic |-> "game_over", handler |-> OnGameOver],
               [op |-> "remove", topic |-> "game_over"]}

SvcCalls == {[op |-> "svc_register", svc |-> "/add", handler |-> h] : h \in {Add, Sub}}
            \cup {[op |-> "svc_call", svc |-> "/add"]}

MCScripts == UNION {{<<>>} \cup {<<c>> : c \in C} \cup {<<c, d>> : c, d \in C} :
                     C \in {Calls, SvcCalls}}

MCSvcs == {"/add"}
MCSvcHandlers == {Add, Sub}

BothPolicies == {"NonMutex", "shared_mutex"}
=============================================================================
