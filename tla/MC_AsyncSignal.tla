--------------------------- MODULE MC_AsyncSignal ---------------------------
(* The waiters of async_signal.cpp: main's lambda printing [T] and         *)
(* background_task's use_awaitable handler printing [X].                  *)
EXTENDS AsyncSignal

CONSTANTS T, X
MCWaiters == {T, X}
MCAwaiting == {X}
=============================================================================
