--------------------------- MODULE MC_AsyncQueue ---------------------------
EXTENDS AsyncQueue

CONSTANTS p1, p2, c1, c2

OneConsumer == {c1}
TwoConsumers == {c1, c2}
TwoProducers == {p1, p2}
\* One io_context thread, or several.
BothExecutors == {FALSE, TRUE}
ThreadPool == {TRUE}
\* main spawns one consumer (as the example does) or two.
OneOrTwo == {{c1}, {c1, c2}}
JustOne == {{c1}}
=============================================================================
