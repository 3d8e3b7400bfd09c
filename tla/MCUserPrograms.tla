--------------------------- MODULE MCUserPrograms ---------------------------
EXTENDS UserPrograms

\* The semaphores of all the applications.
MCSem == AirSem \cup {T, cs1, depend1}

\* One flight has a seat for everybody, the other has one seat: enough for the
\* first mix of customers, too few for the others.
MCMixes == {<<1, 3>>, <<2, 3>>, <<3, 3>>}
MCTickets == {<<2, 1>>}

\* Enough for two programs with everything they can have.
MCFrames == 1..11
MCHeapPages == 21..30
=============================================================================
