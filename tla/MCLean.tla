------------------------------- MODULE MCLean -------------------------------
EXTENDS LeanRuntime

Build == [plan |-> <<>>, completed |-> 0, late |-> 0, lanes |-> 1, slots |-> 2]
\* Three calls whose sequence numbers wrap, on both queue pairs.
Wrap == [plan |-> <<1, 1, 1>>, completed |-> 6, late |-> 0, lanes |-> 2, slots |-> 2]
\* A chunked call, then one of a single chunk.
Chunk == [plan |-> <<2, 1>>, completed |-> 6, late |-> 0, lanes |-> 1, slots |-> 4]
\* A wait gives up while the write is on its way.
Late == [plan |-> <<1>>, completed |-> 0, late |-> 1, lanes |-> 1, slots |-> 2]

MCScenarios == {Build, Wrap, Chunk, Late}
MCStages == <<"import", "preflight", "allocation", "geometry", "connect", "setup">>
=============================================================================
