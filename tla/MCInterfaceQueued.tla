------------------------- MODULE MCInterfaceQueued -------------------------
(* Model-checking instances of InterfaceQueued.                            *)
EXTENDS InterfaceQueued

\* The remote sends what it likes, whenever it likes; samples and writes may
\* fail; the two exports wait for each other.
FreeRunning ==
  [blockOnRead |-> {1}, syncOnStart |-> {1}, waitForOnWrite |-> {0, 1},
   shapes |-> {{0, 1}, {0}, {1}}, lockStep |-> FALSE, failures |-> TRUE,
   downsampling |-> 1, maxSteps |-> 1, maxSamples |-> 3]

\* Request and answer, over a step without an exchange.
RequestAnswer ==
  [blockOnRead |-> {1}, syncOnStart |-> {1}, waitForOnWrite |-> {},
   shapes |-> {{0, 1}}, lockStep |-> TRUE, failures |-> FALSE,
   downsampling |-> 2, maxSteps |-> 2, maxSamples |-> 6]

\* As before, but the synchronisation waits for both imports of a sample.
SyncOnBoth ==
  [blockOnRead |-> {}, syncOnStart |-> {0, 1}, waitForOnWrite |-> {},
   shapes |-> {{0, 1}}, lockStep |-> TRUE, failures |-> FALSE,
   downsampling |-> 1, maxSteps |-> 1, maxSamples |-> 4]

MCSetups == {FreeRunning, RequestAnswer}
MCSyncSetups == {SyncOnBoth}
=============================================================================
