---------------------------- MODULE MCSimulation ----------------------------
(* Model-checking instances of Simulation.                                 *)
EXTENDS Simulation

\* No logger, one of either kind, and both in either order.
MCLoggerLists ==
  {<<>>, <<"file">>, <<"memory">>, <<"file", "memory">>, <<"memory", "file">>}

MemoryOnly == {<<"memory">>}
=============================================================================
