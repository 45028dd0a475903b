---------------------------- MODULE MCMnaSolver ----------------------------
(***************************************************************************)
(* Two breakers of two poles each: pairs of modes that between them use    *)
(* the precomputed matrices, the automatic recomputation and the           *)
(* recomputation that the user asks for, from open and closed breakers.    *)
(***************************************************************************)
EXTENDS MnaSolver

System(modes, closed, synchronized, recomputation) ==
  [mode |-> modes, closed |-> closed, synchronized |-> synchronized,
   recomputation |-> recomputation]

Ideal == "Ideal"
Zero == "CurrentZero"
Exponential == "ExponentialZCSEmulation"
MCSetups ==
  {System(<<Ideal, Ideal>>, c, <<TRUE, FALSE>>, r) :
     c \in [Switches -> BOOLEAN], r \in {"Auto", "Enabled", "Disabled"}}
  \cup
  {System(m, c, <<TRUE, TRUE>>, "Auto") :
     m \in {<<Zero, Ideal>>, <<Zero, Exponential>>},
     c \in {<<TRUE, TRUE>>, <<TRUE, FALSE>>}}

\* Two breakers whose states are recorded at initialization.
StaleSetups ==
  {System(<<Zero, Ideal>>, <<TRUE, TRUE>>, <<TRUE, TRUE>>, "Auto"),
   System(<<Ideal, Ideal>>, <<TRUE, TRUE>>, <<TRUE, TRUE>>, "Enabled")}
=============================================================================
