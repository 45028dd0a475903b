---------------------------- MODULE MCPowerFlow -----------------------------
(***************************************************************************)
(* PowerFlow on a triangle of a slack bus 0 and two buses 1 and 2, with    *)
(* the reactive part of the network linear: voltages are deviations from   *)
(* the slack, an injection is the sum of what flows to the neighbours.     *)
(***************************************************************************)
EXTENDS PowerFlow, TLC

CONSTANTS slackBranch1, slackBranch2, tieBranch   \* susceptances

\* Two nodes other than the slack: q1 = (b1+b12) v1 - b12 v2 and vice versa,
\* solved for the unknowns of the classification.  Set points and limits are
\* multiples that leave no remainder.
LinearSolution(pq, v, q) ==
  LET d1 == slackBranch1 + tieBranch
      d2 == slackBranch2 + tieBranch
      det == d1 * d2 - tieBranch * tieBranch
      v1 == IF 1 \notin pq THEN v[1]
            ELSE IF 2 \in pq THEN (d2 * q[1] + tieBranch * q[2]) \div det
            ELSE (q[1] + tieBranch * v[2]) \div d1
      v2 == IF 2 \notin pq THEN v[2]
            ELSE IF 1 \in pq THEN (tieBranch * q[1] + d1 * q[2]) \div det
            ELSE (q[2] + tieBranch * v[1]) \div d2
      u == (0 :> 0) @@ (1 :> v1) @@ (2 :> v2)
  IN  [v |-> u,
       q |-> (0 :> -(slackBranch1 * v1 + slackBranch2 * v2))
             @@ (1 :> d1 * v1 - tieBranch * v2) @@ (2 :> d2 * v2 - tieBranch * v1)]

-----------------------------------------------------------------------------
(* Systems.                                                                *)

Comp(kind, nodes, rating, bus) ==
  [kind |-> kind, nodes |-> nodes, rating |-> rating, bus |-> bus]
Slack == Comp("NetworkInjection", <<0>>, <<1000>>, "VD")
Generator(n, r, bus) == Comp("SynchronGenerator", <<n>>, <<r>>, bus)
LoadAt(n, r) == Comp("Load", <<n>>, <<r>>, "PQ")
Branch(kind, n, m, r, s) == Comp(kind, <<n, m>>, <<r, s>>, "none")

\* Two generators, of which the second may be a load-like one or missing.
Triangle == <<Branch("PiLine", 0, 1, 1000, 1000), Branch("PiLine", 1, 2, 1000, 1000),
              Branch("PiLine", 2, 0, 1000, 1000), LoadAt(1, 1000), LoadAt(2, 1000)>>
TwoGenerators == <<Slack, Generator(1, 1000, "PV"), Generator(2, 1000, "PV")>> \o Triangle
SwitchedSystems ==
  {TwoGenerators, <<Slack, Generator(1, 1000, "PV"), Generator(2, 1000, "PQ")>> \o Triangle,
   <<Slack, Generator(1, 1000, "PV")>> \o Triangle}

\* Every mixture of lines and transformers, and ratings that agree, are close
\* or belong to different levels; the load may be listed before the generator.
LevelSystems ==
  {IF f THEN <<l, g, Slack>> \o bs ELSE <<Slack, g, l>> \o bs :
     f \in BOOLEAN, l \in {LoadAt(1, r) : r \in {0, 950, 1000, 3000}},
     g \in {Generator(2, r, "PV") : r \in {995, 1050, 3000}},
     bs \in {<<Branch(k1, 0, 1, 1000, s), Branch(k2, 0, 2, 1000, t)>> :
               k1 \in {"PiLine", "Transformer"}, k2 \in {"PiLine", "Transformer", "RXLine"},
               s \in {1000, 3000}, t \in {1000, 3000}}}
MCSystems == SwitchedSystems \cup LevelSystems

MCVSet == (0 :> 0) @@ (1 :> 6) @@ (2 :> 12)
MCLimits == {[max |-> p, min |-> q] : p \in {-6, 6, NoLimit}, q \in {-12, 6, NoLimit}}
MCLoads == {(0 :> 0) @@ (1 :> 0) @@ (2 :> 0), (0 :> 0) @@ (1 :> 6) @@ (2 :> 0)}

\* The condition under which reuse is proved not to show holds of this network.
\* The voltages are closed under what it finds for the injections.
ASSUME LinearNetworkAssumption ==
  HeldDetermines({-6, -4, -2, 0, 2, 3, 4, 6, 9, 12}, {-6, 0, 6})

Unlimited == [max |-> NoLimit, min |-> NoLimit]

\* A minimum is not above a maximum, the slack is not limited, and the systems
\* that are about levels are solved in one setting only.
MCInit ==
  /\ Init
  /\ limits[0] = Unlimited
  /\ \A n \in Nodes : NoLimit \in {limits[n].max, limits[n].min} \/ limits[n].min <= limits[n].max
  /\ comps \in LevelSystems => /\ \A n \in Nodes : limits[n] = Unlimited
                               /\ ~mEnforceReactiveLimits /\ ~mKeepLastSolution
  /\ ~mEnforceReactiveLimits => /\ mMaxOuterIterations = 10
                                /\ \A n \in Nodes : limits[n] = Unlimited

MCSpec == MCInit /\ [][Next]_vars
=============================================================================
