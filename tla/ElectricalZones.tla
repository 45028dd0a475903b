--------------------------- MODULE ElectricalZones --------------------------
(***************************************************************************)
(* PFSolver::propagateAndVerifyBaseVoltage(): the nodes joined by lines    *)
(* form an electrical zone, found with a union-find forest; the components *)
(* at the nodes of a zone propose its base voltage and are verified        *)
(* against each other.                                                     *)
(*                                                                         *)
(* A component is a record of its kind, its nodes and the voltage it       *)
(* proposes at each of them (0: none); a system is a sequence of them, in  *)
(* the order of mSystem.mComponents.  Voltages are integers.               *)
(***************************************************************************)
EXTENDS Integers, Sequences, FiniteSets

CONSTANTS
  NumNodes,         \* mSystem.mNodes.size()
  StrictTolerance,  \* mBaseVoltageStrictTolerance, in percent
  LooseTolerance    \* mBaseVoltageLooseTolerance, in percent

ASSUME ZonesAssumption ==
  NumNodes \in Nat \ {0} /\ StrictTolerance \in Nat /\ LooseTolerance \in Nat

\* The matrix node indices that assignMatrixNodeIndices() gives out.
Nodes == 0..(NumNodes - 1)

LineKinds == {"PiLine", "RXLine"}

AuthoritativeKinds ==
  {"SynchronGenerator", "Transformer", "NetworkInjection", "VSI"}

\* The lists of components there are: a line has two terminals, a load one.
Component == [kind : STRING, nodes : Seq(Nodes), rating : Seq(Int), bus : STRING]
WellFormed(comps) ==
  /\ comps \in Seq(Component)
  /\ \A i \in DOMAIN comps :
       /\ Len(comps[i].rating) = Len(comps[i].nodes)
       /\ comps[i].kind \in LineKinds => Len(comps[i].nodes) = 2
       /\ comps[i].kind = "Load" => Len(comps[i].nodes) = 1

\* mSystem.mComponentsAtNode[n], as positions in the list of components.
At(comps, n) == {i \in DOMAIN comps : \E t \in DOMAIN comps[i].nodes :
                                        comps[i].nodes[t] = n}

\* componentBaseVoltage(): the first terminal at the node decides.
ComponentBaseVoltage(c, n) ==
  LET t == CHOOSE k \in DOMAIN c.nodes :
             c.nodes[k] = n /\ \A j \in 1..(k - 1) : c.nodes[j] # n
  IN  c.rating[t]

\* findZone(): the root of a node.  The path halving on the way shortens
\* paths and moves no root.
FindZone(parent) ==
  LET root[n \in Nodes] == IF parent[n] = n THEN n ELSE root[parent[n]]
  IN  root

\* Fault: the node itself is hooked to the other zone, not its root.
UniteNodes(parent, a, b) == [parent EXCEPT ![a] = FindZone(parent)[b]]

UniteZones(parent, a, b) ==
  [parent EXCEPT ![FindZone(parent)[a]] = FindZone(parent)[b]]

\* zoneParent after the loop over the lines, and the zone of every node.
ZoneParent(comps) ==
  LET after[i \in 0..Len(comps)] ==
        IF i = 0 THEN [n \in Nodes |-> n]
        ELSE IF comps[i].kind \notin LineKinds THEN after[i - 1]
        ELSE UniteZones(after[i - 1], comps[i].nodes[1], comps[i].nodes[2])
  IN  after[Len(comps)]
Zone(comps) == FindZone(ZoneParent(comps))

\* The proposals for zone z in the order they are collected: by node, then by
\* position in the list of components.
Proposals(comps, z, authoritative) ==
  {p \in Nodes \X (DOMAIN comps) :
     /\ Zone(comps)[p[1]] = z /\ p[2] \in At(comps, p[1])
     /\ ComponentBaseVoltage(comps[p[2]], p[1]) # 0
     /\ (comps[p[2]].kind \in AuthoritativeKinds) = authoritative}
Proposed(comps, p) == ComponentBaseVoltage(comps[p[2]], p[1])
First(P) == CHOOSE p \in P : \A q \in P : p[1] < q[1] \/ (p[1] = q[1] /\ p[2] <= q[2])

\* verify(): relDiff > tolerance for some proposal.
Magnitude(x) == IF x < 0 THEN -x ELSE x
Larger(x, y) == IF x > y THEN x ELSE y
Differs(x, y, tolerance) ==
  100 * Magnitude(x - y) > tolerance * Larger(Magnitude(x), Magnitude(y))
Mismatch(comps, P, reference, tolerance) ==
  \E p \in P : Differs(Proposed(comps, p), reference, tolerance)

\* zoneVoltage: the first authoritative proposal, or else the first of all.
ZoneVoltage(comps, z) ==
  LET strong == Proposals(comps, z, TRUE)
      weak == Proposals(comps, z, FALSE)
  IN  IF strong # {} THEN Proposed(comps, First(strong))
      ELSE IF weak # {} THEN Proposed(comps, First(weak)) ELSE 0

\* std::invalid_argument: two voltage levels are wired together.
ZoneMismatch(comps) ==
  \E z \in Nodes :
    \/ Mismatch(comps, Proposals(comps, z, TRUE), ZoneVoltage(comps, z), StrictTolerance)
    \/ Mismatch(comps, Proposals(comps, z, FALSE), ZoneVoltage(comps, z), LooseTolerance)

\* mBaseVoltageAtNode.
BaseVoltageAtNode(comps) == [n \in Nodes |-> ZoneVoltage(comps, Zone(comps)[n])]

\* Every load takes over the voltage of its zone (if there is one).
SyncLoads(comps) ==
  [i \in DOMAIN comps |->
     LET v == ZoneVoltage(comps, Zone(comps)[comps[i].nodes[1]])
     IN  IF comps[i].kind = "Load" /\ v # 0
         THEN [comps[i] EXCEPT !.rating = <<v>>] ELSE comps[i]]

-----------------------------------------------------------------------------
(* The reference: what a zone is, without an algorithm.                    *)

Joined(comps, n, m) ==
  \E i \in DOMAIN comps : /\ comps[i].kind \in {"PiLine", "RXLine"}
                          /\ {n, m} = {comps[i].nodes[1], comps[i].nodes[2]}

ClosedUnderLines(comps, S) ==
  \A k \in S, l \in Nodes : Joined(comps, k, l) => l \in S

\* The nodes that lines connect with n: those in every set with n that no line
\* leaves.
ConnectedWith(comps, n) ==
  {m \in Nodes : \A S \in SUBSET Nodes :
                   n \in S /\ ClosedUnderLines(comps, S) => m \in S}
=============================================================================
