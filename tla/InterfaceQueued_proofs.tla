----------------------- MODULE InterfaceQueued_proofs -----------------------
(***************************************************************************)
(* The two directions of InterfaceQueued and its close(), for any imports  *)
(* and exports, any configuration, any samples of the remote, and any      *)
(* interleaving of the simulation, the reader and the writer.              *)
(***************************************************************************)
EXTENDS InterfaceQueued, FiniteSetTheorems, WellFoundedInduction, TLAPS

ImportPackets == [id : Imports, seq : Nat, val : Nat, close : {FALSE}]
ExportPackets == [id : Exports, seq : Nat, val : Nat, close : {FALSE}]
InSamples == [ids : SUBSET Imports, val : Nat]
OutSamples == UNION {[S -> Nat] : S \in SUBSET Exports}

TypeOK ==
  /\ setup \in Setups
  /\ simPc \in {"open", "syncExports", "sync", "syncWait", "syncAgain", "pop",
                "popWait", "push", "close", "join", "closed"}
  /\ stepNo \in Nat /\ pushNo \in Nat /\ toPush \subseteq Exports
  /\ exportSeq \in [Exports -> Nat] /\ currentSeq \in Nat
  /\ importSeq \in [Imports -> Nat] /\ importVal \in [Imports -> Nat]
  /\ nextSeq \in Nat /\ popSeq \in Nat /\ fresh \subseteq Imports
  /\ mOpened \in BOOLEAN /\ workerOpen \in BOOLEAN
  /\ outQueue \in Seq(ExportPackets \cup {Close})
  /\ inQueue \in Seq(ImportPackets) /\ readBuf \in Seq(ImportPackets)
  /\ readerPc \in {"none", "loop", "read", "enqueue", "exited"}
  /\ readerSeq \in Nat
  /\ writerPc \in {"none", "wait", "write", "exited"}
  /\ attrsToWrite \subseteq ExportPackets
  /\ closing \in BOOLEAN
  /\ workerSeq \in [Exports -> Nat]
  /\ sent \in Seq(OutSamples)
  /\ inbound \in Seq(InSamples) /\ answers \in Nat

-----------------------------------------------------------------------------
(* Numbers and packets.                                                    *)

LEMMA SmallestOf ==
  ASSUME NEW S \in SUBSET Nat, S # {}
  PROVE  \E x \in S : \A y \in S : x <= y
<1> DEFINE R == {ss \in Nat \X Nat : ss[1] < ss[2]}
<1>1. IsWellFoundedOn(R, Nat)
  BY NatLessThanWellFounded, Zenon DEF OpToRel
<1> HIDE DEF R
<1>2. PICK x \in S : \A y \in S : ~(<<y, x>> \in R)
  BY <1>1, WFMin
<1>3. \A y \in S : <<y, x>> \in R <=> y < x
  BY DEF R
<1>4. \A y \in S : y \in Nat /\ x \in Nat
  OBVIOUS
<1>5. \A y \in S : ~(y < x)
  BY <1>2, <1>3
<1>6. \A y \in S : x <= y
  BY <1>4, <1>5
<1> QED BY <1>6

LEMMA LeastIsThere ==
  ASSUME NEW S \in SUBSET Nat, S # {}
  PROVE  LeastOf(S) \in S
BY SmallestOf DEF LeastOf

\* The elements of a set of numbers can be counted off in their order.
LEMMA Ranks ==
  ASSUME NEW S \in SUBSET Nat, IsFiniteSet(S), NEW n \in 1..Cardinality(S)
  PROVE  \E j \in S : Cardinality({k \in S : k <= j}) = n
<1> DEFINE upTo(j) == {k \in S : k <= j}
           bad == {m \in 1..Cardinality(S) : \A j \in S : Cardinality(upTo(j)) # m}
<1>1. Cardinality(S) \in Nat /\ \A j : IsFiniteSet(upTo(j)) /\ Cardinality(upTo(j)) \in Nat
  BY FS_Subset, FS_CardinalityType
<1>2. SUFFICES ASSUME bad # {} PROVE FALSE
  OBVIOUS
<1>3. PICK m \in bad : \A k \in bad : m <= k
  <2>1. bad \in SUBSET Nat
    OBVIOUS
  <2> HIDE DEF bad
  <2> QED BY <1>2, <2>1, SmallestOf
\* The m - 1 smallest elements.
<1>4. \E T \in SUBSET S : /\ Cardinality(T) = m - 1
                          /\ \A k \in T, l \in S \ T : k < l
  <2>1. CASE m = 1
    <3>1. Cardinality({}) = m - 1
      BY <2>1, FS_EmptySet
    <3> QED BY <3>1
  <2>2. CASE m # 1
    <3>1. m - 1 \in 1..Cardinality(S) /\ ~(m <= m - 1)
      BY <1>1, <1>3, <2>2
    <3>2. m - 1 \notin bad
      BY <1>3, <3>1
    <3>3. PICK j \in S : Cardinality(upTo(j)) = m - 1
      BY <3>1, <3>2
    <3> QED BY <3>3
  <2> QED BY <2>1, <2>2
<1>5. PICK T \in SUBSET S : /\ Cardinality(T) = m - 1
                            /\ \A k \in T, l \in S \ T : k < l
  BY <1>4
<1>6. S \ T # {}
  <2>1. m - 1 # Cardinality(S)
    BY <1>1, <1>3
  <2>2. S \ T = {} => T = S
    OBVIOUS
  <2> QED BY <1>5, <2>1, <2>2
<1>7. PICK j \in S \ T : \A l \in S \ T : j <= l
  <2>1. S \ T \in SUBSET Nat
    OBVIOUS
  <2> HIDE DEF bad
  <2> QED BY <1>6, <2>1, SmallestOf
<1>8. upTo(j) = T \cup {j}
  <2>1. ASSUME NEW k \in S PROVE k <= j <=> (k \in T \/ k = j)
    <3>1. k \in Nat /\ j \in Nat
      OBVIOUS
    <3>2. k \in T => k < j
      BY <1>5
    <3>3. k \notin T => j <= k
      BY <1>7
    <3> QED BY <3>1, <3>2, <3>3
  <2> QED BY <2>1
<1>9. Cardinality(T \cup {j}) = m
  <2>1. IsFiniteSet(T) /\ j \notin T
    BY FS_Subset
  <2>2. Cardinality(T \cup {j}) = Cardinality(T) + 1
    BY <2>1, FS_AddElement
  <2>3. m \in Nat
    BY <1>1, <1>3
  <2> QED BY <1>5, <2>2, <2>3
<1> QED BY <1>3, <1>8, <1>9

LEMMA SetupTyped ==
  ASSUME setup \in Setups
  PROVE  /\ BlockOnRead \subseteq Imports /\ SyncOnStart \subseteq Imports
         /\ WaitForOnWrite \subseteq Exports
         /\ setup.shapes \subseteq SUBSET Imports /\ setup.failures \in BOOLEAN
         /\ setup.maxSamples \in Nat
BY InterfaceAssumption DEF IsSetup, BlockOnRead, SyncOnStart, WaitForOnWrite

\* A sample becomes packets with consecutive sequence ids.
LEMMA SamplePackets ==
  ASSUME NEW s \in InSamples, NEW seq \in Nat
  PROVE  /\ PacketsOf(s, seq) \in Seq(ImportPackets)
         /\ Len(PacketsOf(s, seq)) = Cardinality(s.ids)
         /\ Cardinality(s.ids) \in Nat
         /\ \A n \in 1..Cardinality(s.ids) : /\ PacketsOf(s, seq)[n].seq = seq + n - 1
                                             /\ PacketsOf(s, seq)[n].val = s.val
<1> DEFINE S == s.ids
           rank(n) == CHOOSE j \in S : Cardinality({k \in S : k <= j}) = n
<1>1. S \in SUBSET Imports /\ S \in SUBSET Nat /\ IsFiniteSet(S) /\ s.val \in Nat
  BY InterfaceAssumption, FS_Subset DEF InSamples
<1>2. Cardinality(S) \in Nat
  BY <1>1, FS_CardinalityType
<1>3. \A n \in 1..Cardinality(S) : rank(n) \in Imports
  <2> SUFFICES ASSUME NEW n \in 1..Cardinality(S) PROVE rank(n) \in S
    BY <1>1
  <2> HIDE DEF S
  <2> QED BY <1>1, Ranks
<1> HIDE DEF rank
<1>4. PacketsOf(s, seq) = [n \in 1..Cardinality(S) |-> Packet(rank(n), seq + n - 1, s.val)]
  BY DEF PacketsOf, rank
<1>5. \A n \in 1..Cardinality(S) : Packet(rank(n), seq + n - 1, s.val) \in ImportPackets
  BY <1>1, <1>2, <1>3 DEF Packet, ImportPackets
<1> HIDE DEF S
<1>6. PacketsOf(s, seq) \in [1..Cardinality(S) -> ImportPackets]
  BY <1>4, <1>5
<1>7. PacketsOf(s, seq) \in Seq(ImportPackets) /\ Len(PacketsOf(s, seq)) = Cardinality(S)
  BY <1>2, <1>6
<1>8. \A n \in 1..Cardinality(S) : /\ PacketsOf(s, seq)[n].seq = seq + n - 1
                                   /\ PacketsOf(s, seq)[n].val = s.val
  BY <1>4 DEF Packet
<1> QED BY <1>2, <1>7, <1>8 DEF S

\* The remaining packets give an import its last value, if there is one.
LEMMA ApplyAllFacts ==
  ASSUME TypeOK, ApplyAll
  PROVE  /\ importSeq' \in [Imports -> Nat] /\ importVal' \in [Imports -> Nat]
         /\ \A i \in Imports :
              \/ importSeq'[i] = importSeq[i] /\ importVal'[i] = importVal[i]
              \/ /\ \E n \in 1..Len(inQueue) : /\ importSeq'[i] = inQueue[n].seq
                                               /\ importVal'[i] = inQueue[n].val
                 /\ i \in fresh'
         /\ fresh \subseteq fresh' /\ fresh' \subseteq Imports
         /\ nextSeq' = IF inQueue = <<>> THEN nextSeq ELSE inQueue[Len(inQueue)].seq + 1
         /\ inQueue' = <<>>
<1> DEFINE last(i) == {n \in 1..Len(inQueue) :
                         inQueue[n].id = i /\ \A m \in n+1..Len(inQueue) : inQueue[m].id # i}
           updated == {i \in Imports : last(i) # {}}
           packet(i) == inQueue[LeastOf(last(i))]
<1>1. /\ importSeq' = [i \in Imports |-> IF i \in updated THEN packet(i).seq ELSE importSeq[i]]
      /\ importVal' = [i \in Imports |-> IF i \in updated THEN packet(i).val ELSE importVal[i]]
      /\ nextSeq' = IF inQueue = <<>> THEN nextSeq ELSE inQueue[Len(inQueue)].seq + 1
      /\ fresh' = fresh \cup updated
      /\ inQueue' = <<>>
  BY DEF ApplyAll
<1>2. \A i : last(i) \in SUBSET Nat /\ last(i) \subseteq 1..Len(inQueue)
  OBVIOUS
<1> HIDE DEF last
<1>3. \A i \in updated : LeastOf(last(i)) \in 1..Len(inQueue)
  BY <1>2, LeastIsThere
<1>4. /\ importSeq \in [Imports -> Nat] /\ importVal \in [Imports -> Nat]
      /\ \A n \in 1..Len(inQueue) : inQueue[n].seq \in Nat /\ inQueue[n].val \in Nat
  <2>1. /\ importSeq \in [Imports -> Nat] /\ importVal \in [Imports -> Nat]
        /\ inQueue \in Seq(ImportPackets)
    BY DEF TypeOK
  <2>2. \A n \in 1..Len(inQueue) : inQueue[n] \in ImportPackets
    BY <2>1
  <2> QED BY <2>1, <2>2 DEF ImportPackets
<1>5. ASSUME NEW i \in Imports
      PROVE  /\ importSeq'[i] \in Nat /\ importVal'[i] \in Nat
             /\ \/ importSeq'[i] = importSeq[i] /\ importVal'[i] = importVal[i]
                \/ /\ \E n \in 1..Len(inQueue) : /\ importSeq'[i] = inQueue[n].seq
                                                 /\ importVal'[i] = inQueue[n].val
                   /\ i \in fresh'
  <2>1. CASE i \in updated
    BY <1>1, <1>3, <1>4, <2>1
  <2>2. CASE i \notin updated
    BY <1>1, <1>4, <2>2
  <2> QED BY <2>1, <2>2
<1>6. importSeq' \in [Imports -> Nat] /\ importVal' \in [Imports -> Nat]
  <2>1. /\ importSeq' = [i \in Imports |-> importSeq'[i]]
        /\ importVal' = [i \in Imports |-> importVal'[i]]
    BY <1>1
  <2> QED BY <1>5, <2>1
<1>7. fresh \subseteq fresh' /\ fresh' \subseteq Imports
  BY <1>1 DEF TypeOK
<1> QED BY <1>1, <1>5, <1>6, <1>7

-----------------------------------------------------------------------------
(* Types.                                                                  *)

\* The packet an operation takes from the queue is one of them.
LEMMA QueueFacts ==
  ASSUME NEW S, NEW q \in Seq(S), q # <<>>
  PROVE  /\ Len(q) \in 1..Len(q) /\ q[Len(q)] \in S /\ 1 \in 1..Len(q)
         /\ Head(q) = q[1] /\ Head(q) \in S
         /\ Tail(q) \in Seq(S) /\ Len(Tail(q)) = Len(q) - 1
         /\ \A n \in 1..Len(Tail(q)) : n + 1 \in 1..Len(q) /\ Tail(q)[n] = q[n + 1]
OBVIOUS

LEMMA AppendFacts ==
  ASSUME NEW S, NEW q \in Seq(S), NEW x \in S
  PROVE  /\ Append(q, x) \in Seq(S) /\ Len(Append(q, x)) = Len(q) + 1 /\ Len(q) \in Nat
         /\ \A n \in 1..Len(q) : Append(q, x)[n] = q[n]
         /\ Append(q, x)[Len(q) + 1] = x
OBVIOUS

\* One packet is applied.
LEMMA ApplyTyped ==
  ASSUME TypeOK, NEW p \in ImportPackets, Apply(p)
  PROVE  /\ importSeq' \in [Imports -> Nat] /\ importVal' \in [Imports -> Nat]
         /\ nextSeq' \in Nat /\ fresh' \subseteq Imports
         /\ p.id \in Imports /\ p.seq \in Nat /\ p.val \in Nat
BY DEF TypeOK, Apply, ImportPackets

LEMMA LatestTyped ==
  ASSUME TypeOK
  PROVE  /\ Latest(attrsToWrite) \subseteq attrsToWrite
         /\ \A p \in attrsToWrite : /\ p \in ExportPackets /\ p.id \in Exports
                                    /\ p.seq \in Nat /\ p.val \in Nat
BY DEF TypeOK, Latest, ExportPackets

LEMMA BeginWriteTyped ==
  ASSUME TypeOK, NEW kept, kept \subseteq attrsToWrite, BeginWrite(kept)
  PROVE  workerSeq' \in [Exports -> Nat]
<1> DEFINE ps(i) == {p \in kept : p.id = i}
           new(i) == IF ps(i) = {} THEN workerSeq[i] ELSE (CHOOSE p \in ps(i) : TRUE).seq
<1>1. workerSeq' = [i \in Exports |-> new(i)]
  BY DEF BeginWrite
<1>2. \A i \in Exports : new(i) \in Nat
  <2>1. workerSeq \in [Exports -> Nat]
    BY DEF TypeOK
  <2>2. \A p \in kept : p.seq \in Nat
    BY LatestTyped
  <2>3. \A i : ps(i) # {} => (CHOOSE p \in ps(i) : TRUE) \in kept
    OBVIOUS
  <2> QED BY <2>1, <2>2, <2>3
<1> QED BY <1>1, <1>2

\* What is written.
Asap(kept) == {p \in kept : p.id \notin WaitForOnWrite}
Sample(kept) == IF Complete(kept \ Asap(kept)) THEN kept ELSE Asap(kept)
Written(sample) == [i \in {p.id : p \in sample} |-> (CHOOSE p \in sample : p.id = i).val]

LEMMA WriteSteps ==
  ASSUME Write
  PROVE  LET kept == Latest(attrsToWrite) IN
         /\ BeginWrite(kept)
         /\ attrsToWrite' = kept \ Sample(kept)
         /\ \/ sent' = Append(sent, Written(Sample(kept)))
            \/ /\ UNCHANGED sent
               /\ Asap(kept) = {} \/ setup.failures
BY DEF Write, Left, Asap, Sample, Written

LEMMA WrittenTyped ==
  ASSUME TypeOK, NEW sample, sample \subseteq attrsToWrite
  PROVE  /\ Written(sample) \in OutSamples
         /\ DOMAIN Written(sample) = {p.id : p \in sample}
         /\ \A i \in DOMAIN Written(sample) :
              \E p \in sample : p.id = i /\ Written(sample)[i] = p.val
<1> DEFINE ids == {p.id : p \in sample}
           one(i) == CHOOSE p \in sample : p.id = i
<1>1. Written(sample) = [i \in ids |-> one(i).val]
  BY DEF Written
<1>2. \A i \in ids : one(i) \in sample /\ one(i).id = i
  OBVIOUS
<1>3. \A p \in sample : p.id \in Exports /\ p.val \in Nat
  BY LatestTyped
<1> HIDE DEF one
<1>4. ids \in SUBSET Exports
  BY <1>3
<1>5. Written(sample) \in [ids -> Nat]
  BY <1>1, <1>2, <1>3
<1>6. Written(sample) \in OutSamples
  BY <1>4, <1>5 DEF OutSamples
<1> QED BY <1>1, <1>2, <1>6

LEMMA TypesInit == Init => TypeOK
<1> SUFFICES ASSUME Init PROVE TypeOK
  OBVIOUS
<1>1. \A S : <<>> \in Seq(S)
  OBVIOUS
<1>2. /\ outQueue \in Seq(ExportPackets \cup {Close})
      /\ inQueue \in Seq(ImportPackets) /\ readBuf \in Seq(ImportPackets)
      /\ sent \in Seq(OutSamples) /\ inbound \in Seq(InSamples)
  BY <1>1 DEF Init
<1>3. /\ exportSeq \in [Exports -> Nat] /\ workerSeq \in [Exports -> Nat]
      /\ importSeq \in [Imports -> Nat] /\ importVal \in [Imports -> Nat]
  BY DEF Init
<1> QED BY <1>2, <1>3 DEF Init, TypeOK

LEMMA TypesSim ==
  ASSUME TypeOK, SimStep
  PROVE  TypeOK'
<1>1. UNCHANGED setup /\ setup \in Setups
  BY DEF SimStep, TypeOK
<1> USE DEF readerVars, writerVars, remoteVars, importVars
<1>2. CASE Open
  BY <1>1, <1>2 DEF TypeOK, Open, BeginPush
<1>3. CASE Push
  <2>1. LeastOf(toPush) \in toPush
    BY <1>3, InterfaceAssumption, LeastIsThere DEF Push, TypeOK
  <2> DEFINE i == LeastOf(toPush)
  <2>2. i \in Exports
    BY <2>1 DEF TypeOK
  <2>3. /\ outQueue' = Append(outQueue, Packet(i, exportSeq[i], pushNo))
        /\ exportSeq' = [exportSeq EXCEPT ![i] = currentSeq]
        /\ toPush' = toPush \ {i} /\ currentSeq' = currentSeq + 1
        /\ UNCHANGED <<simPc, stepNo, pushNo, importVars, mOpened, workerOpen, inQueue,
                       readerVars, writerVars, remoteVars>>
    BY <1>3 DEF Push
  <2> HIDE DEF i
  <2>4. Packet(i, exportSeq[i], pushNo) \in ExportPackets \cup {Close}
    BY <2>2 DEF TypeOK, Packet, ExportPackets
  <2>5. outQueue' \in Seq(ExportPackets \cup {Close})
    BY <2>3, <2>4, AppendFacts DEF TypeOK
  <2> QED BY <1>1, <2>2, <2>3, <2>5 DEF TypeOK
<1>4. CASE SyncImports
  BY <1>1, <1>4 DEF TypeOK, SyncImports, BeginPop
<1>5. CASE PopOverrun
  <2>1. /\ Apply(inQueue[Len(inQueue)]) /\ inQueue # <<>> /\ inQueue' = <<>>
        /\ UNCHANGED <<simPc, PopOther>>
    BY <1>5 DEF PopOverrun, AfterOverrun
  <2>2. inQueue[Len(inQueue)] \in ImportPackets
    BY <2>1, QueueFacts DEF TypeOK
  <2>3. /\ importSeq' \in [Imports -> Nat] /\ importVal' \in [Imports -> Nat]
        /\ nextSeq' \in Nat /\ fresh' \subseteq Imports
    BY <2>1, <2>2, ApplyTyped
  <2> QED BY <1>1, <2>1, <2>3 DEF TypeOK, PopOther
<1>6. CASE PopFoundEmpty
  BY <1>1, <1>6 DEF TypeOK, PopFoundEmpty, PopOther
<1>7. CASE PopOne
  <2>1. /\ Apply(Head(inQueue)) /\ inQueue # <<>> /\ inQueue' = Tail(inQueue)
        /\ simPc' = IF simPc = "syncWait" THEN "sync" ELSE "pop"
        /\ UNCHANGED PopOther
    BY <1>7 DEF PopOne
  <2>2. Head(inQueue) \in ImportPackets /\ Tail(inQueue) \in Seq(ImportPackets)
    BY <2>1, QueueFacts DEF TypeOK
  <2>3. /\ importSeq' \in [Imports -> Nat] /\ importVal' \in [Imports -> Nat]
        /\ nextSeq' \in Nat /\ fresh' \subseteq Imports
    BY <2>1, <2>2, ApplyTyped
  <2> QED BY <1>1, <2>1, <2>2, <2>3 DEF TypeOK, PopOther
<1>8. CASE SyncAgain \/ PostStep
  <2>1. /\ ApplyAll /\ (BeginPush("syncAgain") \/ BeginPush("push"))
        /\ UNCHANGED <<stepNo, exportSeq, currentSeq, popSeq, mOpened, workerOpen,
                       outQueue, readerVars, writerVars, remoteVars>>
    BY <1>8 DEF SyncAgain, PostStep, PopDone
  <2>2. /\ importSeq' \in [Imports -> Nat] /\ importVal' \in [Imports -> Nat]
        /\ fresh' \subseteq Imports /\ inQueue' = <<>>
        /\ nextSeq' = IF inQueue = <<>> THEN nextSeq ELSE inQueue[Len(inQueue)].seq + 1
    BY <2>1, ApplyAllFacts
  <2>3. nextSeq' \in Nat
    <3>1. CASE inQueue = <<>>
      BY <2>2, <3>1 DEF TypeOK
    <3>2. CASE inQueue # <<>>
      <4>1. inQueue[Len(inQueue)] \in ImportPackets
        BY <3>2, QueueFacts DEF TypeOK
      <4>2. inQueue[Len(inQueue)].seq \in Nat
        BY <4>1 DEF ImportPackets
      <4> QED BY <2>2, <3>2, <4>2
    <3> QED BY <3>1, <3>2
  <2> QED BY <1>1, <2>1, <2>2, <2>3 DEF TypeOK, BeginPush
<1>9. CASE PreStep \/ SkipStep
  <2>1. /\ UNCHANGED <<toPush, pushNo, exportSeq, currentSeq, importSeq, importVal, nextSeq, mOpened,
                       workerOpen, outQueue, inQueue, readerVars, writerVars, remoteVars>>
        /\ stepNo' = stepNo + 1
        /\ simPc' = simPc \/ simPc' = "pop"
        /\ popSeq' \in {popSeq, nextSeq} /\ fresh' \in {fresh, {}}
    BY <1>9 DEF PreStep, SkipStep, BeginPop
  <2> QED BY <1>1, <2>1 DEF TypeOK
<1>10. CASE BeginClose \/ CloseWorker
  <2>1. /\ UNCHANGED <<stepNo, toPush, pushNo, exportSeq, currentSeq, importVars, outQueue,
                       inQueue, readerVars, writerVars, remoteVars>>
        /\ simPc' \in {"close", "closed"}
        /\ mOpened' \in {mOpened, FALSE} /\ workerOpen' \in {workerOpen, FALSE}
    BY <1>10 DEF BeginClose, CloseWorker
  <2> QED BY <1>1, <2>1 DEF TypeOK
<1>11. CASE PushClose
  <2>1. outQueue' \in Seq(ExportPackets \cup {Close})
    BY <1>11, AppendFacts DEF PushClose, TypeOK
  <2> QED BY <1>1, <1>11, <2>1 DEF TypeOK, PushClose
<1> QED BY <1>2, <1>3, <1>4, <1>5, <1>6, <1>7, <1>8, <1>9, <1>10, <1>11 DEF SimStep

LEMMA TypesReader ==
  ASSUME TypeOK, ReaderStep
  PROVE  TypeOK'
<1>1. UNCHANGED setup /\ setup \in Setups
  BY DEF ReaderStep, TypeOK
<1> USE DEF ReaderOther, simVars, importVars, writerVars
<1>2. CASE ReaderLoop \/ ReadNothing
  BY <1>1, <1>2 DEF TypeOK, ReaderLoop, ReadNothing
<1>3. CASE ReadSample
  <2>1. Head(inbound) \in InSamples /\ Tail(inbound) \in Seq(InSamples)
    BY <1>3, QueueFacts DEF ReadSample, TypeOK
  <2>2. /\ PacketsOf(Head(inbound), readerSeq) \in Seq(ImportPackets)
        /\ Cardinality(Head(inbound).ids) \in Nat
    BY <2>1, SamplePackets DEF TypeOK
  <2>3. /\ readBuf' = PacketsOf(Head(inbound), readerSeq)
        /\ readerSeq' = readerSeq + Cardinality(Head(inbound).ids)
        /\ inbound' = Tail(inbound) /\ readerPc' = "enqueue"
        /\ UNCHANGED <<ReaderOther, inQueue>>
    BY <1>3 DEF ReadSample
  <2> QED BY <1>1, <2>1, <2>2, <2>3 DEF TypeOK
<1>4. CASE Enqueue
  <2>1. readBuf # <<>> => /\ Append(inQueue, Head(readBuf)) \in Seq(ImportPackets)
                          /\ Tail(readBuf) \in Seq(ImportPackets)
    BY QueueFacts, AppendFacts DEF TypeOK
  <2> QED BY <1>1, <1>4, <2>1 DEF TypeOK, Enqueue
<1> QED BY <1>2, <1>3, <1>4 DEF ReaderStep

LEMMA TypesWriter ==
  ASSUME TypeOK, WriterStep
  PROVE  TypeOK'
<1>1. UNCHANGED setup /\ setup \in Setups
  BY DEF WriterStep, TypeOK
<1> USE DEF WriterOther, simVars, importVars, readerVars, remoteVars
<1>2. CASE Collect
  <2>1. \A p \in RangeOf(outQueue) : ~p.close => p \in ExportPackets
    BY DEF TypeOK, RangeOf, Close
  <2> QED BY <1>1, <1>2, <2>1 DEF TypeOK, Collect
<1>3. ASSUME BeginWrite(Latest(attrsToWrite))
      PROVE  /\ workerSeq' \in [Exports -> Nat] /\ writerPc' \in {"wait", "exited"}
             /\ UNCHANGED <<WriterOther, outQueue, closing>>
  BY <1>3, LatestTyped, BeginWriteTyped DEF BeginWrite, AfterWrite
<1>4. CASE NoSample
  BY <1>1, <1>3, <1>4, LatestTyped DEF TypeOK, NoSample
<1>5. CASE Write
  <2>1. Sample(Latest(attrsToWrite)) \subseteq attrsToWrite
    BY LatestTyped DEF Sample, Asap
  <2>2. sent' \in Seq(OutSamples)
    <3> DEFINE w == Written(Sample(Latest(attrsToWrite)))
    <3>1. w \in OutSamples
      BY <2>1, WrittenTyped
    <3> HIDE DEF w
    <3>2. sent \in Seq(OutSamples)
      BY DEF TypeOK
    <3>3. Append(sent, w) \in Seq(OutSamples)
      BY <3>1, <3>2, AppendFacts
    <3>4. sent' = Append(sent, w) \/ sent' = sent
      BY <1>5, WriteSteps DEF w
    <3> QED BY <3>2, <3>3, <3>4
  <2>3. attrsToWrite' \subseteq ExportPackets
    BY <1>5, WriteSteps, LatestTyped
  <2> QED BY <1>1, <1>3, <1>5, <2>2, <2>3, WriteSteps DEF TypeOK
<1> QED BY <1>2, <1>4, <1>5 DEF WriterStep

LEMMA TypesRemote ==
  ASSUME TypeOK, RemoteAnswers
  PROVE  TypeOK'
<1>1. PICK s \in setup.shapes : inbound' = Append(inbound, [ids |-> s, val |-> answers + 1])
  BY DEF RemoteAnswers
<1>2. [ids |-> s, val |-> answers + 1] \in InSamples
  BY <1>1, SetupTyped DEF TypeOK, InSamples
<1>3. inbound' \in Seq(InSamples)
  BY <1>1, <1>2, AppendFacts DEF TypeOK
<1> QED BY <1>3 DEF TypeOK, RemoteAnswers, simVars, importVars, readerVars, writerVars

LEMMA TypesNext == TypeOK /\ [Next]_vars => TypeOK'
<1> SUFFICES ASSUME TypeOK, [Next]_vars PROVE TypeOK'
  OBVIOUS
<1>1. CASE UNCHANGED vars
  BY <1>1 DEF TypeOK, vars, simVars, importVars, readerVars, writerVars, remoteVars
<1> QED BY <1>1, TypesSim, TypesReader, TypesWriter, TypesRemote DEF Next, Closed

(***************************************************************************)
(* The members and queues of the interface and the worker keep their       *)
(* types, whatever the remote sends.                                       *)
(***************************************************************************)
THEOREM TypeCorrectness == Spec => []TypeOK
BY TypesInit, TypesNext, PTL DEF Spec

-----------------------------------------------------------------------------
(* The threads.                                                            *)

ThreadInv ==
  /\ simPc = "open" => readerPc = "none" /\ writerPc = "none"
  /\ workerOpen \/ {readerPc, writerPc} \subseteq {"none", "exited"}

LEMMA ThreadNext ==
  ASSUME ThreadInv, [Next]_vars
  PROVE  ThreadInv'
<1> USE DEF ThreadInv, simVars, importVars, readerVars, writerVars, remoteVars
<1>1. CASE Open
  BY <1>1 DEF Open, BeginPush
<1>2. CASE Push \/ SyncImports \/ SyncAgain \/ PreStep \/ SkipStep \/ PostStep
  BY <1>2 DEF Push, SyncImports, SyncAgain, PreStep, SkipStep, PostStep, BeginPop,
     BeginPush, PopDone, Ready
<1>3. CASE PopOverrun \/ PopFoundEmpty \/ PopOne
  BY <1>3 DEF PopOverrun, PopFoundEmpty, PopOne, PopOther, Popping
<1>4. CASE BeginClose \/ PushClose
  BY <1>4 DEF BeginClose, PushClose
<1>5. CASE CloseWorker
  BY <1>5 DEF CloseWorker, Joined
<1>6. CASE ReaderStep
  BY <1>6 DEF ReaderStep, ReaderLoop, ReadNothing, ReadSample, Enqueue, ReaderOther
<1>7. CASE Collect
  BY <1>7 DEF Collect, WriterOther
<1>8. CASE NoSample \/ Write
  <2>1. \E kept : BeginWrite(kept)
    BY <1>8, WriteSteps DEF NoSample
  <2> QED BY <2>1 DEF BeginWrite, WriterOther
<1>9. CASE RemoteAnswers \/ UNCHANGED vars
  BY <1>9 DEF RemoteAnswers, vars
<1> QED BY <1>1, <1>2, <1>3, <1>4, <1>5, <1>6, <1>7, <1>8, <1>9
        DEF Next, SimStep, WriterStep, Closed

(***************************************************************************)
(* close() joins both threads before the worker is closed, so that neither *)
(* calls it afterwards.                                                    *)
(***************************************************************************)
THEOREM Closing == Spec => []NoCallsAfterClose
<1>1. Init => ThreadInv
  BY DEF Init, ThreadInv
<1>2. ThreadInv => NoCallsAfterClose
  BY DEF ThreadInv, NoCallsAfterClose
<1> QED BY <1>1, <1>2, ThreadNext, PTL DEF Spec

-----------------------------------------------------------------------------
(* The imports.                                                            *)

\* The packets between the worker and the simulation; handing one of them over
\* to the queue changes nothing.
Stream == inQueue \o readBuf

\* The number of the last sample that was read.
LastRead == answers - Len(inbound)

\* Sequence ids and values only grow, from the values of the imports over the
\* packets on their way to the samples that are not read yet.
ImportInv ==
  /\ readerPc # "enqueue" => readBuf = <<>>
  /\ LastRead >= 0
  /\ \A k \in 1..Len(inbound) : inbound[k].val = LastRead + k
  /\ \A m, n \in 1..Len(Stream) :
       m < n => Stream[m].seq < Stream[n].seq /\ Stream[m].val <= Stream[n].val
  /\ \A n \in 1..Len(Stream) : /\ nextSeq <= Stream[n].seq /\ Stream[n].seq < readerSeq
                               /\ Stream[n].val <= LastRead
  /\ nextSeq <= readerSeq
  /\ \A i \in Imports : /\ importSeq[i] < nextSeq
                        /\ importVal[i] <= LastRead
                        /\ \A n \in 1..Len(Stream) : importVal[i] <= Stream[n].val

\* An import with an id that was given out since the call is a new one.
FreshInv ==
  /\ simPc \in {"sync", "syncWait", "pop", "popWait"} =>
       \A i \in Imports : importSeq[i] >= popSeq => i \in fresh
  /\ StepsOnNewValues

Forward ==
  \A i \in Imports : importVal'[i] >= importVal[i] /\ importSeq'[i] >= importSeq[i]

LEMMA ConcatFacts ==
  ASSUME NEW S, NEW s \in Seq(S), NEW r \in Seq(S)
  PROVE  /\ s \o r \in Seq(S) /\ Len(s \o r) = Len(s) + Len(r)
         /\ Len(s) \in Nat /\ Len(r) \in Nat
         /\ \A n \in 1..Len(s) : n \in 1..Len(s \o r) /\ (s \o r)[n] = s[n]
         /\ \A n \in 1..Len(r) : n + Len(s) \in 1..Len(s \o r) /\ (s \o r)[n + Len(s)] = r[n]
         /\ s = <<>> => s \o r = r
         /\ r = <<>> => s \o r = s
<1>1. /\ s \o r \in Seq(S) /\ Len(s \o r) = Len(s) + Len(r)
      /\ Len(s) \in Nat /\ Len(r) \in Nat
      /\ \A n \in 1..Len(s) : n \in 1..Len(s \o r) /\ (s \o r)[n] = s[n]
  OBVIOUS
<1>2. \A n \in 1..Len(r) : n + Len(s) \in 1..Len(s \o r) /\ (s \o r)[n + Len(s)] = r[n]
  OBVIOUS
<1>3. s = <<>> => s \o r = r
  OBVIOUS
<1>4. r = <<>> => s \o r = s
  OBVIOUS
<1> QED BY <1>1, <1>2, <1>3, <1>4

LEMMA StreamTyped ==
  ASSUME TypeOK
  PROVE  /\ Stream \in Seq(ImportPackets) /\ Len(Stream) \in Nat
         /\ \A n \in 1..Len(Stream) : Stream[n].seq \in Nat /\ Stream[n].val \in Nat
         /\ Len(inQueue) \in 0..Len(Stream)
         /\ \A n \in 1..Len(inQueue) : n \in 1..Len(Stream) /\ Stream[n] = inQueue[n]
<1>1. inQueue \in Seq(ImportPackets) /\ readBuf \in Seq(ImportPackets)
  BY DEF TypeOK
<1>2. /\ Stream \in Seq(ImportPackets) /\ Len(Stream) = Len(inQueue) + Len(readBuf)
      /\ Len(inQueue) \in Nat /\ Len(readBuf) \in Nat
      /\ \A n \in 1..Len(inQueue) : n \in 1..Len(Stream) /\ Stream[n] = inQueue[n]
  BY <1>1, ConcatFacts DEF Stream
<1>3. Len(Stream) \in Nat /\ \A n \in 1..Len(Stream) : Stream[n] \in ImportPackets
  BY <1>2
<1>4. \A n \in 1..Len(Stream) : Stream[n].seq \in Nat /\ Stream[n].val \in Nat
  BY <1>3 DEF ImportPackets
<1>5. Len(inQueue) \in 0..Len(Stream)
  BY <1>2
<1> QED BY <1>2, <1>3, <1>4, <1>5

\* The first k packets are taken, and no import is given anything but one of
\* them.
LEMMA Taken ==
  ASSUME TypeOK, TypeOK', ImportInv, NEW k \in 0..Len(Stream),
         UNCHANGED <<readBuf, readerSeq, remoteVars>>,
         readerPc = "enqueue" => readerPc' = "enqueue",
         Len(Stream') = Len(Stream) - k,
         \A n \in 1..Len(Stream') : Stream'[n] = Stream[n + k],
         nextSeq' = IF k = 0 THEN nextSeq ELSE Stream[k].seq + 1,
         \A i \in Imports :
           \/ importSeq'[i] = importSeq[i] /\ importVal'[i] = importVal[i]
           \/ \E m \in 1..k : importSeq'[i] = Stream[m].seq /\ importVal'[i] = Stream[m].val
  PROVE  ImportInv' /\ Forward
<1>1. /\ Len(Stream) \in Nat
      /\ \A n \in 1..Len(Stream) : Stream[n].seq \in Nat /\ Stream[n].val \in Nat
  BY StreamTyped
<1>2. /\ nextSeq \in Nat /\ readerSeq \in Nat /\ LastRead \in Int
      /\ \A i \in Imports : importSeq[i] \in Nat /\ importVal[i] \in Nat
  <2>1. inbound \in Seq(InSamples) /\ answers \in Nat
    BY DEF TypeOK
  <2>2. LastRead \in Int
    BY <2>1 DEF LastRead
  <2> QED BY <2>2 DEF TypeOK
<1>3. UNCHANGED <<readBuf, readerSeq, inbound, LastRead>>
  BY DEF remoteVars, LastRead
<1>4. \A m \in 1..k : m \in 1..Len(Stream)
  BY <1>1
<1>5. \A n \in 1..Len(Stream') : n + k \in 1..Len(Stream) /\ Stream'[n] = Stream[n + k]
  BY <1>1
<1> DEFINE str == Stream
           rem == Stream'
<1> HIDE DEF str, rem
<1>6. /\ \A m, n \in 1..Len(str) : m < n => str[m].seq < str[n].seq /\ str[m].val <= str[n].val
      /\ \A n \in 1..Len(str) : /\ nextSeq <= str[n].seq /\ str[n].seq < readerSeq
                                /\ str[n].val <= LastRead
      /\ \A i \in Imports : /\ importSeq[i] < nextSeq
                            /\ importVal[i] <= LastRead
                            /\ \A n \in 1..Len(str) : importVal[i] <= str[n].val
  BY DEF ImportInv, str
<1>7. \A m, n \in 1..Len(rem) :
        m < n => rem[m].seq < rem[n].seq /\ rem[m].val <= rem[n].val
  <2> SUFFICES ASSUME NEW m \in 1..Len(rem), NEW n \in 1..Len(rem), m < n
               PROVE  rem[m].seq < rem[n].seq /\ rem[m].val <= rem[n].val
    OBVIOUS
  <2>1. m + k < n + k
    BY <1>1
  <2> QED BY <1>5, <1>6, <2>1 DEF str, rem
<1>8. nextSeq <= nextSeq' /\ nextSeq' <= readerSeq
  <2>1. CASE k = 0
    BY <1>2, <2>1 DEF ImportInv
  <2>2. CASE k # 0
    <3>1. k \in 1..Len(Stream)
      BY <1>1, <2>2
    <3> QED BY <1>1, <1>2, <1>6, <2>2, <3>1 DEF str
  <2> QED BY <2>1, <2>2
<1>9. ASSUME NEW n \in 1..Len(rem)
      PROVE  /\ nextSeq' <= rem[n].seq /\ rem[n].seq < readerSeq /\ rem[n].val <= LastRead
             /\ \A m \in 1..k : Stream[m].val <= rem[n].val
  <2>1. n + k \in 1..Len(str) /\ rem[n] = str[n + k]
    BY <1>5 DEF str, rem
  <2>2. \A m \in 1..k : m < n + k
    OBVIOUS
  <2>3. nextSeq' <= rem[n].seq
    <3>1. CASE k = 0
      BY <1>6, <2>1, <3>1
    <3>2. CASE k # 0
      <4>1. k \in 1..Len(str) /\ k < n + k
        BY <1>1, <3>2 DEF str
      <4>2. str[k].seq < str[n + k].seq
        BY <1>6, <2>1, <4>1
      <4>3. str[k].seq \in Nat /\ str[n + k].seq \in Nat
        BY <1>1, <2>1, <4>1 DEF str
      <4> QED BY <2>1, <3>2, <4>2, <4>3 DEF str
    <3> QED BY <3>1, <3>2
  <2>4. \A m \in 1..k : Stream[m].val <= rem[n].val
    BY <1>4, <1>6, <2>1, <2>2 DEF str
  <2> QED BY <1>6, <2>1, <2>3, <2>4
<1>10. ASSUME NEW i \in Imports
       PROVE  /\ importSeq'[i] < nextSeq' /\ importVal'[i] <= LastRead
              /\ \A n \in 1..Len(rem) : importVal'[i] <= rem[n].val
              /\ importVal'[i] >= importVal[i] /\ importSeq'[i] >= importSeq[i]
  <2>1. CASE importSeq'[i] = importSeq[i] /\ importVal'[i] = importVal[i]
    <3>1. importSeq[i] < nextSeq'
      <4>1. nextSeq' \in Nat
        BY DEF TypeOK
      <4> QED BY <1>2, <1>6, <1>8, <4>1
    <3>2. \A n \in 1..Len(rem) : importVal[i] <= rem[n].val
      BY <1>5, <1>6 DEF str, rem
    <3> QED BY <1>2, <1>6, <2>1, <3>1, <3>2
  <2>2. CASE \E m \in 1..k : importSeq'[i] = Stream[m].seq /\ importVal'[i] = Stream[m].val
    <3>1. PICK m \in 1..k : importSeq'[i] = Stream[m].seq /\ importVal'[i] = Stream[m].val
      BY <2>2
    <3>2. m \in 1..Len(str) /\ k \in 1..Len(str) /\ k # 0
      BY <1>1, <1>4 DEF str
    <3>3. m = k \/ m < k
      OBVIOUS
    <3>4. str[m].seq <= str[k].seq /\ str[m].seq \in Nat /\ str[k].seq \in Nat
          /\ str[m].val \in Nat
      BY <1>1, <1>6, <3>2, <3>3 DEF str
    <3>5. importSeq'[i] < nextSeq'
      BY <3>1, <3>2, <3>4 DEF str
    <3>6. importVal'[i] >= importVal[i] /\ importSeq'[i] >= importSeq[i]
      BY <1>2, <1>6, <3>1, <3>2, <3>4 DEF str
    <3>7. importVal'[i] <= LastRead
      BY <1>6, <3>1, <3>2 DEF str
    <3> QED BY <1>9, <3>1, <3>5, <3>6, <3>7
  <2> QED BY <2>1, <2>2
<1>11. /\ \A m, n \in 1..Len(Stream') :
            m < n => Stream'[m].seq < Stream'[n].seq /\ Stream'[m].val <= Stream'[n].val
       /\ \A n \in 1..Len(Stream') : /\ nextSeq' <= Stream'[n].seq /\ Stream'[n].seq < readerSeq
                                     /\ Stream'[n].val <= LastRead
       /\ \A i \in Imports : /\ importSeq'[i] < nextSeq'
                             /\ importVal'[i] <= LastRead
                             /\ \A n \in 1..Len(Stream') : importVal'[i] <= Stream'[n].val
  BY <1>7, <1>9, <1>10 DEF rem
<1>12. /\ readerPc' # "enqueue" => readBuf' = <<>>
       /\ LastRead >= 0
       /\ \A n \in 1..Len(inbound) : inbound[n].val = LastRead + n
  <2>1. readerPc # "enqueue" => readBuf = <<>>
    BY DEF ImportInv
  <2>2. readerPc' # "enqueue" => readBuf' = <<>>
    BY <1>3, <2>1
  <2> QED BY <2>2 DEF ImportInv
<1>13. ImportInv'
  BY <1>3, <1>8, <1>11, <1>12 DEF ImportInv
<1> QED BY <1>10, <1>13 DEF Forward

\* The stream without the first packet of the queue, or without all of them.
LEMMA StreamTaken ==
  ASSUME NEW q \in Seq(ImportPackets), NEW r \in Seq(ImportPackets)
  PROVE  /\ Len(<<>> \o r) = Len(q \o r) - Len(q)
         /\ \A n \in 1..Len(<<>> \o r) : (<<>> \o r)[n] = (q \o r)[n + Len(q)]
         /\ q # <<>> => /\ Len(Tail(q) \o r) = Len(q \o r) - 1
                        /\ \A n \in 1..Len(Tail(q) \o r) :
                             (Tail(q) \o r)[n] = (q \o r)[n + 1]
<1>1. /\ Len(<<>> \o r) = Len(q \o r) - Len(q)
      /\ \A n \in 1..Len(<<>> \o r) : (<<>> \o r)[n] = (q \o r)[n + Len(q)]
  BY ConcatFacts
<1>2. ASSUME q # <<>>
      PROVE  /\ Len(Tail(q) \o r) = Len(q \o r) - 1
             /\ \A n \in 1..Len(Tail(q) \o r) : (Tail(q) \o r)[n] = (q \o r)[n + 1]
  <2>1. Tail(q) \in Seq(ImportPackets) /\ Len(Tail(q)) = Len(q) - 1
    BY <1>2
  <2>2. Len(Tail(q) \o r) = Len(q \o r) - 1
    BY <2>1
  <2> QED BY <1>2, <2>1, <2>2
<1> QED BY <1>1, <1>2

LEMMA StreamHandedOver ==
  ASSUME NEW q \in Seq(ImportPackets), NEW r \in Seq(ImportPackets), r # <<>>
  PROVE  Append(q, Head(r)) \o Tail(r) = q \o r
OBVIOUS

\* Nothing is taken and no import changes.
LEMMA NothingTaken ==
  ASSUME TypeOK, TypeOK', ImportInv,
         UNCHANGED <<importSeq, importVal, nextSeq, inQueue, readBuf, readerSeq, remoteVars>>,
         readerPc = "enqueue" => readerPc' = "enqueue"
  PROVE  ImportInv' /\ Forward
<1>1. Stream' = Stream
  BY DEF Stream
<1>2. Len(Stream) \in Nat
  BY StreamTyped
<1>3. /\ 0 \in 0..Len(Stream) /\ Len(Stream') = Len(Stream) - 0
      /\ \A n \in 1..Len(Stream') : Stream'[n] = Stream[n + 0]
  BY <1>1, <1>2
<1>4. UNCHANGED <<readBuf, readerSeq, remoteVars>> /\ nextSeq' = nextSeq
  OBVIOUS
<1>5. \A i \in Imports : importSeq'[i] = importSeq[i] /\ importVal'[i] = importVal[i]
  OBVIOUS
<1> QED BY <1>3, <1>4, <1>5, Taken

LEMMA ImportsSim ==
  ASSUME TypeOK, TypeOK', ThreadInv, ImportInv, SimStep
  PROVE  ImportInv' /\ Forward
<1>1. /\ inQueue \in Seq(ImportPackets) /\ readBuf \in Seq(ImportPackets)
      /\ importSeq \in [Imports -> Nat] /\ importVal \in [Imports -> Nat]
  BY DEF TypeOK
<1>2. /\ Len(inQueue) \in 0..Len(Stream)
      /\ \A n \in 1..Len(inQueue) : n \in 1..Len(Stream) /\ Stream[n] = inQueue[n]
  BY StreamTyped
<1>3. CASE PopOverrun
  <2>1. /\ Apply(inQueue[Len(inQueue)]) /\ inQueue # <<>> /\ inQueue' = <<>>
        /\ UNCHANGED <<readerPc, readBuf, readerSeq, remoteVars>>
    BY <1>3 DEF PopOverrun, AfterOverrun, PopOther, readerVars
  <2> DEFINE k == Len(inQueue)
  <2>2. k \in 1..Len(inQueue) /\ k # 0
    BY <1>1, <2>1, QueueFacts
  <2>3. Len(Stream') = Len(Stream) - k /\ \A n \in 1..Len(Stream') : Stream'[n] = Stream[n + k]
    BY <1>1, <2>1, StreamTaken DEF Stream
  <2>4. Stream[k] = inQueue[k]
    BY <1>2, <2>2
  <2>5. nextSeq' = IF k = 0 THEN nextSeq ELSE Stream[k].seq + 1
    BY <2>1, <2>2, <2>4 DEF Apply
  <2>6. \A i \in Imports :
          \/ importSeq'[i] = importSeq[i] /\ importVal'[i] = importVal[i]
          \/ importSeq'[i] = Stream[k].seq /\ importVal'[i] = Stream[k].val
    BY <1>1, <2>1, <2>4 DEF Apply
  <2>7. k \in 1..k /\ k \in 0..Len(Stream)
    BY <1>2, <2>2
  <2> HIDE DEF k
  <2> QED BY <2>1, <2>3, <2>5, <2>6, <2>7, Taken
<1>4. CASE PopOne
  <2>1. /\ Apply(Head(inQueue)) /\ inQueue # <<>> /\ inQueue' = Tail(inQueue)
        /\ UNCHANGED <<readerPc, readBuf, readerSeq, remoteVars>>
    BY <1>4 DEF PopOne, PopOther, readerVars
  <2>2. 1 \in 1..Len(inQueue) /\ Head(inQueue) = inQueue[1]
    BY <1>1, <2>1, QueueFacts
  <2>3. Len(Stream') = Len(Stream) - 1 /\ \A n \in 1..Len(Stream') : Stream'[n] = Stream[n + 1]
    BY <1>1, <2>1, StreamTaken DEF Stream
  <2>4. Stream[1] = Head(inQueue) /\ 1 \in 0..Len(Stream)
    BY <1>2, <2>2
  <2>5. nextSeq' = Stream[1].seq + 1
    BY <2>1, <2>4 DEF Apply
  <2>6. \A i \in Imports :
          \/ importSeq'[i] = importSeq[i] /\ importVal'[i] = importVal[i]
          \/ importSeq'[i] = Stream[1].seq /\ importVal'[i] = Stream[1].val
    BY <1>1, <2>1, <2>4 DEF Apply
  <2> DEFINE k == 1
  <2>7. /\ k \in 1..k /\ k \in 0..Len(Stream)
        /\ Len(Stream') = Len(Stream) - k
        /\ \A n \in 1..Len(Stream') : Stream'[n] = Stream[n + k]
        /\ nextSeq' = IF k = 0 THEN nextSeq ELSE Stream[k].seq + 1
    BY <2>3, <2>4, <2>5
  <2>8. \A i \in Imports :
          \/ importSeq'[i] = importSeq[i] /\ importVal'[i] = importVal[i]
          \/ importSeq'[i] = Stream[k].seq /\ importVal'[i] = Stream[k].val
    BY <2>6
  <2> HIDE DEF k
  <2> QED BY <2>1, <2>7, <2>8, Taken
<1>5. CASE SyncAgain \/ PostStep
  <2>1. ApplyAll /\ UNCHANGED <<readerPc, readBuf, readerSeq, remoteVars>>
    BY <1>5 DEF SyncAgain, PostStep, PopDone, readerVars
  <2> DEFINE k == Len(inQueue)
  <2>2. /\ nextSeq' = IF inQueue = <<>> THEN nextSeq ELSE inQueue[k].seq + 1
        /\ inQueue' = <<>>
        /\ \A i \in Imports :
             \/ importSeq'[i] = importSeq[i] /\ importVal'[i] = importVal[i]
             \/ \E n \in 1..k : importSeq'[i] = inQueue[n].seq /\ importVal'[i] = inQueue[n].val
    BY <2>1, ApplyAllFacts
  <2>3. Len(Stream') = Len(Stream) - k /\ \A n \in 1..Len(Stream') : Stream'[n] = Stream[n + k]
    BY <1>1, <2>1, <2>2, StreamTaken DEF Stream
  <2>4. inQueue = <<>> <=> k = 0
    BY <1>1
  <2>5. k # 0 => k \in 1..Len(inQueue) /\ Stream[k] = inQueue[k]
    BY <1>1, <1>2, <2>4, QueueFacts
  <2>6. nextSeq' = IF k = 0 THEN nextSeq ELSE Stream[k].seq + 1
    BY <2>2, <2>4, <2>5
  <2>7. \A i \in Imports :
          \/ importSeq'[i] = importSeq[i] /\ importVal'[i] = importVal[i]
          \/ \E n \in 1..k : importSeq'[i] = Stream[n].seq /\ importVal'[i] = Stream[n].val
    BY <1>2, <2>2
  <2>8. k \in 0..Len(Stream)
    BY <1>2
  <2> HIDE DEF k
  <2> QED BY <2>1, <2>3, <2>6, <2>7, <2>8, Taken
<1>6. CASE /\ ~PopOverrun /\ ~PopOne /\ ~SyncAgain /\ ~PostStep
  <2>1. /\ UNCHANGED <<importSeq, importVal, nextSeq, inQueue, readBuf, readerSeq, remoteVars>>
        /\ readerPc = "enqueue" => readerPc' = "enqueue"
    BY <1>6 DEF SimStep, Open, Push, SyncImports, PopFoundEmpty, PreStep, SkipStep,
       BeginClose, PushClose, CloseWorker, PopOther, importVars, readerVars, ThreadInv
  <2> QED BY <2>1, NothingTaken
<1> QED BY <1>3, <1>4, <1>5, <1>6

\* The packets of a sample follow the ones before it.
LEMMA ImportsRead ==
  ASSUME TypeOK, TypeOK', ImportInv, ReadSample
  PROVE  ImportInv'
<1> DEFINE c == Cardinality(Head(inbound).ids)
           new == PacketsOf(Head(inbound), readerSeq)
<1>1. /\ readBuf' = new /\ readerSeq' = readerSeq + c /\ inbound' = Tail(inbound)
      /\ inbound # <<>> /\ readerPc = "read" /\ readerPc' = "enqueue"
      /\ UNCHANGED <<importVars, inQueue, answers>>
  BY DEF ReadSample, ReaderOther
<1>2. inbound \in Seq(InSamples) /\ readerSeq \in Nat /\ inQueue \in Seq(ImportPackets)
  BY DEF TypeOK
<1>3. /\ Head(inbound) = inbound[1] /\ Head(inbound) \in InSamples /\ 1 \in 1..Len(inbound)
      /\ Len(inbound) \in Nat /\ Len(inbound') = Len(inbound) - 1
      /\ \A n \in 1..Len(inbound') : n + 1 \in 1..Len(inbound) /\ inbound'[n] = inbound[n + 1]
  BY <1>1, <1>2, QueueFacts
<1>4. /\ new \in Seq(ImportPackets) /\ Len(new) = c /\ c \in Nat
      /\ \A n \in 1..c : new[n].seq = readerSeq + n - 1 /\ new[n].val = Head(inbound).val
  BY <1>2, <1>3, SamplePackets
<1> HIDE DEF c, new
<1>5. LastRead' = LastRead + 1 /\ LastRead \in Nat /\ Head(inbound).val = LastRead + 1
  <2>1. answers \in Nat
    BY DEF TypeOK
  <2>2. LastRead \in Int /\ LastRead' = LastRead + 1
    BY <1>1, <1>3, <2>1 DEF LastRead
  <2>3. inbound[1].val = LastRead + 1
    BY <1>3 DEF ImportInv
  <2> QED BY <1>3, <2>2, <2>3 DEF ImportInv
<1>6. Stream = inQueue
  BY <1>1, <1>2 DEF ImportInv, Stream
<1>7. /\ Len(Stream') = Len(inQueue) + c /\ Len(inQueue) \in Nat
      /\ \A n \in 1..Len(inQueue) : Stream'[n] = inQueue[n]
      /\ \A n \in 1..c : Stream'[n + Len(inQueue)] = new[n]
  <2>1. Stream' = inQueue \o new
    BY <1>1 DEF Stream
  <2>2. /\ Len(inQueue \o new) = Len(inQueue) + Len(new) /\ Len(inQueue) \in Nat
        /\ \A n \in 1..Len(inQueue) : (inQueue \o new)[n] = inQueue[n]
        /\ \A n \in 1..Len(new) : (inQueue \o new)[n + Len(inQueue)] = new[n]
    <3>1. inQueue \in Seq(ImportPackets) /\ new \in Seq(ImportPackets)
      BY <1>2, <1>4
    <3> QED BY ONLY <3>1, ConcatFacts
  <2> QED BY <1>4, <2>1, <2>2
<1>8. ASSUME NEW n \in 1..Len(Stream')
      PROVE  \/ n \in 1..Len(inQueue) /\ Stream'[n] = inQueue[n]
             \/ /\ n > Len(inQueue) /\ n - Len(inQueue) \in 1..c
                /\ Stream'[n].seq = readerSeq + (n - Len(inQueue)) - 1
                /\ Stream'[n].val = LastRead + 1
  <2>1. CASE n <= Len(inQueue)
    BY <1>7, <2>1
  <2>2. CASE ~(n <= Len(inQueue))
    <3>1. n - Len(inQueue) \in 1..c /\ n = (n - Len(inQueue)) + Len(inQueue)
      BY <1>4, <1>7, <2>2
    <3>2. Stream'[n] = new[n - Len(inQueue)]
      BY <1>7, <3>1
    <3> QED BY <1>4, <1>5, <1>7, <2>2, <3>1, <3>2
  <2> QED BY <2>1, <2>2
<1> DEFINE now == Stream'
           q == inQueue
<1>9. /\ Len(q) \in Nat /\ \A n \in 1..Len(q) : q[n].seq \in Nat /\ q[n].val \in Nat
  BY <1>6, StreamTyped
<1>10. /\ \A m, n \in 1..Len(q) : m < n => q[m].seq < q[n].seq /\ q[m].val <= q[n].val
       /\ \A n \in 1..Len(q) : nextSeq <= q[n].seq /\ q[n].seq < readerSeq /\ q[n].val <= LastRead
       /\ \A i \in Imports : \A n \in 1..Len(q) : importVal[i] <= q[n].val
  BY <1>6 DEF ImportInv
<1>11. \A n \in 1..Len(now) :
         \/ n \in 1..Len(q) /\ now[n] = q[n]
         \/ /\ n > Len(q) /\ n - Len(q) \in 1..c
            /\ now[n].seq = readerSeq + (n - Len(q)) - 1 /\ now[n].val = LastRead + 1
  BY <1>8
<1> HIDE DEF now, q
<1>12. \A m, n \in 1..Len(now) : m < n => now[m].seq < now[n].seq /\ now[m].val <= now[n].val
  <2> SUFFICES ASSUME NEW m \in 1..Len(now), NEW n \in 1..Len(now), m < n
               PROVE  now[m].seq < now[n].seq /\ now[m].val <= now[n].val
    OBVIOUS
  <2>1. CASE n \in 1..Len(q) /\ now[n] = q[n]
    BY <1>9, <1>10, <1>11, <2>1
  <2>2. CASE /\ n > Len(q) /\ n - Len(q) \in 1..c
             /\ now[n].seq = readerSeq + (n - Len(q)) - 1 /\ now[n].val = LastRead + 1
    <3>1. CASE m \in 1..Len(q) /\ now[m] = q[m]
      <4>1. q[m].seq \in Nat /\ q[m].seq < readerSeq /\ q[m].val <= LastRead /\ q[m].val \in Nat
        BY <1>9, <1>10, <3>1
      <4>2. now[n].seq \in Int /\ now[n].seq >= readerSeq /\ now[n].val = LastRead + 1
        BY <1>2, <1>9, <2>2
      <4> QED BY <1>2, <1>5, <3>1, <4>1, <4>2
    <3>2. CASE /\ m - Len(q) \in 1..c
               /\ now[m].seq = readerSeq + (m - Len(q)) - 1 /\ now[m].val = LastRead + 1
      BY <1>2, <1>5, <1>9, <2>2, <3>2
    <3> QED BY <1>11, <3>1, <3>2
  <2> QED BY <1>11, <2>1, <2>2
<1>13. /\ nextSeq \in Nat /\ nextSeq <= readerSeq
       /\ \A i \in Imports : /\ importSeq[i] < nextSeq /\ importVal[i] <= LastRead
                             /\ importVal[i] \in Nat
  BY DEF TypeOK, ImportInv
<1>14. ASSUME NEW n \in 1..Len(now)
       PROVE  /\ nextSeq <= now[n].seq /\ now[n].seq < readerSeq'
              /\ now[n].val <= LastRead'
              /\ \A i \in Imports : importVal[i] <= now[n].val
  <2>1. CASE n \in 1..Len(q) /\ now[n] = q[n]
    <3>1. /\ nextSeq <= q[n].seq /\ q[n].seq < readerSeq /\ q[n].val <= LastRead
          /\ q[n].seq \in Nat /\ q[n].val \in Nat
          /\ \A i \in Imports : importVal[i] <= q[n].val
      BY <1>9, <1>10, <2>1
    <3> QED BY <1>1, <1>2, <1>4, <1>5, <2>1, <3>1
  <2>2. CASE /\ n > Len(q) /\ n - Len(q) \in 1..c
             /\ now[n].seq = readerSeq + (n - Len(q)) - 1 /\ now[n].val = LastRead + 1
    <3>1. \A i \in Imports : importVal[i] <= LastRead + 1
      BY <1>5, <1>13
    <3> DEFINE d == n - Len(q)
    <3>2. d \in 1..c /\ now[n].seq = readerSeq + d - 1 /\ now[n].val = LastRead + 1
      BY <2>2
    <3> HIDE DEF d
    <3>3. nextSeq <= now[n].seq /\ now[n].seq < readerSeq'
      BY <1>1, <1>2, <1>4, <1>13, <3>2
    <3> QED BY <1>5, <3>1, <3>2, <3>3
  <2> QED BY <1>11, <2>1, <2>2
<1>15. \A n \in 1..Len(inbound') : inbound'[n].val = LastRead' + n
  <2> SUFFICES ASSUME NEW n \in 1..Len(inbound') PROVE inbound'[n].val = LastRead' + n
    OBVIOUS
  <2>1. inbound[n + 1].val = LastRead + (n + 1)
    BY <1>3 DEF ImportInv
  <2> QED BY <1>3, <1>5, <2>1
<1>16. UNCHANGED <<importSeq, importVal, nextSeq>>
  BY <1>1 DEF importVars
<1>17. /\ nextSeq' <= readerSeq' /\ LastRead' >= 0
       /\ \A i \in Imports : importSeq'[i] < nextSeq' /\ importVal'[i] <= LastRead'
  BY <1>1, <1>2, <1>4, <1>5, <1>13, <1>16
<1> QED BY <1>1, <1>12, <1>14, <1>15, <1>16, <1>17 DEF ImportInv, now

LEMMA ImportsNext ==
  ASSUME TypeOK, TypeOK', ThreadInv, ImportInv, [Next]_vars
  PROVE  ImportInv' /\ Forward
<1>1. CASE SimStep
  BY <1>1, ImportsSim
<1>2. CASE ReadSample
  <2>1. Forward
    BY <1>2 DEF ReadSample, ReaderOther, importVars, Forward, TypeOK
  <2> QED BY <1>2, <2>1, ImportsRead
<1>3. CASE ReaderLoop \/ ReadNothing \/ WriterStep \/ UNCHANGED vars
  <2>1. WriterStep => UNCHANGED WriterOther
    BY WriteSteps DEF WriterStep, Collect, NoSample, BeginWrite
  <2>2. /\ UNCHANGED <<importSeq, importVal, nextSeq, inQueue, readBuf, readerSeq, remoteVars>>
        /\ readerPc = "enqueue" => readerPc' = "enqueue"
    BY <1>3, <2>1 DEF ReaderLoop, ReadNothing, ReaderOther, WriterOther, vars, importVars,
       readerVars, remoteVars
  <2> QED BY <2>2, NothingTaken
<1>4. CASE Enqueue
  <2>1. /\ UNCHANGED <<importSeq, importVal, nextSeq, readerSeq, inbound, answers>>
        /\ readerPc = "enqueue"
        /\ \/ /\ readBuf # <<>> /\ inQueue' = Append(inQueue, Head(readBuf))
              /\ readBuf' = Tail(readBuf) /\ readerPc' = "enqueue"
           \/ readBuf = <<>> /\ UNCHANGED <<inQueue, readBuf>>
    BY <1>4 DEF Enqueue, ReaderOther, importVars
  <2>2. Stream' = Stream
    <3>1. inQueue \in Seq(ImportPackets) /\ readBuf \in Seq(ImportPackets)
      BY DEF TypeOK
    <3> QED BY <2>1, <3>1, StreamHandedOver DEF Stream
  <2>3. LastRead' = LastRead
    BY <2>1 DEF LastRead
  <2>4. readerPc' # "enqueue" => readBuf' = <<>>
    BY <2>1
  <2>5. ImportInv'
    BY <2>1, <2>2, <2>3, <2>4 DEF ImportInv
  <2> QED BY <2>1, <2>5 DEF Forward, TypeOK
<1>5. CASE RemoteAnswers
  <2>1. /\ \E x \in InSamples : inbound' = Append(inbound, x) /\ x.val = answers + 1
        /\ answers' = answers + 1
        /\ UNCHANGED <<importVars, inQueue, readerVars>>
    <3>1. PICK s \in setup.shapes : inbound' = Append(inbound, [ids |-> s, val |-> answers + 1])
      BY <1>5 DEF RemoteAnswers
    <3>2. [ids |-> s, val |-> answers + 1] \in InSamples
      BY <3>1, SetupTyped DEF TypeOK, InSamples
    <3> QED BY <1>5, <3>1, <3>2 DEF RemoteAnswers
  <2>2. inbound \in Seq(InSamples) /\ answers \in Nat
    BY DEF TypeOK
  <2>3. /\ Len(inbound') = Len(inbound) + 1 /\ Len(inbound) \in Nat
        /\ \A n \in 1..Len(inbound) : inbound'[n] = inbound[n]
        /\ inbound'[Len(inbound) + 1].val = answers + 1
    BY <2>1, <2>2, AppendFacts
  <2>4. LastRead' = LastRead /\ answers + 1 = LastRead + (Len(inbound) + 1)
    BY <2>1, <2>2, <2>3 DEF LastRead
  <2>5. \A n \in 1..Len(inbound') : inbound'[n].val = LastRead' + n
    <3> SUFFICES ASSUME NEW n \in 1..Len(inbound') PROVE inbound'[n].val = LastRead + n
      BY <2>4
    <3>1. n \in 1..Len(inbound) \/ n = Len(inbound) + 1
      BY <2>3
    <3> QED BY <2>3, <2>4, <3>1 DEF ImportInv
  <2>6. UNCHANGED <<importSeq, importVal, nextSeq, inQueue, readerPc, readBuf, readerSeq>>
    BY <2>1 DEF importVars, readerVars
  <2>7. Stream' = Stream
    BY <2>6 DEF Stream
  <2>8. ImportInv'
    BY <2>4, <2>5, <2>6, <2>7 DEF ImportInv
  <2> QED BY <2>6, <2>8 DEF Forward, TypeOK
<1> QED BY <1>1, <1>2, <1>3, <1>4, <1>5 DEF Next, ReaderStep, Closed

LEMMA ImportsInit == Init => ImportInv
<1> SUFFICES ASSUME Init PROVE ImportInv
  OBVIOUS
<1>1. inQueue = <<>> /\ readBuf = <<>> /\ inbound = <<>> /\ answers = 0
  BY DEF Init
<1>2. Len(Stream) = 0
  BY <1>1 DEF Stream
<1>3. LastRead = 0
  <2>1. Len(inbound) = 0
    BY <1>1
  <2>2. answers = 0 /\ LastRead = answers - Len(inbound)
    BY <1>1 DEF LastRead
  <2> QED BY ONLY <2>1, <2>2
<1> QED BY <1>1, <1>2, <1>3 DEF Init, ImportInv

(***************************************************************************)
(* However many packets an overrun discards and however few attributes a   *)
(* sample contains, no import goes back to an older value.                 *)
(***************************************************************************)
THEOREM ImportsForward == Spec => ImportsMoveForward
<1>1. Init => TypeOK /\ ThreadInv /\ ImportInv
  BY TypesInit, ImportsInit DEF Init, ThreadInv
<1>2. TypeOK /\ ThreadInv /\ ImportInv /\ [Next]_vars
        => TypeOK' /\ ThreadInv' /\ ImportInv' /\ [Forward]_vars
  BY TypesNext, ThreadNext, ImportsNext
<1>3. [Forward]_vars => [\A i \in Imports : importVal'[i] >= importVal[i]
                                            /\ importSeq'[i] >= importSeq[i]]_vars
  BY DEF Forward
<1> QED BY <1>1, <1>2, <1>3, PTL DEF Spec, ImportsMoveForward

LEMMA FreshNext ==
  ASSUME TypeOK, ImportInv, FreshInv, [Next]_vars
  PROVE  FreshInv'
<1> USE DEF importVars
<1>1. /\ setup \in Setups /\ importSeq \in [Imports -> Nat] /\ fresh \subseteq Imports
      /\ popSeq \in Nat /\ nextSeq \in Nat
  BY DEF TypeOK
<1>. UNCHANGED <<setup, BlockOnRead, SyncOnStart>>
  <2>1. UNCHANGED setup
    BY DEF Next, SimStep, ReaderStep, WriterStep, RemoteAnswers, Closed, vars
  <2> QED BY <2>1 DEF BlockOnRead, SyncOnStart
<1>2. CASE SyncImports \/ PreStep
  <2>1. /\ importSeq' = importSeq /\ popSeq' = nextSeq /\ simPc' \in {"sync", "pop"}
    BY <1>2 DEF SyncImports, PreStep, BeginPop
  <2>2. \A i \in Imports : ~(importSeq'[i] >= popSeq')
    BY <1>1, <2>1 DEF ImportInv
  <2> QED BY <2>1, <2>2 DEF FreshInv, StepsOnNewValues
<1>3. CASE PopOverrun \/ PopFoundEmpty \/ PopOne
  <2>1. /\ popSeq' = popSeq
        /\ simPc \in {"sync", "syncWait", "pop", "popWait"}
        /\ simPc' \in {"sync", "syncWait", "pop", "popWait"}
    BY <1>3 DEF PopOverrun, PopFoundEmpty, PopOne, PopOther, Popping
  <2>2. \/ UNCHANGED <<importSeq, fresh>>
        \/ \E p : Apply(p)
    BY <1>3 DEF PopOverrun, PopFoundEmpty, PopOne
  <2>3. \A i \in Imports : importSeq'[i] >= popSeq => i \in fresh'
    <3>1. \A i \in Imports : importSeq[i] >= popSeq => i \in fresh
      BY <2>1 DEF FreshInv
    <3> QED BY <1>1, <2>2, <3>1 DEF Apply
  <2> QED BY <2>1, <2>3 DEF FreshInv, StepsOnNewValues
<1>4. CASE SyncAgain \/ PostStep
  <2>1. /\ ApplyAll /\ simPc \in {"sync", "pop"}
        /\ simPc' = IF simPc = "sync" THEN "syncAgain" ELSE "push"
        /\ WaitedFor(simPc = "sync") = {}
    BY <1>4 DEF SyncAgain, PostStep, PopDone, BeginPush
  <2>2. fresh \subseteq fresh'
    BY <2>1, ApplyAllFacts
  <2>3. \A i \in IF simPc = "sync" THEN SyncOnStart ELSE BlockOnRead : i \in fresh
    <3> SUFFICES ASSUME NEW i \in IF simPc = "sync" THEN SyncOnStart ELSE BlockOnRead
                 PROVE  i \in fresh
      OBVIOUS
    <3>1. i \in Imports
      BY <1>1, SetupTyped
    <3>2. ~(importSeq[i] < popSeq)
      BY <2>1 DEF WaitedFor
    <3> QED BY <1>1, <2>1, <3>1, <3>2 DEF FreshInv
  <2> QED BY <2>1, <2>2, <2>3 DEF FreshInv, StepsOnNewValues
<1>5. CASE Open
  BY <1>5 DEF Open, BeginPush, FreshInv, StepsOnNewValues
<1>6. CASE BeginClose \/ PushClose \/ CloseWorker
  BY <1>6 DEF BeginClose, PushClose, CloseWorker, FreshInv, StepsOnNewValues
<1>7. CASE Push \/ SkipStep
  BY <1>7 DEF Push, SkipStep, Ready, FreshInv, StepsOnNewValues
<1>8. CASE ReaderStep \/ WriterStep \/ RemoteAnswers \/ UNCHANGED vars
  <2>1. WriterStep => UNCHANGED WriterOther
    BY WriteSteps DEF WriterStep, Collect, NoSample, BeginWrite
  <2>2. ReaderStep => UNCHANGED ReaderOther
    BY DEF ReaderStep, ReaderLoop, ReadNothing, ReadSample, Enqueue
  <2>3. UNCHANGED <<simVars, importVars>>
    BY <1>8, <2>1, <2>2 DEF ReaderOther, WriterOther, RemoteAnswers, vars
  <2> QED BY <2>3 DEF simVars, FreshInv, StepsOnNewValues
<1> QED BY <1>2, <1>3, <1>4, <1>5, <1>6, <1>7, <1>8 DEF Next, SimStep, Closed

(***************************************************************************)
(* A step that has to wait for new values is made on values that arrived   *)
(* after it began to wait, whatever the queue held and overruns discarded. *)
(***************************************************************************)
THEOREM NewValues == Spec => []StepsOnNewValues
<1>1. Init => TypeOK /\ ThreadInv /\ ImportInv /\ FreshInv
  <2>1. Init => FreshInv
    BY InterfaceAssumption DEF Init, FreshInv, StepsOnNewValues
  <2> QED BY TypesInit, ImportsInit, <2>1 DEF Init, ThreadInv
<1>2. TypeOK /\ ThreadInv /\ ImportInv /\ FreshInv /\ [Next]_vars
        => TypeOK' /\ ThreadInv' /\ ImportInv' /\ FreshInv'
  BY TypesNext, ThreadNext, ImportsNext, FreshNext
<1>3. FreshInv => StepsOnNewValues
  BY DEF FreshInv
<1> QED BY <1>1, <1>2, <1>3, PTL DEF Spec

-----------------------------------------------------------------------------
(* The exports.                                                            *)

\* p was pushed before q, if they are packets of the same export.
Older(p, q) == p.id = q.id => p.seq < q.seq /\ p.val < q.val

\* The positions of the queue with packets of exports.
Queued == {n \in 1..Len(outQueue) : ~outQueue[n].close}

\* v is the number of a push of i that has been made.
Counted(i, v) == v <= pushNo /\ (i \in toPush => v < pushNo)
Pushed(p) == Counted(p.id, p.val) /\ p.seq < exportSeq[p.id]

\* The packets of an export are ordered from the ones that have been sent over
\* the ones the worker holds to the ones in the queue.
ExportInv ==
  /\ \A i \in Exports : exportSeq[i] < currentSeq
  /\ \A n \in Queued : Pushed(outQueue[n])
  /\ \A p \in attrsToWrite : Pushed(p)
  /\ \A m, n \in Queued : m < n => Older(outQueue[m], outQueue[n])
  /\ \A p \in attrsToWrite, n \in Queued : Older(p, outQueue[n])
  /\ \A p, q \in attrsToWrite : p = q \/ Older(p, q) \/ Older(q, p)
  /\ \A n \in 1..Len(sent) : \A i \in DOMAIN sent[n] :
       /\ Counted(i, sent[n][i])
       /\ \A p \in attrsToWrite : p.id = i => sent[n][i] < p.val
       /\ \A k \in Queued : outQueue[k].id = i => sent[n][i] < outQueue[k].val
  /\ ExportsMoveForward

\* No packet on its way is older than what the worker remembers.
WorkerInv ==
  /\ \A i \in Exports : workerSeq[i] <= exportSeq[i]
  /\ \A n \in Queued : workerSeq[outQueue[n].id] <= outQueue[n].seq
  /\ \A p \in attrsToWrite : workerSeq[p.id] <= p.seq

\* The writer only exits when it has been told to and the queue stays empty.
CloseInv ==
  /\ simPc # "open" => pushNo > 0 /\ (Exports = {} \/ writerPc # "none")
  /\ simPc \in {"close", "join", "closed"} => toPush = {}
  /\ \A n \in 1..Len(outQueue) : outQueue[n].close => simPc \in {"join", "closed"}
  /\ closing => outQueue = <<>> /\ simPc \in {"join", "closed"}
  /\ writerPc = "exited" => closing
  /\ simPc = "closed" => writerPc \in {"none", "exited"}

\* The value of the last push is with the worker, in the queue or sent.
Somewhere(i) ==
  \/ \E p \in attrsToWrite : p.id = i /\ p.val = pushNo
  \/ \E n \in Queued : outQueue[n].id = i /\ outQueue[n].val = pushNo
  \/ \E n \in 1..Len(sent) : i \in DOMAIN sent[n] /\ sent[n][i] = pushNo

NothingLost ==
  ~setup.failures =>
    /\ writerPc # "write" => \A p \in attrsToWrite : p.id \in WaitForOnWrite
    /\ pushNo > 0 => \A i \in Exports \ (WaitForOnWrite \cup toPush) : Somewhere(i)

\* What is known of the types of the packets and the samples.
PacketTypes ==
  /\ Len(outQueue) \in Nat /\ Queued \subseteq 1..Len(outQueue)
  /\ \A n \in Queued : /\ outQueue[n] \in ExportPackets /\ outQueue[n].id \in Exports
                        /\ outQueue[n].seq \in Nat /\ outQueue[n].val \in Nat
  /\ \A p \in attrsToWrite : p.id \in Exports /\ p.seq \in Nat /\ p.val \in Nat
  /\ Len(sent) \in Nat
  /\ \A n \in 1..Len(sent) : \A i \in DOMAIN sent[n] : i \in Exports /\ sent[n][i] \in Nat
  /\ pushNo \in Nat /\ currentSeq \in Nat /\ toPush \subseteq Exports
  /\ exportSeq \in [Exports -> Nat] /\ workerSeq \in [Exports -> Nat]

LEMMA PacketsTyped == TypeOK => PacketTypes
<1> SUFFICES ASSUME TypeOK PROVE PacketTypes
  OBVIOUS
<1>1. outQueue \in Seq(ExportPackets \cup {Close}) /\ sent \in Seq(OutSamples)
  BY DEF TypeOK
<1>2. Len(outQueue) \in Nat /\ Queued \subseteq 1..Len(outQueue)
  BY <1>1 DEF Queued
<1>3. ASSUME NEW n \in Queued
      PROVE  /\ outQueue[n] \in ExportPackets /\ outQueue[n].id \in Exports
             /\ outQueue[n].seq \in Nat /\ outQueue[n].val \in Nat
  <2>1. outQueue[n] \in ExportPackets \cup {Close} /\ ~outQueue[n].close
    BY <1>1 DEF Queued
  <2>2. outQueue[n] \in ExportPackets
    BY <2>1 DEF Close
  <2> QED BY <2>2 DEF ExportPackets
<1>4. ASSUME NEW n \in 1..Len(sent), NEW i \in DOMAIN sent[n]
      PROVE  i \in Exports /\ sent[n][i] \in Nat
  <2>1. sent[n] \in OutSamples
    BY <1>1
  <2> QED BY <2>1 DEF OutSamples
<1> QED BY <1>1, <1>2, <1>3, <1>4, LatestTyped DEF TypeOK, PacketTypes

\* pushDpsimAttrsToQueue() is called.
LEMMA ExportsCall ==
  ASSUME PacketTypes, ExportInv,
         pushNo' = pushNo + 1,
         UNCHANGED <<exportSeq, currentSeq, outQueue, attrsToWrite, sent>>
  PROVE  ExportInv'
<1>1. \A i, v : Counted(i, v) /\ v \in Nat => Counted(i, v)'
  BY DEF Counted, PacketTypes
<1>2. UNCHANGED <<Queued, ExportsMoveForward>>
  BY DEF Queued, ExportsMoveForward
<1>3. \A n \in Queued : Pushed(outQueue[n])'
  BY <1>1 DEF ExportInv, Pushed, PacketTypes
<1>4. \A p \in attrsToWrite : Pushed(p)'
  BY <1>1 DEF ExportInv, Pushed, PacketTypes
<1>5. \A n \in 1..Len(sent) : \A i \in DOMAIN sent[n] : Counted(i, sent[n][i])'
  BY <1>1 DEF ExportInv, PacketTypes
<1>6. \A p, q : Older(p, q)' <=> Older(p, q)
  BY DEF Older
<1> QED BY <1>2, <1>3, <1>4, <1>5, <1>6 DEF ExportInv

\* An export is pushed: its packet is newer than all others of the export.
LEMMA ExportsPush ==
  ASSUME PacketTypes, PacketTypes', ExportInv, Push
  PROVE  ExportInv'
<1>1. PICK i \in toPush : i = LeastOf(toPush) /\ i \in Exports
  BY InterfaceAssumption, LeastIsThere DEF Push, PacketTypes
<1>. PICK x : x = Packet(i, exportSeq[i], pushNo)
  OBVIOUS
<1>2. /\ outQueue' = Append(outQueue, x)
      /\ exportSeq' = [exportSeq EXCEPT ![i] = currentSeq]
      /\ toPush' = toPush \ {i} /\ currentSeq' = currentSeq + 1
      /\ UNCHANGED <<pushNo, attrsToWrite, sent>>
  BY <1>1 DEF Push, writerVars
<1>3. x.id = i /\ x.seq = exportSeq[i] /\ x.val = pushNo /\ ~x.close
  BY DEF Packet
<1>4. \A j, v : Counted(j, v) /\ v \in Nat => Counted(j, v)'
  BY <1>2 DEF Counted, PacketTypes
<1>5. /\ \A j \in Exports : exportSeq'[j] < currentSeq' /\ exportSeq[j] <= exportSeq'[j]
      /\ exportSeq'[i] > x.seq
  BY <1>1, <1>2, <1>3 DEF ExportInv, PacketTypes
<1>6. \A p : p.id \in Exports /\ p.seq \in Nat /\ p.val \in Nat /\ Pushed(p)
              => Pushed(p)' /\ Older(p, x)
  <2> SUFFICES ASSUME NEW p, p.id \in Exports, p.seq \in Nat, p.val \in Nat, Pushed(p)
               PROVE  Pushed(p)' /\ Older(p, x)
    OBVIOUS
  <2>1. Counted(p.id, p.val)'
    BY <1>4 DEF Pushed
  <2>2. p.seq < exportSeq'[p.id]
    BY <1>5 DEF Pushed, PacketTypes
  <2>3. Older(p, x)
    BY <1>1, <1>3 DEF Pushed, Counted, Older
  <2> QED BY <2>1, <2>2, <2>3 DEF Pushed
<1>7. Pushed(x)'
  <2>1. i \notin toPush' /\ pushNo' = pushNo
    BY <1>2
  <2> QED BY <1>3, <1>5, <2>1 DEF Pushed, Counted, PacketTypes
<1>8. /\ Len(outQueue) \in Nat /\ Len(outQueue') = Len(outQueue) + 1
      /\ \A n \in 1..Len(outQueue) : outQueue'[n] = outQueue[n]
      /\ outQueue'[Len(outQueue) + 1] = x
  <2>1. outQueue' = Append(outQueue, x) /\ Len(outQueue) \in Nat
    BY <1>2 DEF PacketTypes
  <2> QED BY <2>1
<1>9. \A n \in Queued' : \/ n \in Queued /\ outQueue'[n] = outQueue[n]
                         \/ n = Len(outQueue) + 1 /\ outQueue'[n] = x
  BY <1>8 DEF Queued
<1>10. \A n \in Queued' : Pushed(outQueue[n])'
  <2> SUFFICES ASSUME NEW n \in Queued' PROVE Pushed(outQueue[n])'
    OBVIOUS
  <2>1. CASE n \in Queued /\ outQueue'[n] = outQueue[n]
    <3>1. PICK p : p = outQueue[n]
      OBVIOUS
    <3>2. Pushed(p)'
      BY <1>6, <2>1, <3>1 DEF ExportInv, PacketTypes
    <3> QED BY <2>1, <3>1, <3>2 DEF Pushed
  <2>2. CASE outQueue'[n] = x
    BY <1>7, <2>2 DEF Pushed
  <2> QED BY <1>9, <2>1, <2>2
<1>11. \A p \in attrsToWrite : Pushed(p)' /\ Older(p, x)
  BY <1>6 DEF ExportInv, PacketTypes
<1>12. \A m, n \in Queued' : m < n => Older(outQueue'[m], outQueue'[n])
  <2> SUFFICES ASSUME NEW m \in Queued', NEW n \in Queued', m < n
               PROVE  Older(outQueue'[m], outQueue'[n])
    OBVIOUS
  <2>1. n \in 1..Len(outQueue') /\ m \in 1..Len(outQueue')
    BY DEF PacketTypes
  <2>2. m \in Queued /\ outQueue'[m] = outQueue[m]
    BY <1>8, <1>9, <2>1
  <2>3. Older(outQueue[m], x)
    BY <1>6, <2>2 DEF ExportInv, PacketTypes
  <2> QED BY <1>9, <2>2, <2>3 DEF ExportInv
<1>13. \A p \in attrsToWrite, n \in Queued' : Older(p, outQueue'[n])
  BY <1>9, <1>11 DEF ExportInv
<1>14. ASSUME NEW n \in 1..Len(sent), NEW j \in DOMAIN sent[n]
       PROVE  /\ Counted(j, sent[n][j])'
              /\ \A k \in Queued' : outQueue'[k].id = j => sent[n][j] < outQueue'[k].val
  <2>1. Counted(j, sent[n][j]) /\ sent[n][j] \in Nat
    BY DEF ExportInv, PacketTypes
  <2>2. Counted(j, sent[n][j])'
    BY <1>2, <1>4, <2>1
  <2>3. j = i => sent[n][j] < x.val
    BY <1>1, <1>3, <2>1 DEF Counted
  <2> QED BY <1>3, <1>9, <2>2, <2>3 DEF ExportInv
<1>15. \A p, q : Older(p, q)' <=> Older(p, q)
  BY DEF Older
<1>16. ExportsMoveForward'
  BY <1>2 DEF ExportInv, ExportsMoveForward
<1>17. \A j \in Exports : exportSeq'[j] < currentSeq'
  BY <1>5
<1>18. \A n \in 1..Len(sent) : \A j \in DOMAIN sent[n] :
         \A p \in attrsToWrite : p.id = j => sent[n][j] < p.val
  BY DEF ExportInv
<1>19. \A p, q \in attrsToWrite : p = q \/ Older(p, q) \/ Older(q, p)
  BY DEF ExportInv
<1> QED BY <1>2, <1>10, <1>11, <1>12, <1>13, <1>14, <1>15, <1>16, <1>17, <1>18, <1>19
        DEF ExportInv

\* close() is pushed.
LEMMA ExportsClose ==
  ASSUME PacketTypes, ExportInv, PushClose
  PROVE  ExportInv'
<1>1. /\ outQueue' = Append(outQueue, Close)
      /\ UNCHANGED <<toPush, pushNo, exportSeq, currentSeq, attrsToWrite, sent>>
  BY DEF PushClose, writerVars
<1>2. /\ Len(outQueue) \in Nat /\ Len(outQueue') = Len(outQueue) + 1
      /\ \A n \in 1..Len(outQueue) : outQueue'[n] = outQueue[n]
      /\ outQueue'[Len(outQueue) + 1].close
  <2>1. Len(outQueue) \in Nat /\ Close.close
    BY DEF PacketTypes, Close
  <2> QED BY <1>1, <2>1
<1>3. \A n \in Queued' : n \in Queued /\ outQueue'[n] = outQueue[n]
  BY <1>2 DEF Queued
<1>4. \A p, q : Older(p, q)' <=> Older(p, q)
  BY DEF Older
<1>5. /\ \A n \in Queued' : Pushed(outQueue[n])'
      /\ \A p \in attrsToWrite : Pushed(p)'
  BY <1>1, <1>3 DEF ExportInv, Pushed, Counted
<1>6. \A n \in 1..Len(sent) : \A i \in DOMAIN sent[n] : Counted(i, sent[n][i])'
  BY <1>1 DEF ExportInv, Counted
<1>7. /\ \A m, n \in Queued' : m < n => Older(outQueue'[m], outQueue'[n])
      /\ \A p \in attrsToWrite, n \in Queued' : Older(p, outQueue'[n])
      /\ \A p, q \in attrsToWrite : p = q \/ Older(p, q) \/ Older(q, p)
  BY <1>3 DEF ExportInv
<1>8. \A n \in 1..Len(sent) : \A i \in DOMAIN sent[n] :
        /\ \A p \in attrsToWrite : p.id = i => sent[n][i] < p.val
        /\ \A k \in Queued' : outQueue'[k].id = i => sent[n][i] < outQueue'[k].val
  BY <1>3 DEF ExportInv
<1>9. ExportsMoveForward' /\ \A i \in Exports : exportSeq[i] < currentSeq
  BY <1>1 DEF ExportInv, ExportsMoveForward
<1> QED BY <1>1, <1>4, <1>5, <1>6, <1>7, <1>8, <1>9 DEF ExportInv

\* The worker takes the queue over.
LEMMA Collected ==
  ASSUME PacketTypes, Collect
  PROVE  /\ Queued' = {} /\ outQueue' = <<>>
         /\ attrsToWrite' = attrsToWrite \cup {outQueue[n] : n \in Queued}
<1>1. {p \in RangeOf(outQueue) : ~p.close} = {outQueue[n] : n \in Queued}
  BY DEF RangeOf, Queued
<1>2. outQueue' = <<>> /\ Queued' = {}
  BY DEF Collect, Queued
<1> QED BY <1>1, <1>2 DEF Collect

LEMMA ExportsCollect ==
  ASSUME PacketTypes, ExportInv, Collect
  PROVE  ExportInv'
<1>1. /\ Queued' = {} /\ outQueue' = <<>>
      /\ attrsToWrite' = attrsToWrite \cup {outQueue[n] : n \in Queued}
      /\ UNCHANGED <<toPush, pushNo, exportSeq, currentSeq, sent>>
  BY Collected DEF Collect, WriterOther, simVars
<1>2. \A p, q : Older(p, q)' <=> Older(p, q)
  BY DEF Older
<1>3. \A p : Pushed(p)' <=> Pushed(p)
  BY <1>1 DEF Pushed, Counted
<1>4. \A i, v : Counted(i, v)' <=> Counted(i, v)
  BY <1>1 DEF Counted
<1>5. \A p, q \in attrsToWrite' : p = q \/ Older(p, q) \/ Older(q, p)
  <2> SUFFICES ASSUME NEW p \in attrsToWrite', NEW q \in attrsToWrite'
               PROVE  p = q \/ Older(p, q) \/ Older(q, p)
    OBVIOUS
  <2>1. CASE \E m, n \in Queued : p = outQueue[m] /\ q = outQueue[n]
    <3>1. PICK m \in Queued, n \in Queued : p = outQueue[m] /\ q = outQueue[n]
      BY <2>1
    <3>2. m = n \/ m < n \/ n < m
      BY DEF PacketTypes
    <3> QED BY <3>1, <3>2 DEF ExportInv
  <2>2. CASE p \in attrsToWrite \/ q \in attrsToWrite
    BY <1>1, <2>2 DEF ExportInv
  <2> QED BY <1>1, <2>1, <2>2
<1>6. \A p \in attrsToWrite' : Pushed(p)
  BY <1>1 DEF ExportInv
<1>7. \A n \in 1..Len(sent) : \A i \in DOMAIN sent[n] :
        Counted(i, sent[n][i]) /\ \A p \in attrsToWrite' : p.id = i => sent[n][i] < p.val
  BY <1>1 DEF ExportInv
<1>8. ExportsMoveForward' /\ \A i \in Exports : exportSeq[i] < currentSeq
  BY <1>1 DEF ExportInv, ExportsMoveForward
<1> QED BY <1>1, <1>2, <1>3, <1>4, <1>5, <1>6, <1>7, <1>8 DEF ExportInv

\* At most one packet of an export is not outdated.
LEMMA LatestUnique ==
  ASSUME PacketTypes, ExportInv,
         NEW p \in Latest(attrsToWrite), NEW q \in Latest(attrsToWrite), p.id = q.id
  PROVE  p = q
<1>1. /\ p \in attrsToWrite /\ q \in attrsToWrite /\ p.seq <= q.seq /\ q.seq <= p.seq
      /\ p.seq \in Nat /\ q.seq \in Nat
  BY DEF Latest, PacketTypes
<1>2. p = q \/ p.seq < q.seq \/ q.seq < p.seq
  BY <1>1 DEF ExportInv, Older
<1> QED BY <1>1, <1>2

\* What is written is newer than what has been sent and older than the rest.
LEMMA ExportsWritten ==
  ASSUME TypeOK, PacketTypes, ExportInv,
         attrsToWrite' \subseteq Latest(attrsToWrite),
         \/ sent' = sent
         \/ \E sample \in SUBSET Latest(attrsToWrite) :
              sample \cap attrsToWrite' = {} /\ sent' = Append(sent, Written(sample)),
         UNCHANGED <<toPush, pushNo, exportSeq, currentSeq, outQueue>>
  PROVE  ExportInv'
<1>1. attrsToWrite' \subseteq attrsToWrite
  BY LatestTyped
<1>2. Queued' = Queued
  BY DEF Queued
<1>3. /\ \A p, q : Older(p, q)' <=> Older(p, q)
      /\ \A p : Pushed(p)' <=> Pushed(p)
      /\ \A i, v : Counted(i, v)' <=> Counted(i, v)
  BY DEF Older, Pushed, Counted
<1>4. /\ \A i \in Exports : exportSeq'[i] < currentSeq'
      /\ \A n \in Queued : Pushed(outQueue[n])'
      /\ \A p \in attrsToWrite' : Pushed(p)
      /\ \A m, n \in Queued : m < n => Older(outQueue[m], outQueue[n])
      /\ \A p \in attrsToWrite', n \in Queued : Older(p, outQueue[n])
      /\ \A p, q \in attrsToWrite' : p = q \/ Older(p, q) \/ Older(q, p)
  <2>1. \A n \in Queued : Pushed(outQueue[n])'
    BY DEF ExportInv, Pushed, Counted
  <2> QED BY <1>1, <2>1 DEF ExportInv
<1> DEFINE Behind(i, v) ==
             /\ Counted(i, v)
             /\ \A p \in attrsToWrite' : p.id = i => v < p.val
             /\ \A k \in Queued : outQueue[k].id = i => v < outQueue[k].val
<1>5. \A n \in 1..Len(sent) : \A i \in DOMAIN sent[n] : Behind(i, sent[n][i])
  BY <1>1 DEF ExportInv
<1>6. (\A n \in 1..Len(sent') : \A i \in DOMAIN sent'[n] : Behind(i, sent'[n][i]))
        /\ ExportsMoveForward'
  <2>1. CASE sent' = sent
    BY <1>5, <2>1 DEF ExportInv, ExportsMoveForward
  <2>2. CASE \E sample \in SUBSET Latest(attrsToWrite) :
               sample \cap attrsToWrite' = {} /\ sent' = Append(sent, Written(sample))
    <3>1. PICK sample \in SUBSET Latest(attrsToWrite) :
            sample \cap attrsToWrite' = {} /\ sent' = Append(sent, Written(sample))
      BY <2>2
    <3>. PICK w : w = Written(sample)
      OBVIOUS
    <3>2. \A i \in DOMAIN w : \E p \in sample : p.id = i /\ w[i] = p.val
      <4>1. sample \subseteq attrsToWrite
        BY <3>1, LatestTyped
      <4>2. \A i \in DOMAIN Written(sample) :
              \E p \in sample : p.id = i /\ Written(sample)[i] = p.val
        BY <4>1, WrittenTyped
      <4> QED BY <4>2
    <3>3. /\ Len(sent) \in Nat /\ Len(sent') = Len(sent) + 1
          /\ \A n \in 1..Len(sent) : sent'[n] = sent[n]
          /\ sent'[Len(sent) + 1] = w
      <4>1. w \in OutSamples
        BY <3>1, LatestTyped, WrittenTyped
      <4> QED BY <3>1, <4>1, AppendFacts DEF TypeOK
    <3>4. ASSUME NEW i \in DOMAIN w
          PROVE  Behind(i, w[i]) /\ \A n \in 1..Len(sent) : i \in DOMAIN sent[n] => sent[n][i] < w[i]
      <4>1. PICK p \in sample : p.id = i /\ w[i] = p.val
        BY <3>2
      <4>2. p \in attrsToWrite /\ p \in Latest(attrsToWrite) /\ p \notin attrsToWrite'
        BY <3>1, LatestTyped
      <4>3. \A q \in attrsToWrite' : q.id # i
        BY <4>1, <4>2, LatestUnique
      <4>4. Counted(i, w[i])
        BY <4>1, <4>2 DEF ExportInv, Pushed
      <4>5. \A k \in Queued : outQueue[k].id = i => w[i] < outQueue[k].val
        BY <4>1, <4>2 DEF ExportInv, Older
      <4>6. \A n \in 1..Len(sent) : i \in DOMAIN sent[n] => sent[n][i] < w[i]
        BY <4>1, <4>2 DEF ExportInv
      <4> QED BY <4>3, <4>4, <4>5, <4>6
    <3>5. \A n \in 1..Len(sent') : n \in 1..Len(sent) \/ n = Len(sent) + 1
      BY <3>3
    <3> HIDE DEF Behind
    <3>6. \A n \in 1..Len(sent') : \A i \in DOMAIN sent'[n] : Behind(i, sent'[n][i])
      BY <1>5, <3>3, <3>4, <3>5
    <3>7. ASSUME NEW m \in 1..Len(sent'), NEW n \in 1..Len(sent'), m < n,
                 NEW i \in DOMAIN sent'[m] \cap DOMAIN sent'[n]
          PROVE  sent'[m][i] < sent'[n][i]
      <4>1. m \in 1..Len(sent) /\ sent'[m] = sent[m]
        BY <3>3, <3>5, <3>7
      <4>2. CASE n \in 1..Len(sent)
        BY <3>3, <3>7, <4>1, <4>2 DEF ExportInv, ExportsMoveForward
      <4>3. CASE n = Len(sent) + 1
        BY <3>3, <3>4, <3>7, <4>1, <4>3
      <4> QED BY <3>5, <4>2, <4>3
    <3> QED BY <3>6, <3>7 DEF ExportsMoveForward
  <2> QED BY <2>1, <2>2
<1> QED BY <1>2, <1>3, <1>4, <1>6 DEF ExportInv

LEMMA ExportsNext ==
  ASSUME TypeOK, TypeOK', ExportInv, [Next]_vars
  PROVE  ExportInv'
<1>1. PacketTypes /\ PacketTypes'
  BY PacketsTyped, PTL
<1>2. CASE Push \/ PushClose \/ Collect
  BY <1>1, <1>2, ExportsPush, ExportsClose, ExportsCollect
<1>3. CASE Open \/ SyncAgain \/ PostStep
  BY <1>1, <1>3, ExportsCall DEF Open, SyncAgain, PostStep, PopDone, BeginPush, writerVars
<1>4. CASE NoSample \/ Write
  <2>1. UNCHANGED <<toPush, pushNo, exportSeq, currentSeq, outQueue>>
    BY <1>4, WriteSteps DEF NoSample, BeginWrite, WriterOther, simVars
  <2>2. CASE NoSample
    BY <1>1, <2>1, <2>2, ExportsWritten DEF NoSample
  <2>3. CASE Write
    <3>. PICK sample : sample = Sample(Latest(attrsToWrite))
      OBVIOUS
    <3>1. sample \subseteq Latest(attrsToWrite)
      BY DEF Sample, Asap
    <3>2. /\ attrsToWrite' = Latest(attrsToWrite) \ sample
          /\ sent' = Append(sent, Written(sample)) \/ sent' = sent
      BY <2>3, WriteSteps
    <3> QED BY <1>1, <2>1, <3>1, <3>2, ExportsWritten
  <2> QED BY <1>4, <2>2, <2>3
<1>5. CASE /\ ~Push /\ ~PushClose /\ ~Collect /\ ~Open /\ ~SyncAgain /\ ~PostStep
           /\ ~NoSample /\ ~Write
  <2>1. ReaderStep => UNCHANGED ReaderOther
    BY DEF ReaderStep, ReaderLoop, ReadNothing, ReadSample, Enqueue
  <2>2. SimStep => UNCHANGED <<toPush, pushNo, exportSeq, currentSeq, outQueue, attrsToWrite, sent>>
    BY <1>5 DEF SimStep, SyncImports, PopOverrun, PopFoundEmpty, PopOne, PreStep,
       SkipStep, BeginClose, CloseWorker, PopOther, writerVars
  <2>3. UNCHANGED <<toPush, pushNo, exportSeq, currentSeq, outQueue, attrsToWrite, sent>>
    BY <1>5, <2>1, <2>2 DEF Next, WriterStep, ReaderOther, RemoteAnswers, Closed, vars, simVars,
       writerVars
  <2> QED BY <2>3 DEF ExportInv, ExportsMoveForward, Queued, Pushed, Counted, Older
<1> QED BY <1>2, <1>3, <1>4, <1>5

LEMMA ExportsInit == Init => ExportInv
<1> SUFFICES ASSUME Init PROVE ExportInv
  OBVIOUS
<1>1. Len(outQueue) = 0 /\ Len(sent) = 0
  BY DEF Init
<1>2. Queued = {}
  BY <1>1 DEF Queued
<1> QED BY <1>1, <1>2 DEF Init, ExportInv, ExportsMoveForward

(***************************************************************************)
(* The remote never gets an older value of an export after a newer one,    *)
(* although packets are collected, removed as outdated, left over for the  *)
(* next sample and lost with samples that could not be written.            *)
(***************************************************************************)
THEOREM ExportsForward == Spec => []ExportsMoveForward
<1>1. Init => TypeOK /\ ExportInv
  BY TypesInit, ExportsInit
<1>2. TypeOK /\ ExportInv /\ [Next]_vars => TypeOK' /\ ExportInv'
  BY TypesNext, ExportsNext
<1>3. ExportInv => ExportsMoveForward
  BY DEF ExportInv
<1> QED BY <1>1, <1>2, <1>3, PTL DEF Spec

\* The worker remembers the ids of the packets it goes on with.
LEMMA WorkerWrites ==
  ASSUME PacketTypes, ExportInv, WorkerInv, BeginWrite(Latest(attrsToWrite))
  PROVE  \A i \in Exports :
           /\ workerSeq'[i] <= exportSeq[i]
           /\ \A n \in Queued : outQueue[n].id = i => workerSeq'[i] <= outQueue[n].seq
           /\ \A p \in Latest(attrsToWrite) : p.id = i => workerSeq'[i] <= p.seq
<1> SUFFICES ASSUME NEW i \in Exports
             PROVE  /\ workerSeq'[i] <= exportSeq[i]
                    /\ \A n \in Queued : outQueue[n].id = i => workerSeq'[i] <= outQueue[n].seq
                    /\ \A p \in Latest(attrsToWrite) : p.id = i => workerSeq'[i] <= p.seq
  OBVIOUS
<1> DEFINE ps == {p \in Latest(attrsToWrite) : p.id = i}
<1>1. workerSeq'[i] = IF ps = {} THEN workerSeq[i] ELSE (CHOOSE p \in ps : TRUE).seq
  BY DEF BeginWrite
<1>2. \A p \in ps : p \in attrsToWrite /\ p.id = i /\ p \in Latest(attrsToWrite)
  BY DEF Latest
<1> HIDE DEF ps
<1>3. CASE ps = {}
  <2>1. \A p \in Latest(attrsToWrite) : p.id # i
    BY <1>3 DEF ps
  <2> QED BY <1>1, <1>3, <2>1 DEF WorkerInv
<1>4. CASE ps # {}
  <2>1. PICK p \in ps : workerSeq'[i] = p.seq
    BY <1>1, <1>4
  <2>2. p.seq \in Nat /\ p.seq < exportSeq[i] /\ exportSeq[i] \in Nat
    BY <1>2, <2>1 DEF ExportInv, Pushed, PacketTypes
  <2>3. \A n \in Queued : outQueue[n].id = i => p.seq < outQueue[n].seq /\ outQueue[n].seq \in Nat
    BY <1>2, <2>1 DEF ExportInv, Older, PacketTypes
  <2>4. \A q \in Latest(attrsToWrite) : q.id = i => q = p
    BY <1>2, <2>1, LatestUnique
  <2> QED BY <2>1, <2>2, <2>3, <2>4
<1> QED BY <1>3, <1>4

LEMMA WorkerNext ==
  ASSUME TypeOK, TypeOK', ExportInv, WorkerInv, [Next]_vars
  PROVE  WorkerInv'
<1>1. PacketTypes /\ PacketTypes'
  BY PacketsTyped, PTL
<1>2. CASE Push
  <2>1. PICK i \in toPush : i = LeastOf(toPush) /\ i \in Exports
    BY <1>1, <1>2, InterfaceAssumption, LeastIsThere DEF Push, PacketTypes
  <2>. PICK x : x = Packet(i, exportSeq[i], pushNo)
    OBVIOUS
  <2>2. /\ outQueue' = Append(outQueue, x)
        /\ exportSeq' = [exportSeq EXCEPT ![i] = currentSeq]
        /\ UNCHANGED <<attrsToWrite, workerSeq>>
    BY <1>2, <2>1 DEF Push, writerVars
  <2>3. \A j \in Exports : workerSeq'[j] <= exportSeq'[j]
    BY <1>1, <2>1, <2>2 DEF WorkerInv, ExportInv, PacketTypes
  <2>4. x.id = i /\ x.seq = exportSeq[i]
    BY DEF Packet
  <2>5. \A n \in Queued' : (n \in Queued /\ outQueue'[n] = outQueue[n]) \/ outQueue'[n] = x
    <3>1. Len(outQueue) \in Nat
      BY <1>1 DEF PacketTypes
    <3> QED BY <2>2, <3>1 DEF Queued
  <2>6. \A n \in Queued' : workerSeq[outQueue'[n].id] <= outQueue'[n].seq
    BY <2>1, <2>4, <2>5 DEF WorkerInv
  <2> QED BY <2>2, <2>3, <2>6 DEF WorkerInv
<1>3. CASE PushClose
  <2>1. /\ outQueue' = Append(outQueue, Close)
        /\ UNCHANGED <<exportSeq, attrsToWrite, workerSeq>>
    BY <1>3 DEF PushClose, writerVars
  <2>2. \A n \in Queued' : n \in Queued /\ outQueue'[n] = outQueue[n]
    <3>1. Len(outQueue) \in Nat /\ Close.close
      BY <1>1 DEF PacketTypes, Close
    <3> QED BY <2>1, <3>1 DEF Queued
  <2> QED BY <2>1, <2>2 DEF WorkerInv
<1>4. CASE Collect
  <2>1. /\ Queued' = {} /\ attrsToWrite' = attrsToWrite \cup {outQueue[n] : n \in Queued}
        /\ UNCHANGED <<exportSeq, workerSeq>>
    BY <1>1, <1>4, Collected DEF Collect, WriterOther, simVars
  <2> QED BY <2>1 DEF WorkerInv
<1>5. CASE NoSample \/ Write
  <2>1. /\ BeginWrite(Latest(attrsToWrite))
        /\ attrsToWrite' \subseteq Latest(attrsToWrite)
        /\ UNCHANGED <<exportSeq, outQueue>>
    BY <1>5, WriteSteps DEF NoSample, BeginWrite, WriterOther, simVars
  <2>2. Queued' = Queued /\ \A n \in Queued : outQueue[n].id \in Exports
    BY <1>1, <2>1 DEF Queued, PacketTypes
  <2>3. \A p \in attrsToWrite' : p.id \in Exports
    BY <1>1 DEF PacketTypes
  <2>4. \A i \in Exports :
           /\ workerSeq'[i] <= exportSeq[i]
           /\ \A n \in Queued : outQueue[n].id = i => workerSeq'[i] <= outQueue[n].seq
           /\ \A p \in Latest(attrsToWrite) : p.id = i => workerSeq'[i] <= p.seq
    BY <1>1, <2>1, WorkerWrites
  <2> QED BY <2>1, <2>2, <2>3, <2>4 DEF WorkerInv
<1>6. CASE ~Push /\ ~PushClose /\ ~Collect /\ ~NoSample /\ ~Write
  <2>1. ReaderStep => UNCHANGED ReaderOther
    BY DEF ReaderStep, ReaderLoop, ReadNothing, ReadSample, Enqueue
  <2>2. SimStep => UNCHANGED <<exportSeq, outQueue, attrsToWrite, workerSeq>>
    BY <1>6 DEF SimStep, Open, SyncImports, PopOverrun, PopFoundEmpty, PopOne, SyncAgain, PostStep,
       PopDone, PreStep, SkipStep, BeginClose, CloseWorker, PopOther, writerVars
  <2>3. UNCHANGED <<exportSeq, outQueue, attrsToWrite, workerSeq>>
    BY <1>6, <2>1, <2>2 DEF Next, WriterStep, ReaderOther, RemoteAnswers, Closed, vars, simVars,
       writerVars
  <2> QED BY <2>3 DEF WorkerInv, Queued
<1> QED BY <1>2, <1>3, <1>4, <1>5, <1>6

LEMMA CloseNext ==
  ASSUME TypeOK, CloseInv, [Next]_vars
  PROVE  CloseInv'
<1>1. pushNo \in Nat /\ PacketTypes
  BY PacketsTyped DEF TypeOK
<1>2. CASE Open
  BY <1>1, <1>2 DEF Open, BeginPush, CloseInv
<1>3. CASE Push
  <2>1. PICK x : outQueue' = Append(outQueue, x) /\ ~x.close
    BY <1>3 DEF Push, Packet
  <2>2. UNCHANGED <<simPc, pushNo, writerPc, closing>> /\ toPush' \subseteq toPush /\ toPush # {}
    BY <1>3 DEF Push, writerVars
  <2>3. simPc \notin {"close", "join", "closed"} /\ ~closing
    BY <2>2 DEF CloseInv
  <2>4. \A n \in 1..Len(outQueue') : ~outQueue'[n].close
    <3>1. Len(outQueue) \in Nat /\ \A n \in 1..Len(outQueue) : ~outQueue[n].close
      BY <1>1, <2>3 DEF PacketTypes, CloseInv
    <3> QED BY <2>1, <3>1
  <2> QED BY <2>2, <2>3, <2>4 DEF CloseInv
<1>4. CASE SyncImports \/ PreStep \/ SkipStep
  BY <1>4 DEF SyncImports, PreStep, SkipStep, BeginPop, writerVars, CloseInv, Ready
<1>5. CASE PopOverrun \/ PopFoundEmpty \/ PopOne
  BY <1>5 DEF PopOverrun, PopFoundEmpty, PopOne, PopOther, Popping, writerVars, CloseInv
<1>6. CASE SyncAgain \/ PostStep
  BY <1>1, <1>6 DEF SyncAgain, PostStep, PopDone, BeginPush, writerVars, CloseInv
<1>7. CASE BeginClose
  BY <1>7 DEF BeginClose, Ready, writerVars, CloseInv
<1>8. CASE PushClose
  BY <1>8 DEF PushClose, writerVars, CloseInv
<1>9. CASE CloseWorker
  BY <1>9 DEF CloseWorker, Joined, writerVars, CloseInv
<1>10. CASE Collect
  <2>1. closing' => closing \/ \E n \in 1..Len(outQueue) : outQueue[n].close
    BY <1>10 DEF Collect, RangeOf
  <2>2. /\ outQueue' = <<>> /\ writerPc' = "write" /\ writerPc = "wait"
        /\ UNCHANGED <<simPc, pushNo, toPush>>
    BY <1>10 DEF Collect, WriterOther, simVars
  <2>3. closing' => simPc \in {"join", "closed"}
    BY <2>1 DEF CloseInv
  <2>4. Len(outQueue') = 0 /\ simPc # "closed"
    BY <2>2 DEF CloseInv
  <2> QED BY <2>2, <2>3, <2>4 DEF CloseInv
<1>11. CASE NoSample \/ Write
  <2>1. \E kept : BeginWrite(kept)
    BY <1>11, WriteSteps DEF NoSample
  <2>2. /\ UNCHANGED <<simPc, toPush, pushNo, outQueue, closing>> /\ writerPc = "write"
        /\ writerPc' = IF closing THEN "exited" ELSE "wait"
    BY <2>1 DEF BeginWrite, AfterWrite, WriterOther, simVars
  <2> QED BY <2>2 DEF CloseInv
<1>12. CASE ReaderStep \/ RemoteAnswers \/ UNCHANGED vars
  <2>1. ReaderStep => UNCHANGED ReaderOther
    BY DEF ReaderStep, ReaderLoop, ReadNothing, ReadSample, Enqueue
  <2>2. UNCHANGED <<simVars, outQueue, writerVars>>
    BY <1>12, <2>1 DEF ReaderOther, RemoteAnswers, vars
  <2> QED BY <2>2 DEF simVars, writerVars, CloseInv
<1> QED BY <1>2, <1>3, <1>4, <1>5, <1>6, <1>7, <1>8, <1>9, <1>10, <1>11, <1>12
        DEF Next, SimStep, WriterStep, Closed

\* What need not wait is written, and is the newest packet of its export.
LEMMA LastWritten ==
  ASSUME TypeOK, ExportInv, WorkerInv, Write, ~setup.failures,
         NEW p \in attrsToWrite, p.id \notin WaitForOnWrite, p.val = pushNo
  PROVE  \E n \in 1..Len(sent') : p.id \in DOMAIN sent'[n] /\ sent'[n][p.id] = pushNo
<1>1. PacketTypes
  BY PacketsTyped
<1> DEFINE kept == Latest(attrsToWrite)
<1>2. p \in kept
  <2>1. \A q \in attrsToWrite : q.id = p.id => q.seq <= p.seq
    <3> SUFFICES ASSUME NEW q \in attrsToWrite, q.id = p.id PROVE q.seq <= p.seq
      OBVIOUS
    <3>1. /\ p.seq \in Nat /\ q.seq \in Nat /\ q.val \in Nat /\ pushNo \in Nat
          /\ q.val <= pushNo
      BY <1>1 DEF PacketTypes, ExportInv, Pushed, Counted
    <3>2. p = q \/ Older(p, q) \/ Older(q, p)
      BY DEF ExportInv
    <3> QED BY <3>1, <3>2 DEF Older
  <2>2. p.seq >= workerSeq[p.id]
    BY <1>1 DEF WorkerInv, PacketTypes
  <2> QED BY <2>1, <2>2 DEF Latest
<1>. PICK sample : sample = Sample(kept)
  OBVIOUS
<1>3. p \in sample /\ sample \subseteq kept /\ p \in Asap(kept)
  BY <1>2 DEF Sample, Asap
<1>4. sent' = Append(sent, Written(sample))
  BY <1>3, WriteSteps
<1>5. p.id \in DOMAIN Written(sample) /\ Written(sample)[p.id] = pushNo
  <2>1. sample \subseteq attrsToWrite
    BY <1>3, LatestTyped
  <2>2. /\ DOMAIN Written(sample) = {q.id : q \in sample}
        /\ \A i \in DOMAIN Written(sample) :
             \E q \in sample : q.id = i /\ Written(sample)[i] = q.val
    <3>1. TypeOK /\ sample \subseteq attrsToWrite
      BY <2>1
    <3> QED BY ONLY <3>1, WrittenTyped
  <2>3. PICK q \in sample : q.id = p.id /\ Written(sample)[p.id] = q.val
    BY <1>3, <2>2
  <2>4. q = p
    BY <1>1, <1>2, <1>3, <2>3, LatestUnique
  <2> QED BY <1>3, <2>2, <2>3, <2>4
<1>6. Len(sent) \in Nat
  BY <1>1 DEF PacketTypes
<1>. PICK w : w = Written(sample)
  OBVIOUS
<1>7. Len(sent) + 1 \in 1..Len(sent') /\ sent'[Len(sent) + 1] = w
  BY <1>4, <1>6
<1> QED BY <1>5, <1>7

\* A sample that has been sent stays sent.
LEMMA SentStays ==
  ASSUME TypeOK, WriterStep, NEW n \in 1..Len(sent)
  PROVE  n \in 1..Len(sent') /\ sent'[n] = sent[n]
<1>1. sent' = sent \/ \E w : sent' = Append(sent, w)
  BY WriteSteps DEF WriterStep, Collect, NoSample
<1>2. sent \in Seq(OutSamples)
  BY DEF TypeOK
<1> QED BY <1>1, <1>2

LEMMA NothingLostNext ==
  ASSUME TypeOK, TypeOK', ThreadInv, ExportInv, WorkerInv, CloseInv, NothingLost, [Next]_vars
  PROVE  NothingLost'
<1>1. PacketTypes /\ PacketTypes' /\ UNCHANGED setup
  <2>1. UNCHANGED setup
    BY DEF Next, SimStep, ReaderStep, WriterStep, RemoteAnswers, Closed, vars
  <2> QED BY <2>1, PacketsTyped, PTL
<1>2. UNCHANGED WaitForOnWrite
  BY <1>1 DEF WaitForOnWrite
<1>3. SUFFICES ASSUME ~setup.failures
               PROVE  /\ writerPc' # "write" => \A p \in attrsToWrite' : p.id \in WaitForOnWrite
                      /\ pushNo' > 0 =>
                           \A i \in Exports \ (WaitForOnWrite \cup toPush') : Somewhere(i)'
  BY <1>1, <1>2 DEF NothingLost
<1>4. /\ writerPc # "write" => \A p \in attrsToWrite : p.id \in WaitForOnWrite
      /\ pushNo > 0 => \A i \in Exports \ (WaitForOnWrite \cup toPush) : Somewhere(i)
  BY <1>3 DEF NothingLost
<1>5. CASE Open \/ SyncAgain \/ PostStep
  <2>1. toPush' = Exports /\ attrsToWrite' = attrsToWrite
    BY <1>5 DEF Open, SyncAgain, PostStep, PopDone, BeginPush, writerVars
  <2>2. writerPc' # "write" => writerPc # "write"
    BY <1>5 DEF Open, SyncAgain, PostStep, PopDone, writerVars, ThreadInv
  <2> QED BY <1>4, <2>1, <2>2
<1>6. CASE Push
  <2>1. PICK i \in toPush : i = LeastOf(toPush) /\ i \in Exports
    BY <1>1, <1>6, InterfaceAssumption, LeastIsThere DEF Push, PacketTypes
  <2>. PICK x : x = Packet(i, exportSeq[i], pushNo)
    OBVIOUS
  <2>2. /\ outQueue' = Append(outQueue, x) /\ toPush' = toPush \ {i}
        /\ UNCHANGED <<attrsToWrite, sent, pushNo, writerPc>>
    BY <1>6, <2>1 DEF Push, writerVars
  <2>3. x.id = i /\ x.val = pushNo /\ ~x.close
    BY DEF Packet
  <2>4. /\ \A n \in Queued : n \in Queued' /\ outQueue'[n] = outQueue[n]
        /\ \E n \in Queued' : outQueue'[n] = x
    <3>1. Len(outQueue) \in Nat
      BY <1>1 DEF PacketTypes
    <3>2. /\ Len(outQueue') = Len(outQueue) + 1
          /\ \A n \in 1..Len(outQueue) : outQueue'[n] = outQueue[n]
          /\ outQueue'[Len(outQueue) + 1] = x
      BY <2>2, <3>1
    <3> QED BY <2>3, <3>1, <3>2 DEF Queued
  <2>5. \A j : Somewhere(j) => Somewhere(j)'
    BY <2>2, <2>4 DEF Somewhere
  <2>6. Somewhere(i)'
    BY <2>2, <2>3, <2>4 DEF Somewhere
  <2> QED BY <1>4, <2>2, <2>5, <2>6
<1>7. CASE PushClose
  <2>1. /\ outQueue' = Append(outQueue, Close)
        /\ UNCHANGED <<attrsToWrite, sent, pushNo, writerPc, toPush>>
    BY <1>7 DEF PushClose, writerVars
  <2>2. \A n \in Queued : n \in Queued' /\ outQueue'[n] = outQueue[n]
    <3>1. Len(outQueue) \in Nat
      BY <1>1 DEF PacketTypes
    <3> QED BY <2>1, <3>1 DEF Queued
  <2>3. \A j : Somewhere(j) => Somewhere(j)'
    BY <2>1, <2>2 DEF Somewhere
  <2> QED BY <1>4, <2>1, <2>3
<1>8. CASE Collect
  <2>1. /\ attrsToWrite' = attrsToWrite \cup {outQueue[n] : n \in Queued}
        /\ writerPc' = "write"
        /\ UNCHANGED <<sent, pushNo, toPush>>
    BY <1>1, <1>8, Collected DEF Collect, WriterOther, simVars
  <2>2. \A j : Somewhere(j) => Somewhere(j)'
    BY <2>1 DEF Somewhere
  <2> QED BY <1>4, <2>1, <2>2
<1>9. CASE NoSample
  BY <1>3, <1>9 DEF NoSample
<1>10. CASE Write
  <2>1. /\ BeginWrite(Latest(attrsToWrite)) /\ UNCHANGED <<pushNo, toPush, outQueue>>
        /\ attrsToWrite' = Latest(attrsToWrite) \ Sample(Latest(attrsToWrite))
    BY <1>10, WriteSteps DEF BeginWrite, WriterOther, simVars
  <2>2. \A p \in attrsToWrite' : p.id \in WaitForOnWrite
    BY <2>1 DEF Sample, Asap
  <2>3. ASSUME NEW i \in Exports \ (WaitForOnWrite \cup toPush), Somewhere(i)
        PROVE  Somewhere(i)'
    <3>1. CASE \E p \in attrsToWrite : p.id = i /\ p.val = pushNo
      <4>1. PICK p \in attrsToWrite : p.id = i /\ p.val = pushNo
        BY <3>1
      <4>2. \E n \in 1..Len(sent') : p.id \in DOMAIN sent'[n] /\ sent'[n][p.id] = pushNo
        BY <1>3, <1>10, <4>1, LastWritten
      <4> QED BY <2>1, <4>1, <4>2 DEF Somewhere
    <3>2. CASE \E n \in Queued : outQueue[n].id = i /\ outQueue[n].val = pushNo
      BY <2>1, <3>2 DEF Somewhere, Queued
    <3>3. CASE \E n \in 1..Len(sent) : i \in DOMAIN sent[n] /\ sent[n][i] = pushNo
      <4>1. PICK n \in 1..Len(sent) : i \in DOMAIN sent[n] /\ sent[n][i] = pushNo
        BY <3>3
      <4>2. n \in 1..Len(sent') /\ sent'[n] = sent[n]
        <5>1. WriterStep
          BY <1>1, <1>10 DEF WriterStep
        <5> QED BY <5>1, SentStays
      <4> QED BY <2>1, <4>1, <4>2 DEF Somewhere
    <3> QED BY <2>3, <3>1, <3>2, <3>3 DEF Somewhere
  <2> QED BY <1>4, <2>1, <2>2, <2>3
<1>11. CASE /\ ~Open /\ ~SyncAgain /\ ~PostStep /\ ~Push /\ ~PushClose
            /\ ~Collect /\ ~NoSample /\ ~Write
  <2>1. ReaderStep => UNCHANGED ReaderOther
    BY DEF ReaderStep, ReaderLoop, ReadNothing, ReadSample, Enqueue
  <2>2. SimStep => UNCHANGED <<toPush, pushNo, outQueue, attrsToWrite, sent, writerPc>>
    BY <1>11 DEF SimStep, SyncImports, PopOverrun, PopFoundEmpty, PopOne, PreStep, SkipStep,
       BeginClose, CloseWorker, PopOther, writerVars
  <2>3. UNCHANGED <<toPush, pushNo, outQueue, attrsToWrite, sent, writerPc>>
    BY <1>11, <2>1, <2>2 DEF Next, WriterStep, ReaderOther, RemoteAnswers, Closed, vars, simVars,
       writerVars
  <2>4. \A j : Somewhere(j)' <=> Somewhere(j)
    BY <2>3 DEF Somewhere, Queued
  <2> QED BY <1>4, <2>3, <2>4
<1> QED BY <1>5, <1>6, <1>7, <1>8, <1>9, <1>10, <1>11

(***************************************************************************)
(* close() is queued behind the last values, the writer writes them before *)
(* it exits, and the simulation waits for it.                              *)
(***************************************************************************)
THEOREM LastExports == Spec => []LastExportsSent
<1> DEFINE Inv == TypeOK /\ ThreadInv /\ ExportInv /\ WorkerInv /\ CloseInv /\ NothingLost
<1>1. Init => Inv
  <2>1. Init => Len(outQueue) = 0 /\ Queued = {}
    BY DEF Init, Queued
  <2>2. Init => WorkerInv /\ CloseInv /\ NothingLost /\ ThreadInv
    BY <2>1 DEF Init, WorkerInv, CloseInv, NothingLost, ThreadInv
  <2> QED BY <2>2, TypesInit, ExportsInit
<1>2. Inv /\ [Next]_vars => Inv'
  BY TypesNext, ThreadNext, ExportsNext, WorkerNext, CloseNext, NothingLostNext
<1>3. Inv => LastExportsSent
  <2> SUFFICES ASSUME Inv, simPc = "closed", ~setup.failures,
                      NEW i \in Exports \ WaitForOnWrite
               PROVE  \E n \in 1..Len(sent) : i \in DOMAIN sent[n] /\ sent[n][i] = pushNo
    BY DEF LastExportsSent
  <2>1. closing /\ writerPc = "exited" /\ outQueue = <<>> /\ toPush = {} /\ pushNo > 0
    BY DEF CloseInv
  <2>2. Queued = {} /\ \A p \in attrsToWrite : p.id \in WaitForOnWrite
    BY <2>1 DEF NothingLost, Queued
  <2>3. Somewhere(i)
    BY <2>1 DEF NothingLost
  <2> QED BY <2>2, <2>3 DEF Somewhere
<1> QED BY <1>1, <1>2, <1>3, PTL DEF Spec

-----------------------------------------------------------------------------
(* What a sample contains.                                                 *)

\* A sample contains all exports that wait for each other, or others only.
WholeOrNone(w) ==
  \/ WaitForOnWrite \subseteq DOMAIN w
  \/ WaitForOnWrite \cap DOMAIN w = {} /\ DOMAIN w # {}

WholeInv == \A n \in 1..Len(sent) : WholeOrNone(sent[n])

\* As many packets as exports that wait, with ids that differ, are a packet for
\* each of these exports.
LEMMA CompleteCovers ==
  ASSUME TypeOK, PacketTypes, ExportInv,
         NEW rest \in SUBSET Latest(attrsToWrite),
         \A p \in rest : p.id \in WaitForOnWrite,
         Complete(rest)
  PROVE  \A i \in WaitForOnWrite : \E p \in rest : p.id = i
<1> DEFINE f == [p \in rest |-> p.id]
<1>1. IsFiniteSet(WaitForOnWrite)
  <2>1. WaitForOnWrite \subseteq Exports /\ IsFiniteSet(Exports)
    BY SetupTyped, InterfaceAssumption DEF TypeOK, WaitForOnWrite, IsSetup
  <2> QED BY <2>1, FS_Subset
<1>2. f \in Injection(rest, WaitForOnWrite)
  <2>1. \A p, q \in rest : p.id = q.id => p = q
    BY LatestUnique
  <2> QED BY <2>1 DEF Injection, IsInjective
<1>3. f \in Surjection(rest, WaitForOnWrite)
  BY <1>1, <1>2, FS_Injection DEF Complete
<1> QED BY <1>3 DEF Surjection

LEMMA SampleWhole ==
  ASSUME TypeOK, PacketTypes, ExportInv, NEW kept, kept = Latest(attrsToWrite),
         Asap(kept) # {} \/ Complete(kept \ Asap(kept))
  PROVE  WholeOrNone(Written(Sample(kept)))
<1>1. Asap(kept) \subseteq kept /\ kept \subseteq attrsToWrite
  BY LatestTyped DEF Asap
<1>. PICK sample : sample = Sample(kept)
  OBVIOUS
<1>. PICK w : w = Written(sample)
  OBVIOUS
<1>2. DOMAIN w = {p.id : p \in sample}
  <2>1. sample \subseteq attrsToWrite
    BY <1>1 DEF Sample
  <2> QED BY <2>1, WrittenTyped
<1>3. CASE Complete(kept \ Asap(kept))
  <2>1. \A i \in WaitForOnWrite : \E p \in kept \ Asap(kept) : p.id = i
    <3>1. \A p \in kept \ Asap(kept) : p.id \in WaitForOnWrite
      BY DEF Asap
    <3> QED BY <1>3, <3>1, CompleteCovers
  <2>2. sample = kept
    BY <1>3 DEF Sample
  <2>3. WaitForOnWrite \subseteq DOMAIN w
    BY <1>2, <2>1, <2>2
  <2> QED BY <2>3 DEF WholeOrNone
<1>4. CASE ~Complete(kept \ Asap(kept))
  <2>1. sample = Asap(kept) /\ sample # {}
    BY <1>4 DEF Sample
  <2>2. WaitForOnWrite \cap DOMAIN w = {} /\ DOMAIN w # {}
    BY <1>2, <2>1 DEF Asap
  <2> QED BY <2>2 DEF WholeOrNone
<1> QED BY <1>3, <1>4

LEMMA WholeNext ==
  ASSUME TypeOK, PacketTypes, ExportInv, WholeInv, [Next]_vars
  PROVE  WholeInv'
<1>1. UNCHANGED WaitForOnWrite
  <2>1. UNCHANGED setup
    BY DEF Next, SimStep, ReaderStep, WriterStep, RemoteAnswers, Closed, vars
  <2> QED BY <2>1 DEF WaitForOnWrite
<1> DEFINE kept == Latest(attrsToWrite)
<1>3. \/ sent' = sent
      \/ /\ sent' = Append(sent, Written(Sample(kept)))
         /\ Asap(kept) # {} \/ Complete(kept \ Asap(kept))
  <2>1. CASE WriterStep
    BY <2>1 DEF WriterStep, Collect, NoSample, Write, Asap, Sample, Written
  <2>2. CASE ~WriterStep
    <3>1. ReaderStep => UNCHANGED ReaderOther
      BY DEF ReaderStep, ReaderLoop, ReadNothing, ReadSample, Enqueue
    <3>2. SimStep => UNCHANGED sent
      BY DEF SimStep, Open, SyncAgain, PostStep, Push, PushClose, PopDone, BeginPush, SyncImports,
         PopOverrun, PopFoundEmpty, PopOne, PreStep, SkipStep, BeginClose, CloseWorker, PopOther,
         writerVars
    <3> QED BY <2>2, <3>1, <3>2 DEF Next, ReaderOther, RemoteAnswers, Closed, vars, writerVars
  <2> QED BY <2>1, <2>2
<1>4. CASE sent' = sent
  BY <1>1, <1>4 DEF WholeInv, WholeOrNone
<1>5. CASE /\ sent' = Append(sent, Written(Sample(kept)))
           /\ Asap(kept) # {} \/ Complete(kept \ Asap(kept))
  <2>. PICK w : w = Written(Sample(kept))
    OBVIOUS
  <2>1. WholeOrNone(w)
    BY <1>5, SampleWhole
  <2>2. sent' = Append(sent, w) /\ sent \in Seq(OutSamples)
    BY <1>5 DEF TypeOK
  <2>3. \A n \in 1..Len(sent') : sent'[n] = w \/ (n \in 1..Len(sent) /\ sent'[n] = sent[n])
    BY <2>2
  <2> HIDE DEF kept
  <2> QED BY <1>1, <2>1, <2>3 DEF WholeInv, WholeOrNone
<1> QED BY <1>3, <1>4, <1>5

\* No export waits for another, or all wait for each other.
UniformWait == setup.waitForOnWrite \in {{}, Exports}

(***************************************************************************)
(* When all exports wait for each other, every sample contains all of      *)
(* them; when only some do, a sample contains all of these or none.        *)
(***************************************************************************)
THEOREM WholeSamples == Spec => [](WholeInv /\ (UniformWait => SamplesContainWaited))
<1>1. Init => TypeOK /\ ExportInv /\ WholeInv
  BY TypesInit, ExportsInit DEF Init, WholeInv
<1>2. TypeOK /\ ExportInv /\ WholeInv /\ [Next]_vars => TypeOK' /\ ExportInv' /\ WholeInv'
  BY TypesNext, ExportsNext, PacketsTyped, WholeNext
<1>3. TypeOK /\ WholeInv /\ UniformWait => SamplesContainWaited
  <2> SUFFICES ASSUME TypeOK, WholeInv, UniformWait, NEW n \in 1..Len(sent)
               PROVE  WaitForOnWrite \subseteq DOMAIN sent[n]
    BY DEF SamplesContainWaited
  <2>1. DOMAIN sent[n] \subseteq Exports
    <3>1. sent[n] \in OutSamples
      BY DEF TypeOK
    <3> QED BY <3>1 DEF OutSamples
  <2> QED BY <2>1 DEF WholeInv, WholeOrNone, UniformWait, WaitForOnWrite
<1> QED BY <1>1, <1>2, <1>3, PTL DEF Spec
=============================================================================
