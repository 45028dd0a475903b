-------------------------- MODULE InterfaceQueued --------------------------
(***************************************************************************)
(* InterfaceQueued of dpsim/src/InterfaceQueued.cpp with the worker of     *)
(* dpsim-villas/src/InterfaceWorkerVillas.cpp: the simulation thread, the  *)
(* reader and the writer thread, the two queues between them, and a remote *)
(* that sends samples: whenever it likes, or one for each it is sent.      *)
(*                                                                         *)
(* The value of an export is the number of the push it was taken in, the   *)
(* value of an import the number of the remote's sample it came with.  A   *)
(* loop over try_dequeue() takes what is in the queue when it finds it     *)
(* empty, as the other side only adds to it.                               *)
(***************************************************************************)
EXTENDS Naturals, Sequences, FiniteSets

CONSTANTS
  Imports, Exports,     \* attribute ids: positions in the import/export lists
  Setups                \* how the interface may be configured, records of
                        \*   blockOnRead:    imports with blockOnRead
                        \*   syncOnStart:    imports with syncOnSimulationStart
                        \*   waitForOnWrite: exports with waitForOnWrite
                        \*   downsampling:   steps between two exchanges
                        \*   shapes:   which imports a remote's sample contains
                        \*   lockStep: the remote only answers samples it is sent
                        \*   failures: samples may run out and writes may fail
                        \*   maxSteps, maxSamples: bounds on the steps of the
                        \*             simulation and the samples of the remote

IsSetup(s) ==
  /\ s.blockOnRead \subseteq Imports /\ s.syncOnStart \subseteq Imports
  /\ s.waitForOnWrite \subseteq Exports
  /\ s.downsampling \in Nat \ {0}
  /\ s.shapes \subseteq SUBSET Imports
  /\ {s.lockStep, s.failures} \subseteq BOOLEAN
  /\ {s.maxSteps, s.maxSamples} \subseteq Nat

ASSUME InterfaceAssumption ==
  /\ Imports \subseteq Nat /\ Exports \subseteq Nat
  /\ IsFiniteSet(Imports) /\ IsFiniteSet(Exports)
  /\ \A s \in Setups : IsSetup(s)

VARIABLES
  setup,            \* the configuration, which does not change
  simPc,            \* where the simulation thread is
  stepNo,           \* the time step it is in; 0 during the synchronisation
  toPush,           \* the exports pushDpsimAttrsToQueue() has still to push
  pushNo,           \* how often it has been called
  exportSeq,        \* sequence ids in mExportAttrsDpsim
  currentSeq,       \* mCurrentSequenceDpsimToInterface
  importSeq, importVal,     \* sequence ids and values of mImportAttrsDpsim
  nextSeq,          \* mNextSequenceInterfaceToDpsim
  popSeq,           \* currentSequenceId of popDpsimAttrsFromQueue()
  fresh,            \* imports it has updated since it was called
  mOpened, workerOpen,
  outQueue, inQueue,        \* mQueueDpsimToInterface, mQueueInterfaceToDpsim
  readerPc, readBuf, readerSeq,
  writerPc, attrsToWrite, closing, workerSeq,
  sent,             \* the samples written to the environment
  inbound, answers  \* the samples not read yet, how many the remote has sent

simVars == <<simPc, stepNo, toPush, pushNo, exportSeq, currentSeq>>
importVars == <<importSeq, importVal, nextSeq, popSeq, fresh>>
readerVars == <<readerPc, readBuf, readerSeq>>
writerVars == <<writerPc, attrsToWrite, closing, workerSeq, sent>>
remoteVars == <<inbound, answers>>
vars == <<setup, simVars, importVars, mOpened, workerOpen, outQueue, inQueue,
          readerVars, writerVars, remoteVars>>

Close == [id |-> 0, seq |-> 0, val |-> 0, close |-> TRUE]
Packet(id, seq, val) == [id |-> id, seq |-> seq, val |-> val, close |-> FALSE]

RangeOf(s) == {s[i] : i \in 1..Len(s)}
BlockOnRead == setup.blockOnRead
SyncOnStart == setup.syncOnStart
WaitForOnWrite == setup.waitForOnWrite

LeastOf(S) == CHOOSE x \in S : \A y \in S : x <= y

Init ==
  /\ setup \in Setups
  /\ simPc = "open" /\ stepNo = 0 /\ toPush = {} /\ pushNo = 0
  /\ exportSeq = [i \in Exports |-> 0]
  /\ currentSeq = 1
  /\ importSeq = [i \in Imports |-> 0] /\ importVal = [i \in Imports |-> 0]
  /\ nextSeq = 1 /\ popSeq = 1 /\ fresh = {}
  /\ mOpened = FALSE /\ workerOpen = FALSE
  /\ outQueue = <<>> /\ inQueue = <<>>
  /\ readerPc = "none" /\ readBuf = <<>> /\ readerSeq = 1
  /\ writerPc = "none" /\ attrsToWrite = {} /\ closing = FALSE
  /\ workerSeq = [i \in Exports |-> 0]
  /\ sent = <<>> /\ inbound = <<>> /\ answers = 0

-----------------------------------------------------------------------------
(* The simulation thread: open(), sync(), the steps and close().           *)

\* pushDpsimAttrsToQueue() is called and simPc becomes pc.
BeginPush(pc) ==
  /\ simPc' = pc
  /\ toPush' = Exports
  /\ pushNo' = pushNo + 1

Open ==
  /\ simPc = "open"
  /\ workerOpen' = TRUE /\ mOpened' = TRUE
  /\ readerPc' = IF Imports # {} THEN "loop" ELSE "none"
  /\ writerPc' = IF Exports # {} THEN "wait" ELSE "none"
  /\ BeginPush("syncExports")
  /\ UNCHANGED <<stepNo, exportSeq, currentSeq, importVars, outQueue, inQueue,
                 readBuf, readerSeq, attrsToWrite, closing, workerSeq, sent, remoteVars>>

\* One attribute is cloned into the queue with its previous sequence id.
Push ==
  /\ toPush # {}
  /\ LET i == LeastOf(toPush) IN
       /\ outQueue' = Append(outQueue, Packet(i, exportSeq[i], pushNo))
       /\ exportSeq' = [exportSeq EXCEPT ![i] = currentSeq]
       /\ toPush' = toPush \ {i}
  /\ currentSeq' = currentSeq + 1
  /\ UNCHANGED <<simPc, stepNo, pushNo, importVars, mOpened, workerOpen, inQueue,
                 readerVars, writerVars, remoteVars>>

\* popDpsimAttrsFromQueue() is called and simPc becomes pc.
BeginPop(pc) ==
  /\ simPc' = pc
  /\ popSeq' = nextSeq
  /\ fresh' = {}

SyncImports ==
  /\ simPc = "syncExports" /\ toPush = {}
  /\ BeginPop("sync")
  /\ UNCHANGED <<stepNo, toPush, pushNo, exportSeq, currentSeq, importSeq, importVal,
                 nextSeq, mOpened, workerOpen, outQueue, inQueue, readerVars,
                 writerVars, remoteVars>>

\* Fault: a value applied before the call counts as new.
WaitedForOnce(isSync) ==
  {i \in IF isSync THEN SyncOnStart ELSE BlockOnRead : importSeq[i] + 1 < popSeq}

\* The imports that have not been updated since the call.
WaitedFor(isSync) ==
  {i \in IF isSync THEN SyncOnStart ELSE BlockOnRead : importSeq[i] < popSeq}

\* Fault: the sequence id of the packet is not recorded.
ApplyUnrecorded(p) ==
  /\ importVal' = [importVal EXCEPT ![p.id] = p.val]
  /\ nextSeq' = p.seq + 1
  /\ fresh' = fresh \cup {p.id}
  /\ UNCHANGED importSeq

\* The received value is copied onto its attribute.
Apply(p) ==
  /\ importSeq' = [importSeq EXCEPT ![p.id] = p.seq]
  /\ importVal' = [importVal EXCEPT ![p.id] = p.val]
  /\ nextSeq' = p.seq + 1
  /\ fresh' = fresh \cup {p.id}

Popping == {"sync", "pop"}
PopOther == <<stepNo, toPush, pushNo, exportSeq, currentSeq, popSeq, mOpened,
              workerOpen, outQueue, readerVars, writerVars, remoteVars>>

\* Fault: only the packet that is applied leaves the queue.
OverrunKeepsOthers == SubSeq(inQueue, 1, Len(inQueue) - 1)

\* The loop has taken all packets out of the queue.
AfterOverrun == <<>>

\* "Overrun detected": of the packets in the queue only the last one counts.
PopOverrun ==
  /\ simPc \in Popping /\ WaitedFor(simPc = "sync") # {}
  /\ inQueue # <<>>
  /\ Apply(inQueue[Len(inQueue)])
  /\ inQueue' = AfterOverrun
  /\ UNCHANGED <<simPc, PopOther>>

\* try_dequeue() has failed; wait_dequeue() will take one packet.
PopFoundEmpty ==
  /\ simPc \in Popping /\ WaitedFor(simPc = "sync") # {}
  /\ inQueue = <<>>
  /\ simPc' = IF simPc = "sync" THEN "syncWait" ELSE "popWait"
  /\ UNCHANGED <<PopOther, importSeq, importVal, nextSeq, fresh, inQueue>>

PopOne ==
  /\ simPc \in {"syncWait", "popWait"}
  /\ inQueue # <<>>
  /\ Apply(Head(inQueue))
  /\ inQueue' = Tail(inQueue)
  /\ simPc' = IF simPc = "syncWait" THEN "sync" ELSE "pop"
  /\ UNCHANGED PopOther

\* Nothing to wait for: the remaining packets are applied in order.
ApplyAll ==
  LET last(i) == {n \in 1..Len(inQueue) :
                    inQueue[n].id = i /\ \A m \in n+1..Len(inQueue) : inQueue[m].id # i}
      updated == {i \in Imports : last(i) # {}}
      packet(i) == inQueue[LeastOf(last(i))]
  IN  /\ importSeq' = [i \in Imports |-> IF i \in updated THEN packet(i).seq ELSE importSeq[i]]
      /\ importVal' = [i \in Imports |-> IF i \in updated THEN packet(i).val ELSE importVal[i]]
      /\ nextSeq' = IF inQueue = <<>> THEN nextSeq ELSE inQueue[Len(inQueue)].seq + 1
      /\ fresh' = fresh \cup updated
      /\ inQueue' = <<>>

PopDone(from) ==
  /\ simPc = from /\ WaitedFor(from = "sync") = {}
  /\ ApplyAll
  /\ UNCHANGED <<stepNo, exportSeq, currentSeq, popSeq, mOpened, workerOpen,
                 outQueue, readerVars, writerVars, remoteVars>>

\* The imports are synchronised; the exports are written once more.
SyncAgain == PopDone("sync") /\ BeginPush("syncAgain")

\* Between two steps.
Ready == simPc \in {"syncAgain", "push"} /\ toPush = {}

\* PreStep of the next time step.
PreStep ==
  /\ Ready /\ stepNo < setup.maxSteps /\ stepNo % setup.downsampling = 0
  /\ BeginPop("pop")
  /\ stepNo' = stepNo + 1
  /\ UNCHANGED <<toPush, pushNo, exportSeq, currentSeq, importSeq, importVal, nextSeq,
                 mOpened, workerOpen, outQueue, inQueue, readerVars, writerVars, remoteVars>>

\* A step without an exchange.
SkipStep ==
  /\ Ready /\ stepNo < setup.maxSteps /\ stepNo % setup.downsampling # 0
  /\ stepNo' = stepNo + 1
  /\ UNCHANGED <<simPc, toPush, pushNo, exportSeq, currentSeq, importVars, mOpened,
                 workerOpen, outQueue, inQueue, readerVars, writerVars, remoteVars>>

\* The step is made and PostStep follows.
PostStep == PopDone("pop") /\ BeginPush("push")

BeginClose ==
  /\ Ready /\ stepNo = setup.maxSteps
  /\ mOpened' = FALSE
  /\ simPc' = "close"
  /\ UNCHANGED <<stepNo, toPush, pushNo, exportSeq, currentSeq, importVars, workerOpen,
                 outQueue, inQueue, readerVars, writerVars, remoteVars>>


PushClose ==
  /\ simPc = "close"
  /\ outQueue' = Append(outQueue, Close)
  /\ simPc' = "join"
  /\ UNCHANGED <<stepNo, toPush, pushNo, exportSeq, currentSeq, importVars, mOpened,
                 workerOpen, inQueue, readerVars, writerVars, remoteVars>>

\* Fault: only the reader is joined.
JoinedReader == readerPc \in {"none", "exited"}

Joined == {readerPc, writerPc} \subseteq {"none", "exited"}

\* Both threads have been joined: the worker closes the connection.
CloseWorker ==
  /\ simPc = "join" /\ Joined
  /\ workerOpen' = FALSE
  /\ simPc' = "closed"
  /\ UNCHANGED <<stepNo, toPush, pushNo, exportSeq, currentSeq, importVars, mOpened,
                 outQueue, inQueue, readerVars, writerVars, remoteVars>>

-----------------------------------------------------------------------------
(* The reader thread.                                                      *)

ReaderOther == <<simVars, importVars, mOpened, workerOpen, outQueue, writerVars, answers>>

ReaderLoop ==
  /\ readerPc = "loop"
  /\ readerPc' = IF mOpened THEN "read" ELSE "exited"
  /\ UNCHANGED <<ReaderOther, readBuf, readerSeq, inQueue, inbound>>

\* The packets of a sample, numbered from seq on, in the order of the ids.
PacketsOf(sample, seq) ==
  [n \in 1..Cardinality(sample.ids) |->
    LET i == CHOOSE j \in sample.ids : Cardinality({k \in sample.ids : k <= j}) = n
    IN  Packet(i, seq + n - 1, sample.val)]

\* readValuesFromEnv(): the poll finds nothing, or a sample is read.
ReadNothing ==
  /\ readerPc = "read" /\ inbound = <<>>
  /\ readerPc' = "loop"
  /\ UNCHANGED <<ReaderOther, readBuf, readerSeq, inQueue, inbound>>

ReadSample ==
  /\ readerPc = "read" /\ inbound # <<>>
  /\ readBuf' = PacketsOf(Head(inbound), readerSeq)
  /\ readerSeq' = readerSeq + Cardinality(Head(inbound).ids)
  /\ inbound' = Tail(inbound)
  /\ readerPc' = "enqueue"
  /\ UNCHANGED <<ReaderOther, inQueue>>

Enqueue ==
  /\ readerPc = "enqueue"
  /\ \/ /\ readBuf # <<>>
        /\ inQueue' = Append(inQueue, Head(readBuf))
        /\ readBuf' = Tail(readBuf)
        /\ UNCHANGED readerPc
     \/ /\ readBuf = <<>>
        /\ readerPc' = "loop"
        /\ UNCHANGED <<inQueue, readBuf>>
  /\ UNCHANGED <<ReaderOther, readerSeq, inbound>>

-----------------------------------------------------------------------------
(* The writer thread.                                                      *)

WriterOther == <<simVars, importVars, mOpened, workerOpen, inQueue, readerVars, remoteVars>>

\* wait_dequeue() and the loop that sees if there are more packets.
Collect ==
  /\ writerPc = "wait" /\ outQueue # <<>>
  /\ attrsToWrite' = attrsToWrite \cup {p \in RangeOf(outQueue) : ~p.close}
  /\ closing' = (closing \/ \E p \in RangeOf(outQueue) : p.close)
  /\ outQueue' = <<>>
  /\ writerPc' = "write"
  /\ UNCHANGED <<WriterOther, workerSeq, sent>>

\* Fault: the newer packets are removed as outdated.
LatestFirst(ps) == {p \in ps : \A q \in ps : q.id = p.id => q.seq >= p.seq}

\* The packets that are not outdated, by the sequence ids of the exports.
Latest(ps) ==
  {p \in ps : /\ p.seq >= workerSeq[p.id]
              /\ \A q \in ps : q.id = p.id => q.seq <= p.seq}

AfterWrite == IF closing THEN "exited" ELSE "wait"

\* Fault: a sample is complete as soon as one of the packets is there.
CompleteWhenAny(rest) == rest # {}

\* There are as many packets as exports with waitForOnWrite.
Complete(rest) == Cardinality(rest) = Cardinality(WaitForOnWrite)

\* writeValuesToEnv() begins: the sequence ids of the exports are updated and
\* outdated packets removed; what is left is written as sample.
BeginWrite(kept) ==
  /\ writerPc = "write"
  /\ workerSeq' = [i \in Exports |->
                     LET ps == {p \in kept : p.id = i}
                     IN  IF ps = {} THEN workerSeq[i] ELSE (CHOOSE p \in ps : TRUE).seq]
  /\ writerPc' = AfterWrite
  /\ UNCHANGED <<WriterOther, outQueue, closing>>

\* No sample could be allocated: the packets are kept for the next call.
NoSample ==
  /\ setup.failures
  /\ BeginWrite(Latest(attrsToWrite))
  /\ attrsToWrite' = Latest(attrsToWrite)
  /\ UNCHANGED sent

\* Fault: what has been written is not removed from the packets.
LeftWithSample(kept, sample) == kept

\* The packets left for the next call.
Left(kept, sample) == kept \ sample

\* What need not wait is written, the rest once the packets that have to wait
\* for each other are complete.  If the write fails the sample is lost.
Write ==
  LET kept == Latest(attrsToWrite)
      asap == {p \in kept : p.id \notin WaitForOnWrite}
      complete == Complete(kept \ asap)
      sample == IF complete THEN kept ELSE asap
  IN  /\ BeginWrite(kept)
      /\ attrsToWrite' = Left(kept, sample)
      /\ \/ /\ asap # {} \/ complete
            /\ sent' = Append(sent, [i \in {p.id : p \in sample} |->
                                       (CHOOSE p \in sample : p.id = i).val])
         \/ /\ (asap = {} /\ ~complete) \/ setup.failures
            /\ UNCHANGED sent

-----------------------------------------------------------------------------

\* The remote sends a sample: at any time, or one for each it has received.
RemoteAnswers ==
  /\ setup.lockStep => answers < Len(sent)
  /\ answers < setup.maxSamples
  /\ \E s \in setup.shapes :
       inbound' = Append(inbound, [ids |-> s, val |-> answers + 1])
  /\ answers' = answers + 1
  /\ UNCHANGED <<setup, simVars, importVars, mOpened, workerOpen, outQueue, inQueue,
                 readerVars, writerVars>>

SimStep ==
  /\ \/ Open \/ Push \/ SyncImports \/ PopOverrun \/ PopFoundEmpty \/ PopOne
     \/ SyncAgain \/ PreStep \/ SkipStep \/ PostStep \/ BeginClose \/ PushClose \/ CloseWorker
  /\ UNCHANGED setup

ReaderStep == (ReaderLoop \/ ReadNothing \/ ReadSample \/ Enqueue) /\ UNCHANGED setup
WriterStep == (Collect \/ NoSample \/ Write) /\ UNCHANGED setup

Closed == simPc = "closed" /\ UNCHANGED vars

Next == SimStep \/ ReaderStep \/ WriterStep \/ RemoteAnswers \/ Closed

Spec == Init /\ [][Next]_vars

\* The threads are scheduled, the node sends and receives, the remote answers.
Fairness ==
  /\ WF_vars(SimStep) /\ WF_vars(ReaderStep)
  /\ WF_vars(WriterStep) /\ WF_vars(RemoteAnswers)

FairSpec == Spec /\ Fairness

-----------------------------------------------------------------------------

\* "blockOnRead ... will completely halt the simulation at the start of every
\* time step until a new value for this attribute was read": whenever a step
\* is being made, each such import has a value that arrived since the step
\* began to wait, whatever overruns have discarded.
StepsOnNewValues ==
  /\ simPc = "push" /\ toPush # {} => BlockOnRead \subseteq fresh
  /\ simPc = "syncAgain" /\ toPush # {} => SyncOnStart \subseteq fresh

\* Discarded packets and partly read samples never let a value go backwards.
ImportsMoveForward ==
  [][\A i \in Imports : importVal'[i] >= importVal[i] /\ importSeq'[i] >= importSeq[i]]_vars

\* What the remote sees of an export only gets newer, although several pushes
\* may be collected into one sample and packets may be left over.
ExportsMoveForward ==
  \A m, n \in 1..Len(sent) : m < n =>
    \A i \in DOMAIN sent[m] \cap DOMAIN sent[n] : sent[m][i] < sent[n][i]

\* Closing loses nothing: when the interface is closed, the remote has been
\* sent the last value of every export that need not wait for others, if the
\* node accepts what is written.
LastExportsSent ==
  simPc = "closed" /\ ~setup.failures =>
    \A i \in Exports \ WaitForOnWrite :
      \E n \in 1..Len(sent) : i \in DOMAIN sent[n] /\ sent[n][i] = pushNo

\* "After this has been called, no further calls to readValuesFromEnv or
\* writeValuesToEnv will occur" (InterfaceWorker.h).
NoCallsAfterClose ==
  readerPc = "read" \/ writerPc = "write" => workerOpen

\* The remote answers every sample it is sent, and the interface sends one for
\* each exchange: nobody owes the other a sample while both wait.
InLockStep == setup.lockStep /\ ~setup.failures /\ setup.waitForOnWrite = {}

\* The synchronisation, and the wait for new values at the start of a step,
\* come to an end (popDpsimAttrsFromQueue() has no timeout).
WaitsReturn ==
  (InLockStep /\ simPc \in {"sync", "pop"}) ~> (simPc \in {"syncAgain", "push"})


\* waitForOnWrite: "Whether a sample that is sent from this interface is
\* required to contain an updated value of this attribute" (InterfaceVillas.h).
SamplesContainWaited ==
  \A n \in 1..Len(sent) : WaitForOnWrite \subseteq DOMAIN sent[n]
=============================================================================
