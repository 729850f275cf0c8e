---------------------------- MODULE MinerClientProofs ----------------------------
(***************************************************************************)
(* Theorems about the miner program and the scheduler, for every number of *)
(* miners, inferences, blocks, faults and restarts and every size of the   *)
(* queue: no inference of this miner is lost without a cause, what the     *)
(* program records as done was accepted by the contract, and every fee is  *)
(* held until it is earned and goes to the batch of its inference.         *)
(***************************************************************************)
EXTENDS MinerClientProps, SumLemmas, TLAPS

\* The types the argument needs, and where events and scans are relative to the head.
Typed ==
  /\ block \in Nat \ {0}
  /\ infers \in Seq([miner : Miners, born : Nat])
  /\ \A i \in Ids : infers[i].born \in 0..block
  /\ solved \subseteq Ids
  /\ currentBlock \in Nat /\ currentBlock < block
  /\ scan.to \in Nat /\ scan.to < block
  /\ seizeMinerRoles \subseteq Mine
  /\ tasksQueue \in Seq(Nat) /\ \A k \in DOMAIN tasksQueue : tasksQueue[k] \in Ids
  /\ exec \in [pc : {"wait", "execute", "sent", "mined"}, task : Nat, ok : BOOLEAN]
  /\ IF exec.pc = "wait" THEN exec.task = 0 ELSE exec.task \in Ids
  /\ late \subseteq Ids

\* An event of ours below the position of the scanner has been dealt with.
Passed ==
  \A i \in Mine :
    infers[i].born < currentBlock => i \in seizeMinerRoles \cup skipped \cup outOfReach

\* During a scan, so has every event of ours up to its end that is not left to look at.
Scanned ==
  scan.pc = "scan" =>
    \A i \in Mine :
      infers[i].born <= scan.to =>
        i \in seizeMinerRoles \cup skipped \cup outOfReach \cup scan.left

Queued(i) == \E k \in DOMAIN tasksQueue : tasksQueue[k] = i

\* A task taken is queued, executed, given up or solved.
Held == \A i \in seizeMinerRoles \ solved : i \in dropped \/ exec.task = i \/ Queued(i)

\* A task is done when its transaction has been mined and has not reverted.
Done ==
  /\ TaskChecker \subseteq solved
  /\ exec.pc = "mined" /\ exec.ok => exec.task \in solved

IInv == Typed /\ Passed /\ Scanned /\ Held /\ Done

-----------------------------------------------------------------------------
\* The invariant contains the property.
LEMMA InvImplies == IInv => TasksAccounted
BY DEF IInv, Typed, Passed, Held, Done, Queued, TasksAccounted

\* At the start nothing has been taken.
LEMMA InitInv == Init => IInv
<1> SUFFICES ASSUME Init PROVE IInv
  OBVIOUS
<1>1. Ids = {} /\ Mine = {}
  BY DEF Init, SchedulerInit, Ids, Mine
<1>2. Typed
  BY <1>1 DEF Init, SchedulerInit, Typed, Resting, Waiting, Ids
<1>3. Passed /\ Scanned /\ Held /\ Done
  BY <1>1 DEF Init, Passed, Scanned, Held, Done, Resting, Waiting
<1> QED BY <1>2, <1>3 DEF IInv

-----------------------------------------------------------------------------
(* The contract.                                                            *)

\* A new inference is born in the block being built, beyond every scan.
LEMMA InferKeeps ==
  ASSUME IInv, NEW m \in Miners, Infer(m),
         UNCHANGED <<scanner, tasksQueue, executor, late, faults, history>>
  PROVE  IInv'
<1> DEFINE n == Len(infers) + 1
<1>1. /\ Len(infers) \in Nat /\ Ids = 1..Len(infers) /\ block \in Nat \ {0}
      /\ infers' = Append(infers, [miner |-> m, born |-> block])
      /\ UNCHANGED <<block, solved>>
  BY DEF IInv, Typed, Ids, Infer
<1>2. /\ infers' \in Seq([miner : Miners, born : Nat]) /\ Ids' = Ids \cup {n} /\ n \notin Ids
      /\ \A i \in Ids : infers'[i] = infers[i]
      /\ infers'[n] = [miner |-> m, born |-> block]
  BY <1>1 DEF IInv, Typed, Ids
<1> HIDE DEF n
<1>3. Mine \subseteq Mine' /\ \A i \in Mine' : i \in Mine \/ (i = n /\ infers'[i].born = block)
  BY <1>2 DEF Mine
<1>4. Typed'
  <2>1. ASSUME NEW i \in Ids' PROVE infers'[i].born \in 0..block
    <3>1. CASE i \in Ids
      <4>1. infers[i].born \in 0..block
        BY <3>1 DEF IInv, Typed
      <4>2. infers'[i] = infers[i]
        BY <3>1, <1>2
      <4> QED BY <4>1, <4>2, Zenon
    <3>2. CASE i = n
      <4>1. infers'[i].born = block
        BY <3>2, <1>2
      <4> QED BY <4>1, <1>1
    <3> QED BY <1>2, <3>1, <3>2
  <2>2. seizeMinerRoles \subseteq Mine'
    BY <1>3 DEF IInv, Typed
  <2> QED BY <1>1, <1>2, <2>1, <2>2 DEF IInv, Typed, scanner, executor
<1>5. /\ UNCHANGED <<currentBlock, scan, seizeMinerRoles, skipped, outOfReach>>
      /\ currentBlock \in Nat /\ currentBlock < block /\ scan.to \in Nat /\ scan.to < block
      /\ \A i \in Mine : i \in Ids
  BY DEF IInv, Typed, scanner, history, Mine
<1>6. ASSUME NEW i \in Mine' PROVE
        \/ i \in Mine /\ infers'[i].born = infers[i].born
        \/ ~(infers'[i].born < currentBlock) /\ ~(infers'[i].born <= scan.to)
  <2>1. CASE i \in Mine
    BY <2>1, <1>2, <1>5
  <2>2. CASE infers'[i].born = block
    BY <2>2, <1>1, <1>5
  <2> QED BY <1>3, <2>1, <2>2
<1>7. Passed' /\ Scanned'
  BY <1>5, <1>6 DEF IInv, Passed, Scanned
<1>8. Held' /\ Done'
  BY <1>1 DEF IInv, Held, Done, Queued, scanner, executor, history
<1> QED BY <1>4, <1>7, <1>8 DEF IInv

\* The inferences stay and what is solved stays solved: enough for the scanner's part.
LEMMA ScannerPartKept ==
  ASSUME IInv, UNCHANGED <<infers, scanner, skipped, outOfReach>>
  PROVE  Passed' /\ Scanned' /\ UNCHANGED Mine
BY DEF IInv, Passed, Scanned, scanner, Mine, Ids

\* A solution only adds to what is solved.
LEMMA SolutionKeeps ==
  ASSUME IInv, NEW m, NEW i \in Ids, SubmitSolution(m, i),
         UNCHANGED <<scanner, tasksQueue, executor, history>>, late' \subseteq late
  PROVE  IInv'
<1>1. solved' = solved \cup {i} /\ UNCHANGED <<block, infers>>
  BY DEF SubmitSolution
<1>2. Passed' /\ Scanned' /\ UNCHANGED Mine
  BY <1>1, ScannerPartKept DEF history
<1>3. Typed'
  BY <1>1, <1>2 DEF IInv, Typed, Ids, scanner, executor
<1>4. Held' /\ Done'
  BY <1>1 DEF IInv, Held, Done, Queued, scanner, executor, history
<1> QED BY <1>2, <1>3, <1>4 DEF IInv

\* Steps that change neither the client nor the inferences.
LEMMA TimeKeeps ==
  ASSUME IInv, block' = block \/ block' = block + 1,
         UNCHANGED <<infers, solved, scanner, tasksQueue, executor, history>>, late' \subseteq late
  PROVE  IInv'
<1>1. block' \in Nat \ {0} /\ block <= block' /\ UNCHANGED <<infers, solved, Ids>>
  BY DEF IInv, Typed, Ids
<1>2. Passed' /\ Scanned' /\ UNCHANGED Mine
  BY <1>1, ScannerPartKept DEF history
<1>3. Typed'
  <2>1. \A i \in Ids : infers[i].born \in 0..block'
    BY <1>1 DEF IInv, Typed
  <2>2. block \in Nat /\ currentBlock < block' /\ scan.to < block'
    BY <1>1 DEF IInv, Typed
  <2> QED BY <1>1, <1>2, <2>1, <2>2 DEF IInv, Typed, scanner, executor
<1>4. Held' /\ Done'
  BY <1>1 DEF IInv, Held, Done, Queued, scanner, executor, history
<1> QED BY <1>2, <1>3, <1>4 DEF IInv

\* The chain's own steps.
LEMMA OutsideKeeps == ASSUME IInv, Outside PROVE IInv'
<1>1. CASE NextBlock
  BY <1>1, TimeKeeps DEF Outside, NextBlock, contract
<1>2. ASSUME NEW m \in Miners, Infer(m) PROVE IInv'
  BY <1>2, InferKeeps DEF Outside
<1>3. ASSUME NEW m \in Miners \ {Me}, NEW i \in Ids, SubmitSolution(m, i) PROVE IInv'
  BY <1>3, SolutionKeeps DEF Outside
<1> QED BY <1>1, <1>2, <1>3 DEF Outside

\* Who is refused is no concern of the argument.
LEMMA SuspensionKeeps == ASSUME IInv, Suspension PROVE IInv'
BY TimeKeeps DEF Suspension, SetRefused

\* A restart forgets what was taken, so that nothing taken is lost.
LEMMA RestartKeeps == ASSUME IInv, Restart PROVE IInv'
<1>1. UNCHANGED <<block, infers, solved, Ids, Mine>>
  BY DEF Restart, contract, Ids, Mine
<1>2. Typed'
  <2>1. /\ Abandoned \subseteq Ids
        /\ late' = late \cup Abandoned
    BY DEF IInv, Typed, Restart, Abandoned
  <2>2. currentBlock' < block /\ Resting.to < block
    BY DEF IInv, Typed, Restart, Resting
  <2> QED BY <1>1, <2>1, <2>2 DEF IInv, Typed, Restart, Resting, Waiting
<1>3. \A i \in Mine : infers[i].born \in Nat
  BY DEF IInv, Typed, Mine
<1>4. Passed'
  BY <1>1, <1>3 DEF Passed, Restart
<1>5. Scanned' /\ Held' /\ Done'
  BY DEF Scanned, Held, Done, Restart, Resting, Waiting
<1> QED BY <1>2, <1>4, <1>5 DEF IInv

\* A late transaction is a solution or nothing.
LEMMA LateKeeps == ASSUME IInv, NEW i \in late, MinedLate(i) PROVE IInv'
<1>1. i \in Ids /\ late' \subseteq late
  BY DEF IInv, Typed, MinedLate
<1>2. CASE Acceptable(Me, i)
  BY <1>1, <1>2, SolutionKeeps DEF MinedLate
<1>3. CASE ~Acceptable(Me, i)
  BY <1>1, <1>3, TimeKeeps DEF MinedLate, contract
<1> QED BY <1>2, <1>3
-----------------------------------------------------------------------------
(* The scanner.                                                             *)

\* The events of a range, seen from a position that every event of ours below has been
\* dealt with, and from no position.
LEMMA RangeCovers ==
  ASSUME IInv, NEW i \in Mine
  PROVE  /\ i \in Ids /\ infers[i].born \in Nat
         /\ infers[i].born <= CurrentBlock =>
              \/ i \in seizeMinerRoles \cup skipped \cup outOfReach
              \/ i \in Before(FromBlock)
              \/ i \in FilterNewInference(FromBlock, CurrentBlock)
<1>1. /\ i \in Ids /\ infers[i].born \in Nat /\ currentBlock \in Nat
      /\ block \in Nat /\ Lookback \in Int
  BY ClientAssumption DEF IInv, Typed, Mine
<1>2. CASE currentBlock # 0
  BY <1>1, <1>2 DEF IInv, Passed, FromBlock, FilterNewInference, CurrentBlock
<1>3. CASE currentBlock = 0
  <2>1. FromBlock \in Int
    <3>1. CurrentBlock - Lookback \in Int
      BY <1>1 DEF CurrentBlock
    <3>2. Max({0, CurrentBlock - Lookback}) \in Int
      BY <3>1 DEF Max
    <3> QED BY <1>3, <3>2 DEF FromBlock
  <2> QED BY <1>1, <1>3, <2>1 DEF Before, FilterNewInference
<1> QED BY <1>1, <1>2, <1>3

\* A scan begins, or fails at once; every event below the new position is accounted for.
LEMMA ScanBeginKeeps == ASSUME IInv, ScanBegin PROVE IInv'
<1>1. /\ UNCHANGED <<block, infers, solved, Ids, Mine, seizeMinerRoles, tasksQueue>>
      /\ UNCHANGED <<exec, TaskChecker, late, dropped>>
      /\ scan.pc = "rest" /\ block \in Nat \ {0} /\ CurrentBlock \in Nat /\ CurrentBlock < block
  BY DEF IInv, Typed, ScanBegin, contract, executor, Ids, Mine, CurrentBlock
<1>2. Held' /\ Done'
  BY <1>1 DEF IInv, Held, Done, Queued
<1>3. ASSUME currentBlock' \in Nat, currentBlock' < block, scan'.to \in Nat, scan'.to < block
      PROVE  Typed'
  BY <1>1, <1>3 DEF IInv, Typed
<1>4. CASE /\ scan' = [pc |-> "scan", to |-> CurrentBlock,
                       left |-> FilterNewInference(FromBlock, CurrentBlock)]
           /\ outOfReach' = outOfReach \cup Before(FromBlock)
           /\ UNCHANGED <<currentBlock, skipped>>
  <2>1. Typed'
    BY <1>1, <1>3, <1>4 DEF IInv, Typed
  <2>2. Passed'
    BY <1>1, <1>4 DEF IInv, Passed
  <2>3. Scanned'
    BY <1>1, <1>4, RangeCovers DEF Scanned
  <2> QED BY <1>2, <2>1, <2>2, <2>3 DEF IInv
<1>5. CASE currentBlock' = 0 /\ UNCHANGED <<scan, skipped, outOfReach>>
  <2>1. Typed'
    BY <1>1, <1>3, <1>5 DEF IInv, Typed
  <2>2. Passed' /\ Scanned'
    BY <1>1, <1>5, RangeCovers DEF Passed, Scanned
  <2> QED BY <1>2, <2>1, <2>2 DEF IInv
<1>6. CASE /\ currentBlock = 0 /\ currentBlock' = CurrentBlock
           /\ outOfReach' = outOfReach \cup Before(CurrentBlock)
           /\ UNCHANGED <<scan, skipped>>
  <2>1. Typed'
    BY <1>1, <1>3, <1>6 DEF IInv, Typed
  <2>2. Passed'
    BY <1>1, <1>6, RangeCovers DEF Passed, Before
  <2>3. Scanned'
    BY <1>1, <1>6 DEF Scanned
  <2> QED BY <1>2, <2>1, <2>2, <2>3 DEF IInv
<1>7. CASE /\ currentBlock' = CurrentBlock
           /\ skipped' = skipped \cup FilterNewInference(FromBlock, CurrentBlock)
           /\ outOfReach' = outOfReach \cup Before(FromBlock)
           /\ UNCHANGED scan
  <2>1. Typed'
    BY <1>1, <1>3, <1>7 DEF IInv, Typed
  <2>2. ASSUME NEW i \in Mine, infers[i].born < CurrentBlock
        PROVE  i \in seizeMinerRoles \cup skipped' \cup outOfReach'
    <3>1. infers[i].born <= CurrentBlock
      BY <1>1, <2>2, RangeCovers
    <3> QED BY <1>7, <3>1, RangeCovers
  <2>3. Passed' /\ Scanned'
    BY <1>1, <1>7, <2>2 DEF Passed, Scanned
  <2> QED BY <1>2, <2>1, <2>3 DEF IInv
<1> QED BY <1>4, <1>5, <1>6, <1>7 DEF ScanBegin

\* An error or the end of the events: every event up to the end of the scan was looked
\* at or is noted as skipped.
LEMMA ScanReturnsKeeps ==
  ASSUME IInv, scan.pc = "scan", ScanReturns(scan.left), UNCHANGED <<tasksQueue, seizeMinerRoles>>,
         UNCHANGED <<block, contract, executor, late, outOfReach, dropped>>
  PROVE  IInv'
<1>1. /\ UNCHANGED <<infers, solved, exec, TaskChecker, Ids, Mine>>
      /\ currentBlock' = scan.to /\ scan' = Resting /\ skipped' = skipped \cup scan.left
      /\ block \in Nat /\ scan.to \in Nat /\ scan.to < block
      /\ \A i \in Mine : infers[i].born \in Nat
  BY DEF IInv, Typed, ScanReturns, contract, executor, Ids, Mine
<1>2. Typed'
  BY <1>1 DEF IInv, Typed, Resting
<1>3. Passed'
  BY <1>1 DEF IInv, Passed, Scanned
<1>4. Scanned' /\ Held' /\ Done'
  BY <1>1 DEF IInv, Scanned, Held, Done, Queued, Resting
<1> QED BY <1>2, <1>3, <1>4 DEF IInv

\* The end of a scan is such a return, with nothing left.
LEMMA ScanEndKeeps == ASSUME IInv, ScanEnd PROVE IInv'
BY ScanReturnsKeeps DEF ScanEnd, scanner, history

\* An event is passed over because it was taken, or it is taken and queued.
LEMMA ScanEventKeeps == ASSUME IInv, ScanEvent PROVE IInv'
<1> DEFINE i == Min(scan.left)
<1>1. /\ UNCHANGED <<block, infers, solved, exec, TaskChecker, late, outOfReach, dropped, Ids, Mine>>
      /\ scan.pc = "scan"
  BY DEF ScanEvent, contract, executor, Ids, Mine
<1> HIDE DEF i
<1>2. CASE /\ i \in seizeMinerRoles /\ scan' = [scan EXCEPT !.left = @ \ {i}]
           /\ UNCHANGED <<currentBlock, seizeMinerRoles, tasksQueue, skipped>>
  <2>1. Typed'
    BY <1>1, <1>2 DEF IInv, Typed
  <2>2. Passed' /\ Scanned' /\ Held' /\ Done'
    BY <1>1, <1>2 DEF IInv, Passed, Scanned, Held, Done, Queued
  <2> QED BY <2>1, <2>2 DEF IInv
<1>3. CASE ScanReturns(scan.left) /\ UNCHANGED <<seizeMinerRoles, tasksQueue>>
  BY <1>1, <1>3, ScanReturnsKeeps DEF ScanEvent
<1>4. CASE /\ i \in Mine /\ seizeMinerRoles' = seizeMinerRoles \cup {i}
           /\ tasksQueue' = Append(tasksQueue, i)
           /\ scan' = [scan EXCEPT !.left = @ \ {i}]
           /\ UNCHANGED <<currentBlock, skipped>>
  <2>1. /\ i \in Ids /\ i \in Nat /\ tasksQueue \in Seq(Nat)
        /\ \A k \in DOMAIN tasksQueue : tasksQueue[k] \in Ids
    BY <1>4 DEF IInv, Typed, Mine, Ids
  <2>2. /\ tasksQueue' \in Seq(Nat)
        /\ DOMAIN tasksQueue' = DOMAIN tasksQueue \cup {Len(tasksQueue) + 1}
        /\ \A k \in DOMAIN tasksQueue : tasksQueue'[k] = tasksQueue[k]
        /\ tasksQueue'[Len(tasksQueue) + 1] = i
    BY <1>4, <2>1
  <2>3. Typed'
    BY <1>1, <1>4, <2>1, <2>2 DEF IInv, Typed
  <2>4. Passed' /\ Scanned' /\ Done'
    BY <1>1, <1>4 DEF IInv, Passed, Scanned, Done
  <2>5. Held'
    BY <1>1, <1>4, <2>2 DEF IInv, Held, Queued
  <2> QED BY <2>3, <2>4, <2>5 DEF IInv
<1> QED BY <1>2, <1>3, <1>4 DEF ScanEvent, i

-----------------------------------------------------------------------------
(* The executor.                                                            *)

\* The head of the queue passes to the executor, unless it is done, that is solved.
LEMMA DequeueKeeps == ASSUME IInv, Dequeue PROVE IInv'
<1>1. /\ UNCHANGED <<block, infers, solved, Ids, Mine, currentBlock, scan, seizeMinerRoles>>
      /\ UNCHANGED <<TaskChecker, late, skipped, outOfReach, dropped>>
      /\ exec.pc = "wait" /\ tasksQueue # <<>> /\ tasksQueue' = Tail(tasksQueue)
      /\ exec' = IF Head(tasksQueue) \in TaskChecker THEN Waiting
                 ELSE [pc |-> "execute", task |-> Head(tasksQueue), ok |-> FALSE]
  BY DEF Dequeue, contract, scanner, history, Ids, Mine
<1>2. /\ tasksQueue \in Seq(Nat) /\ \A k \in DOMAIN tasksQueue : tasksQueue[k] \in Ids
      /\ exec.task = 0 /\ Ids = 1..Len(infers)
  BY <1>1 DEF IInv, Typed, Ids
<1>3. /\ Len(tasksQueue) \in Nat \ {0} /\ DOMAIN tasksQueue = 1..Len(tasksQueue)
      /\ Head(tasksQueue) = tasksQueue[1] /\ tasksQueue' \in Seq(Nat)
      /\ DOMAIN tasksQueue' = 1..(Len(tasksQueue) - 1)
      /\ \A k \in DOMAIN tasksQueue' : tasksQueue'[k] = tasksQueue[k + 1]
  BY <1>1, <1>2
<1>4. Head(tasksQueue) \in Ids /\ Head(tasksQueue) \in Nat
  BY <1>2, <1>3, SMTT(20)
<1>5. Typed'
  <2>1. ASSUME NEW k \in DOMAIN tasksQueue' PROVE tasksQueue'[k] \in Ids
    <3>1. k + 1 \in DOMAIN tasksQueue /\ tasksQueue'[k] = tasksQueue[k + 1]
      BY <1>3
    <3> QED BY <1>2, <3>1
  <2>2. /\ exec' \in [pc : {"wait", "execute", "sent", "mined"}, task : Nat, ok : BOOLEAN]
        /\ IF exec'.pc = "wait" THEN exec'.task = 0 ELSE exec'.task \in Ids
    BY <1>1, <1>4 DEF Waiting
  <2> QED BY <1>1, <1>3, <2>1, <2>2 DEF IInv, Typed
<1>6. Passed' /\ Scanned' /\ Done'
  BY <1>1 DEF IInv, Passed, Scanned, Done, Waiting
<1>7. ASSUME NEW i \in seizeMinerRoles \ solved PROVE i \in dropped \/ exec'.task = i \/ Queued(i)'
  <2>1. i \in dropped \/ Queued(i)
    BY <1>2 DEF IInv, Typed, Held, Mine
  <2>2. CASE i \in dropped
    BY <2>2
  <2>3. ASSUME NEW k \in DOMAIN tasksQueue, tasksQueue[k] = i PROVE exec'.task = i \/ Queued(i)'
    <3>1. CASE k = 1
      BY <1>1, <1>3, <2>3, <3>1 DEF IInv, Done
    <3>2. CASE k # 1
      <4>1. k - 1 \in DOMAIN tasksQueue' /\ tasksQueue'[k - 1] = i
        BY <1>3, <2>3, <3>2
      <4> QED BY <4>1 DEF Queued
    <3> QED BY <3>1, <3>2
  <2> QED BY <2>1, <2>2, <2>3 DEF Queued
<1>8. Held'
  BY <1>1, <1>7 DEF Held
<1> QED BY <1>5, <1>6, <1>8 DEF IInv

\* The executor gives its task up or goes on with it; the queue is untouched.
LEMMA ExecutorKeeps ==
  ASSUME IInv, UNCHANGED <<block, contract, scanner, tasksQueue, skipped, outOfReach>>,
         exec' \in [pc : {"wait", "execute", "sent", "mined"}, task : Nat, ok : BOOLEAN],
         late' \subseteq late \cup Ids, TaskChecker' \subseteq solved,
         IF exec'.pc = "wait" THEN exec'.task = 0 ELSE exec'.task \in Ids,
         exec'.pc = "mined" /\ exec'.ok => exec'.task \in solved,
         \/ exec'.task = exec.task /\ dropped' = dropped
         \/ dropped' = dropped \cup {exec.task}
         \/ exec.task \in solved /\ dropped' = dropped
  PROVE  IInv'
<1>1. UNCHANGED <<infers, solved, currentBlock, scan, seizeMinerRoles, Ids, Mine>>
  BY DEF contract, scanner, Ids, Mine
<1>2. Typed'
  BY <1>1 DEF IInv, Typed
<1>3. Passed' /\ Scanned'
  BY ScannerPartKept, <1>1
<1>4. Held' /\ Done'
  BY <1>1 DEF IInv, Held, Done, Queued
<1> QED BY <1>2, <1>3, <1>4 DEF IInv

\* The task is computed and sent, or given up.
LEMMA ExecuteKeeps == ASSUME IInv, Execute PROVE IInv'
<1>1. /\ exec.pc = "execute" /\ exec.task \in Ids /\ TaskChecker \subseteq solved
      /\ exec \in [pc : {"wait", "execute", "sent", "mined"}, task : Nat, ok : BOOLEAN]
      /\ UNCHANGED <<block, contract, scanner, tasksQueue, TaskChecker, late, skipped, outOfReach>>
  BY DEF IInv, Typed, Done, Execute
<1>2. CASE exec' = [exec EXCEPT !.pc = "sent"] /\ dropped' = dropped
  <2>1. exec'.pc = "sent" /\ exec'.task = exec.task
    BY <1>1, <1>2
  <2> QED BY <1>1, <1>2, <2>1, ExecutorKeeps
<1>3. CASE Continue
  BY <1>1, <1>3, ExecutorKeeps DEF Continue, Waiting
<1> QED BY <1>2, <1>3 DEF Execute

\* The receipt of a successful transaction, noted or lost to an error.
LEMMA SubmittedKeeps == ASSUME IInv, Submitted PROVE IInv'
<1>1. /\ exec.pc = "mined" /\ exec.ok /\ exec' = Waiting
      /\ TaskChecker' \subseteq TaskChecker \cup {exec.task}
      /\ dropped' = dropped \/ dropped' = dropped \cup {exec.task}
      /\ UNCHANGED <<block, contract, scanner, tasksQueue, late, skipped, outOfReach>>
  BY DEF Submitted, WaitForTx, Continue
<1>2. exec.task \in solved /\ TaskChecker' \subseteq solved /\ late' \subseteq late \cup Ids
  BY <1>1 DEF IInv, Done
<1>3. /\ exec' \in [pc : {"wait", "execute", "sent", "mined"}, task : Nat, ok : BOOLEAN]
      /\ exec'.pc = "wait" /\ exec'.task = 0
  BY <1>1 DEF Waiting
<1> QED BY <1>1, <1>2, <1>3, ExecutorKeeps

\* A timeout gives the task up and leaves its transaction on the network.
LEMMA TimedOutKeeps == ASSUME IInv, TimedOut PROVE IInv'
<1>1. /\ exec' = Waiting /\ dropped' = dropped \cup {exec.task}
      /\ UNCHANGED <<block, contract, scanner, tasksQueue, TaskChecker, skipped, outOfReach>>
  BY DEF TimedOut, Continue
<1>2. late' \subseteq late \cup Ids
  BY DEF IInv, Typed, TimedOut, Abandoned
<1>3. TaskChecker \subseteq solved
  BY DEF IInv, Done
<1> QED BY <1>1, <1>2, <1>3, ExecutorKeeps DEF Waiting

\* A transaction mined while the executor waits for it: a success only if it is accepted.
LEMMA MinedKeeps == ASSUME IInv, Mined PROVE IInv'
<1>1. /\ exec.pc = "sent" /\ exec.task \in Ids
      /\ exec' = [exec EXCEPT !.pc = "mined", !.ok = Acceptable(Me, exec.task)]
  BY DEF IInv, Typed, Mined
<1>2. /\ exec'.pc = "mined" /\ exec'.task = exec.task
      /\ exec'.ok <=> Acceptable(Me, exec.task)
      /\ exec' \in [pc : {"wait", "execute", "sent", "mined"}, task : Nat, ok : BOOLEAN]
  BY <1>1 DEF IInv, Typed, Acceptable
<1>3. UNCHANGED <<block, infers, scanner, tasksQueue, TaskChecker, late, history, Ids, Mine>>
  BY DEF Mined, SubmitSolution, contract, Ids, Mine
<1>4. /\ solved \subseteq solved' /\ solved' \subseteq solved \cup {exec.task}
      /\ Acceptable(Me, exec.task) => exec.task \in solved'
  BY DEF Mined, SubmitSolution, contract
<1>5. Typed'
  BY <1>1, <1>2, <1>3, <1>4 DEF IInv, Typed, scanner
<1>6. Passed' /\ Scanned'
  BY <1>3, ScannerPartKept DEF history
<1>7. Held' /\ Done'
  BY <1>2, <1>3, <1>4 DEF IInv, Held, Done, Queued, scanner, history
<1> QED BY <1>5, <1>6, <1>7 DEF IInv

-----------------------------------------------------------------------------
\* Every step keeps the invariant.
LEMMA NextInv == ASSUME IInv, [Next]_vars PROVE IInv'
<1>1. CASE UNCHANGED vars
  BY <1>1, TimeKeeps DEF vars, contract
<1>2. CASE Next
  BY <1>2, OutsideKeeps, SuspensionKeeps, RestartKeeps, LateKeeps, ScanBeginKeeps, ScanEventKeeps, ScanEndKeeps,
     DequeueKeeps, ExecuteKeeps, MinedKeeps, SubmittedKeeps, TimedOutKeeps DEF Next, Client
<1> QED BY <1>1, <1>2

\* No inference of this miner is lost without a cause, and nothing is recorded as done
\* that the contract did not accept: the bookkeeping of GetPendingTasks, ExecuteTasks and
\* WaitForTx, through restarts, failing calls and late transactions.
THEOREM TasksAreAccounted == Spec => []TasksAccounted
<1>1. Init => IInv
  BY InitInv
<1>2. IInv /\ [Next]_vars => IInv'
  BY NextInv
<1>3. IInv => TasksAccounted
  BY InvImplies
<1> QED BY <1>1, <1>2, <1>3, PTL DEF Spec
-----------------------------------------------------------------------------
(* The scheduler's books.                                                   *)

\* What the contract keeps: inferences in the order of their blocks, and the fees of
\* every batch, which are those of the solved inferences altogether.
Books ==
  /\ block \in 1..MaxBlock /\ Len(infers) <= MaxInfers /\ refused \subseteq Miners
  /\ \A i \in Ids : infers[i].born \in 1..block
  /\ \A i, j \in Ids : i <= j => infers[i].born <= infers[j].born
  /\ validatorFee \in [Batches -> Nat] /\ earned \in [Miners -> Nat]
  /\ SumFunctionOnSet(validatorFee, Batches) = (ModelFee - MinerFee) * Cardinality(solved)

BooksInv == IInv /\ Books /\ FundsConserved /\ FeesInOwnBatch

\* The miner's part of the fee is a part of it.
LEMMA FeeBound == MinerFee \in 0..ModelFee /\ ModelFee - MinerFee \in Nat
<1> DEFINE a == ModelFee * MinerRatio
<1>1. ModelFee \in Nat /\ MinerRatio \in 0..100
  BY SchedulerAssumption
<1>2. a \in Nat /\ a <= ModelFee * 100
  BY <1>1
<1>3. ASSUME NEW x \in Nat, x <= ModelFee * 100 PROVE x \div 100 \in 0..ModelFee
  BY <1>1, <1>3
<1> HIDE DEF a
<1>4. MinerFee = a \div 100
  BY DEF MinerFee, a
<1>5. MinerFee \in 0..ModelFee
  BY <1>2, <1>3, <1>4
<1> QED BY <1>1, <1>5

\* Products of naturals.
LEMMA Times ==
  ASSUME NEW c \in Nat, NEW a \in Nat, NEW b \in Nat
  PROVE  /\ c * a \in Nat /\ c * (a + 1) = c * a + c /\ c * 0 = 0
         /\ a <= b => c * a <= c * b
         /\ c * (a + b) = c * a + c * b
OBVIOUS

\* Rounding down to a number of periods.
LEMMA Rounding ==
  ASSUME NEW a \in Nat, NEW n \in Nat \ {0}
  PROVE  a \div n \in Nat /\ n * (a \div n) <= a /\ a < n * (a \div n) + n
OBVIOUS

\* Batches come in the order of the blocks, and a step of at most a period leads at most
\* to the next one.
LEMMA BatchOrder ==
  ASSUME NEW a \in Nat, NEW b \in Nat, a <= b
  PROVE  /\ BatchOf(a) \in Nat /\ BatchOf(b) \in Nat /\ BatchOf(a) <= BatchOf(b)
         /\ b <= a + BatchBlocks => BatchOf(b) <= BatchOf(a) + 1
<1> DEFINE n == BatchBlocks
           q == a \div n
           r == b \div n
<1>1. n \in Nat \ {0}
  BY SchedulerAssumption
<1>2. /\ q \in Nat /\ n * q <= a /\ a < n * q + n
      /\ r \in Nat /\ n * r <= b /\ b < n * r + n
  BY <1>1, Rounding
<1>3. BatchOf(a) = q /\ BatchOf(b) = r
  BY DEF BatchOf
<1> HIDE DEF n, q, r
<1>4. q <= r
  <2> SUFFICES ASSUME r + 1 <= q PROVE FALSE
    BY <1>2
  <2>1. n * (r + 1) <= n * q /\ n * (r + 1) = n * r + n /\ n * r \in Nat /\ n * q \in Nat
    BY <1>1, <1>2, Times
  <2> QED BY <1>1, <1>2, <2>1
<1>5. ASSUME b <= a + n PROVE r <= q + 1
  <2> SUFFICES ASSUME q + 2 <= r PROVE FALSE
    BY <1>2
  <2>1. /\ n * (q + 2) <= n * r /\ n * (q + 2) = n * q + n * 2 /\ n * r \in Nat /\ n * q \in Nat
    BY <1>1, <1>2, Times
  <2> QED BY <1>1, <1>2, <1>5, <2>1
<1> QED BY <1>2, <1>3, <1>4, <1>5 DEF n

\* The batch credited is one of the contract's, and the inference's own if the miner
\* had at most a batch period to answer.
LEMMA CreditIs ==
  ASSUME IInv, Books, NEW m, NEW i \in Ids, Acceptable(m, i)
  PROVE  /\ CreditedBatch(i) \in Batches
         /\ SubmitDuration <= BatchBlocks => CreditedBatch(i) = BatchOf(infers[i].born)
<1> DEFINE k == BatchOf(block)
           b == BatchOf(infers[i].born)
           S == BatchIds(BatchOf(block))
           least == Min(S)
<1>1. /\ block \in Nat /\ MaxBlock \in Nat /\ block <= MaxBlock /\ infers[i].born \in Nat
      /\ infers[i].born <= block /\ SubmitDuration \in Nat /\ BatchBlocks \in Nat
      /\ block <= infers[i].born + SubmitDuration
      /\ S # {} /\ Ids \subseteq Nat /\ S \subseteq Ids
  <2>1. block <= infers[i].born + SubmitDuration /\ S # {}
    BY DEF Acceptable, Resubmittable
  <2>2. Ids \subseteq Nat /\ S \subseteq Ids
    BY DEF IInv, Typed, Ids, BatchIds
  <2>3. infers[i].born \in 1..block /\ block \in 1..MaxBlock
    BY DEF Books
  <2> QED BY <2>1, <2>2, <2>3, SchedulerAssumption
<1>2. /\ k \in Nat /\ BatchOf(MaxBlock) \in Nat /\ k <= BatchOf(MaxBlock) /\ b \in Nat /\ b <= k
      /\ SubmitDuration <= BatchBlocks => k <= b + 1
  BY <1>1, BatchOrder
<1>3. least \in S /\ \A x \in S : least <= x
  BY <1>1, LeastIs
<1>4. CreditedBatch(i) = k - (IF i < least THEN 1 ELSE 0)
  BY DEF CreditedBatch
<1>5. b = k => i \in S
  BY DEF BatchIds
<1> HIDE DEF least
<1>6. ASSUME b # k PROVE i < least
  <2>0. least \in Nat /\ i \in Nat
    BY <1>1, <1>3
  <2> SUFFICES ASSUME least <= i PROVE FALSE
    BY <2>0
  <2>1. least \in Ids /\ BatchOf(infers[least].born) = k
    BY <1>3 DEF BatchIds
  <2>2. infers[least].born <= infers[i].born /\ infers[least].born \in 1..block
    BY <2>1 DEF Books
  <2>3. k <= b
    BY <1>1, <2>1, <2>2, BatchOrder
  <2> QED BY <1>2, <1>6, <2>3
<1> HIDE DEF S, k, b
<1>7. i \in S => ~(i < least)
  <2>0. least \in Nat /\ i \in Nat
    BY <1>1, <1>3
  <2> QED BY <1>3, <2>0
<1>8. CASE b = k
  BY <1>2, <1>4, <1>5, <1>7, <1>8 DEF Batches, b
<1>9. CASE b # k
  <2>1. CreditedBatch(i) = k - 1 /\ k - 1 \in Nat
    BY <1>2, <1>4, <1>6, <1>9
  <2> QED BY <1>2, <1>9, <2>1 DEF Batches, b
<1> QED BY <1>8, <1>9

\* The batches, the inferences and the solved ones are finitely many.
LEMMA BooksFinite ==
  ASSUME IInv
  PROVE  /\ IsFiniteSet(Batches) /\ Len(infers) \in Nat /\ Ids = 1..Len(infers)
         /\ IsFiniteSet(Ids) /\ IsFiniteSet(solved)
         /\ \A S : IsFiniteSet(S \cap solved) /\ Cardinality(S \cap solved) \in Nat
         /\ \A m : IsFiniteSet({i \in solved : infers[i].miner = m})
         /\ IsFiniteSet(Ids \ solved) /\ Cardinality(Ids \ solved) \in Nat
         /\ Cardinality(solved) \in Nat
<1>1. IsFiniteSet(Batches)
  <2>1. BatchOf(MaxBlock) \in Nat
    BY SchedulerAssumption, BatchOrder
  <2> QED BY <2>1, FS_Interval DEF Batches
<1>2. Len(infers) \in Nat /\ Ids = 1..Len(infers) /\ solved \subseteq Ids
  BY DEF IInv, Typed, Ids
<1>3. IsFiniteSet(Ids) /\ IsFiniteSet(solved)
  <2>1. IsFiniteSet(1..Len(infers))
    BY <1>2, FS_Interval
  <2> QED BY <1>2, <2>1, FS_Subset
<1>4. \A T \in SUBSET Ids : IsFiniteSet(T) /\ Cardinality(T) \in Nat
  BY <1>3, FS_Subset, FS_CardinalityType
<1>5. /\ \A S : S \cap solved \in SUBSET Ids
      /\ \A m : {i \in solved : infers[i].miner = m} \in SUBSET Ids
      /\ solved \in SUBSET Ids /\ Ids \ solved \in SUBSET Ids
  BY <1>2
<1> QED BY <1>1, <1>2, <1>3, <1>4, <1>5

\* What the books are about is left alone.
LEMMA BooksKept ==
  ASSUME BooksInv, UNCHANGED <<infers, solved, validatorFee, held, earned>>,
         block' \in {block, block + 1}, block' \in 1..MaxBlock, refused' \subseteq Miners
  PROVE  Books' /\ FundsConserved' /\ FeesInOwnBatch'
<1>1. UNCHANGED <<Ids>> /\ \A b : BatchIds(b)' = BatchIds(b)
  BY DEF Ids, BatchIds
<1>2. FundsConserved' /\ FeesInOwnBatch'
  BY <1>1 DEF BooksInv, FundsConserved, FeesInOwnBatch
<1>3. \A i \in Ids : infers[i].born \in 1..block'
  <2>1. block \in Nat /\ \A i \in Ids : infers[i].born \in 1..block
    BY DEF BooksInv, IInv, Typed, Books
  <2> QED BY <2>1
<1>4. Books'
  BY <1>1, <1>3 DEF BooksInv, Books
<1> QED BY <1>2, <1>4

\* A new inference brings its fee and is unsolved.
LEMMA InferBooks ==
  ASSUME BooksInv, NEW m \in Miners, Infer(m)
  PROVE  Books' /\ FundsConserved' /\ FeesInOwnBatch'
<1> DEFINE n == Len(infers) + 1
<1>1. /\ infers \in Seq([miner : Miners, born : Nat]) /\ Ids = 1..Len(infers) /\ block \in Nat \ {0}
      /\ Len(infers) \in Nat /\ Len(infers) < MaxInfers
      /\ infers' = Append(infers, [miner |-> m, born |-> block])
      /\ held' = held + ModelFee /\ UNCHANGED <<block, solved, validatorFee, refused, earned>>
  BY DEF BooksInv, IInv, Typed, Ids, Infer
<1>2. /\ Len(infers') = n /\ Ids' = Ids \cup {n} /\ n \notin Ids /\ n \in Nat
      /\ \A i \in Ids : infers'[i] = infers[i] /\ i <= n /\ i \in Nat /\ i # n
      /\ infers'[n] = [miner |-> m, born |-> block]
  BY <1>1 DEF Ids
<1>3. solved \subseteq Ids /\ n <= MaxInfers /\ infers'[n].born = block
  BY <1>1, <1>2, SchedulerAssumption DEF BooksInv, IInv, Typed
<1>4. \A i \in Ids : infers[i].born \in 1..block
  BY DEF BooksInv, Books
<1> HIDE DEF n
<1>5. \A i \in Ids' : infers'[i].born \in 1..block
  BY <1>1, <1>2, <1>3, <1>4
<1>6. ASSUME NEW i \in Ids', NEW j \in Ids', i <= j PROVE infers'[i].born <= infers'[j].born
  <2>1. CASE j = n
    <3>1. infers'[i].born \in 1..block /\ infers'[j].born = block
      BY <1>3, <1>5, <2>1
    <3>2. block \in Nat
      BY <1>1
    <3>3. \A x \in 1..block : x <= block
      BY <3>2
    <3> QED BY <3>1, <3>3, Zenon
  <2>2. CASE j # n /\ i # n
    BY <1>2, <1>6, <2>2 DEF BooksInv, Books
  <2>3. CASE j # n /\ i = n
    <3>1. j \in Ids
      BY <1>2, <2>3
    <3>2. j <= n /\ j \in Nat /\ n \in Nat
      BY <1>2, <3>1
    <3> QED BY <1>6, <2>3, <3>2
  <2> QED BY <2>1, <2>2, <2>3
<1>7. Books'
  BY <1>1, <1>2, <1>3, <1>5, <1>6 DEF BooksInv, Books
<1>8. FundsConserved'
  <2>0. IsFiniteSet(Ids \ solved) /\ n \notin Ids \ solved /\ Ids' \ solved' = (Ids \ solved) \cup {n}
    BY <1>1, <1>2, <1>3, BooksFinite DEF BooksInv
  <2> DEFINE c == Cardinality(Ids \ solved)
             d == SumFunctionOnSet(validatorFee, Batches)
  <2>1. Cardinality(Ids' \ solved') = c + 1 /\ c \in Nat
    BY <2>0, FS_AddElement, FS_CardinalityType
  <2>2. d \in Int
    BY BooksFinite, SumOfIntegers DEF BooksInv, Books
  <2>3. held = ModelFee * c + d
    BY DEF BooksInv, FundsConserved
  <2> HIDE DEF c, d
  <2>4. ModelFee \in Nat /\ ModelFee * (c + 1) = ModelFee * c + ModelFee /\ ModelFee * c \in Nat
    BY <2>1, SchedulerAssumption, Times
  <2>5. held' = ModelFee * (c + 1) + d
    BY <1>1, <2>2, <2>3, <2>4
  <2>6. \A x : {i \in solved : infers'[i].miner = x} = {i \in solved : infers[i].miner = x}
    BY <1>2, <1>3
  <2>7. held' = ModelFee * Cardinality(Ids' \ solved') + SumFunctionOnSet(validatorFee', Batches)
    BY <1>1, <2>1, <2>5 DEF d
  <2>8. \A x \in Miners :
          earned'[x] = MinerFee * Cardinality({i \in solved' : infers'[i].miner = x})
    BY <1>1, <2>6 DEF BooksInv, FundsConserved
  <2> QED BY <2>7, <2>8 DEF FundsConserved
<1>9. \A b : (BatchIds(b) \cap solved)' = BatchIds(b) \cap solved
  BY <1>1, <1>2, <1>3 DEF BatchIds
<1>10. FeesInOwnBatch'
  BY <1>1, <1>9 DEF BooksInv, FeesInOwnBatch
<1> QED BY <1>7, <1>8, <1>10

\* A solution pays the miner its part and notes the rest for a batch.
LEMMA SolutionBooks ==
  ASSUME BooksInv, NEW m \in Miners, NEW i \in Ids, SubmitSolution(m, i)
  PROVE  Books' /\ FundsConserved' /\ FeesInOwnBatch'
<1> DEFINE k == CreditedBatch(i)
           rest == ModelFee - MinerFee
<1>1. /\ i \notin solved /\ m = infers[i].miner /\ solved' = solved \cup {i}
      /\ held' = held - MinerFee /\ earned' = [earned EXCEPT ![m] = @ + MinerFee]
      /\ validatorFee' = [validatorFee EXCEPT ![k] = @ + rest]
      /\ UNCHANGED <<block, infers, refused>> /\ Acceptable(m, i)
  BY DEF SubmitSolution, Acceptable, Resubmittable
<1>2. /\ k \in Batches
      /\ SubmitDuration <= BatchBlocks => k = BatchOf(infers[i].born)
  BY <1>1, CreditIs DEF BooksInv
<1>3. /\ MinerFee \in Nat /\ rest \in Nat /\ ModelFee \in Nat /\ MinerFee + rest = ModelFee
      /\ validatorFee \in [Batches -> Nat] /\ earned \in [Miners -> Nat]
  BY FeeBound, SchedulerAssumption DEF BooksInv, Books
<1>4. UNCHANGED Ids /\ \A b : BatchIds(b)' = BatchIds(b)
  BY <1>1 DEF Ids, BatchIds
<1> HIDE DEF k, rest
<1>5. /\ validatorFee' \in [Batches -> Nat] /\ earned' \in [Miners -> Nat]
      /\ validatorFee'[k] = validatorFee[k] + rest
      /\ \A b \in Batches \ {k} : validatorFee'[b] = validatorFee[b]
      /\ earned'[m] = earned[m] + MinerFee
      /\ \A x \in Miners \ {m} : earned'[x] = earned[x]
  BY <1>1, <1>2, <1>3
<1> DEFINE d == SumFunctionOnSet(validatorFee, Batches)
           e == SumFunctionOnSet(validatorFee', Batches)
           c == Cardinality(solved)
           u == Cardinality(Ids \ solved)
<1>6. d \in Int /\ e = d + rest
  <2>1. IsFiniteSet(Batches)
    BY BooksFinite DEF BooksInv
  <2>2. \A b \in Batches : validatorFee'[b] \in Int /\ validatorFee[b] \in Int
    BY <1>3, <1>5
  <2>3. d \in Int
    BY <2>1, <2>2, SumOfIntegers
  <2>4. e = d + (validatorFee'[k] - validatorFee[k])
    BY <1>2, <1>5, <2>1, <2>2, SumChange
  <2>5. validatorFee'[k] - validatorFee[k] = rest
    BY <1>2, <1>3, <1>5
  <2> QED BY <2>3, <2>4, <2>5
<1>7. Cardinality(solved') = c + 1 /\ c \in Nat
  BY <1>1, BooksFinite, FS_AddElement DEF BooksInv
<1>8. Cardinality(Ids' \ solved') = u - 1 /\ u \in Nat \ {0}
  <2>1. Ids' \ solved' = (Ids \ solved) \ {i} /\ i \in Ids \ solved /\ IsFiniteSet(Ids \ solved)
    BY <1>1, <1>4, BooksFinite DEF BooksInv
  <2>2. Cardinality((Ids \ solved) \ {i}) = u - 1 /\ u \in Nat
    BY <2>1, FS_RemoveElement, FS_CardinalityType
  <2>3. Cardinality((Ids \ solved) \ {i}) \in Nat
    BY <2>1, FS_RemoveElement, FS_CardinalityType
  <2> QED BY <2>1, <2>2, <2>3
<1>9. Books'
  <2>1. d = rest * c
    BY DEF BooksInv, Books, rest
  <2> HIDE DEF d, e, c
  <2>2. rest * (c + 1) = rest * c + rest /\ rest * c \in Nat
    BY <1>3, <1>7, Times
  <2>3. e = rest * Cardinality(solved')
    BY <1>3, <1>6, <1>7, <2>1, <2>2
  <2>4. SumFunctionOnSet(validatorFee', Batches) = (ModelFee - MinerFee) * Cardinality(solved')
    BY <2>3 DEF e, rest
  <2> QED BY <1>1, <1>4, <1>5, <2>4 DEF BooksInv, Books
<1>10. FundsConserved'
  <2>1. held = ModelFee * u + d
    BY DEF BooksInv, FundsConserved
  <2>2. ASSUME NEW x \in Miners
        PROVE  earned'[x] = MinerFee * Cardinality({j \in solved' : infers'[j].miner = x})
    <3> DEFINE T == {j \in solved : infers[j].miner = x}
               U == {j \in solved' : infers'[j].miner = x}
    <3>1. IsFiniteSet(T) /\ earned[x] = MinerFee * Cardinality(T)
      BY BooksFinite DEF BooksInv, FundsConserved
    <3>2. U = IF x = m THEN T \cup {i} ELSE T
      BY <1>1
    <3>3. i \notin T
      BY <1>1
    <3> HIDE DEF T, U
    <3>4. CASE x = m
      <4>1. Cardinality(U) = Cardinality(T) + 1 /\ Cardinality(T) \in Nat
        BY <3>1, <3>2, <3>3, <3>4, FS_AddElement, FS_CardinalityType
      <4>2. MinerFee * (Cardinality(T) + 1) = MinerFee * Cardinality(T) + MinerFee
        BY <1>3, <4>1, Times
      <4>3. earned'[x] = MinerFee * Cardinality(U)
        BY <1>5, <3>1, <3>4, <4>1, <4>2
      <4> QED BY <4>3 DEF U
    <3>5. CASE x # m
      <4>1. earned'[x] = MinerFee * Cardinality(U)
        BY <1>5, <3>1, <3>2, <3>5
      <4> QED BY <4>1 DEF U
    <3> QED BY <3>4, <3>5
  <2> HIDE DEF d, e, u
  <2>3. u - 1 \in Nat /\ u = (u - 1) + 1
    BY <1>8
  <2>4. ModelFee * ((u - 1) + 1) = ModelFee * (u - 1) + ModelFee /\ ModelFee * (u - 1) \in Nat
    BY <1>3, <2>3, Times
  <2>5. ModelFee * u = ModelFee * (u - 1) + ModelFee
    BY <2>3, <2>4
  <2>6. held' = ModelFee * (u - 1) + e
    BY <1>1, <1>3, <1>6, <2>1, <2>4, <2>5
  <2>7. held' = ModelFee * Cardinality(Ids' \ solved') + SumFunctionOnSet(validatorFee', Batches)
    BY <1>8, <2>6 DEF e
  <2> QED BY <2>2, <2>7 DEF FundsConserved
<1>11. FeesInOwnBatch'
  <2> SUFFICES ASSUME SubmitDuration <= BatchBlocks, NEW b \in Batches
               PROVE  validatorFee'[b] = rest * Cardinality(BatchIds(b) \cap solved')
    BY <1>4 DEF FeesInOwnBatch, rest
  <2> DEFINE T == BatchIds(b) \cap solved
             U == BatchIds(b) \cap solved'
  <2>1. IsFiniteSet(T) /\ validatorFee[b] = rest * Cardinality(T)
    BY BooksFinite DEF BooksInv, FeesInOwnBatch, rest
  <2>2. U = IF b = k THEN T \cup {i} ELSE T
    BY <1>1, <1>2 DEF BatchIds
  <2>3. i \notin T
    BY <1>1
  <2> HIDE DEF T, U
  <2>4. CASE b = k
    <3>1. Cardinality(U) = Cardinality(T) + 1 /\ Cardinality(T) \in Nat
      BY <2>1, <2>2, <2>3, <2>4, FS_AddElement, FS_CardinalityType
    <3>2. rest * (Cardinality(T) + 1) = rest * Cardinality(T) + rest
      BY <1>3, <3>1, Times
    <3>3. validatorFee'[b] = rest * Cardinality(U)
      BY <1>5, <2>1, <2>4, <3>1, <3>2
    <3> QED BY <3>3 DEF U
  <2>5. CASE b # k
    <3>1. validatorFee'[b] = rest * Cardinality(U)
      BY <1>5, <2>1, <2>2, <2>5
    <3> QED BY <3>1 DEF U
  <2> QED BY <2>4, <2>5
<1> QED BY <1>9, <1>10, <1>11

\* At the start there are no inferences and no fees.
LEMMA InitBooks == Init => BooksInv
<1> SUFFICES ASSUME Init PROVE BooksInv
  OBVIOUS
<1>1. IInv
  BY InitInv
<1>2. /\ Ids = {} /\ solved = {} /\ held = 0 /\ block = 1 /\ Len(infers) = 0 /\ refused = {}
      /\ validatorFee = [b \in Batches |-> 0] /\ earned = [m \in Miners |-> 0]
  BY DEF Init, SchedulerInit, Ids
<1>3. /\ IsFiniteSet(Batches) /\ \A b \in Batches : validatorFee[b] = 0
      /\ Cardinality({}) = 0
  BY <1>1, <1>2, BooksFinite, FS_EmptySet
<1>4. SumFunctionOnSet(validatorFee, Batches) = 0
  BY <1>3, SumOfZeros
<1>5. ModelFee * 0 = 0 /\ MinerFee * 0 = 0 /\ (ModelFee - MinerFee) * 0 = 0
  BY FeeBound, SchedulerAssumption
<1>6. Books
  BY <1>2, <1>3, <1>4, <1>5, SchedulerAssumption DEF Books
<1>7. FundsConserved
  <2>1. Ids \ solved = {} /\ \A m : {i \in solved : infers[i].miner = m} = {}
    BY <1>2
  <2> QED BY <1>2, <1>3, <1>4, <1>5, <2>1 DEF FundsConserved
<1>8. FeesInOwnBatch
  <2>1. \A b : BatchIds(b) \cap solved = {}
    BY <1>2
  <2> QED BY <1>2, <1>3, <1>5, <2>1 DEF FeesInOwnBatch
<1> QED BY <1>1, <1>6, <1>7, <1>8 DEF BooksInv

\* A step of the client or the environment is one of the contract's or leaves it alone.
LEMMA NextBooks == ASSUME BooksInv, [Next]_vars PROVE BooksInv'
<1>1. IInv'
  BY NextInv DEF BooksInv
<1>2. block \in Nat /\ block \in 1..MaxBlock /\ MaxBlock \in Nat /\ refused \subseteq Miners
  BY SchedulerAssumption DEF BooksInv, IInv, Typed, Books
<1>3. CASE UNCHANGED <<block, contract>>
  BY <1>1, <1>2, <1>3, BooksKept DEF contract, BooksInv
<1>4. CASE NextBlock
  <2>1. /\ block' = block + 1 /\ block' \in 1..MaxBlock
        /\ UNCHANGED <<infers, solved, validatorFee, held, earned, refused>>
    BY <1>2, <1>4 DEF NextBlock, contract
  <2> QED BY <1>1, <1>2, <2>1, BooksKept DEF BooksInv
<1>5. ASSUME NEW m \in Miners, Infer(m) PROVE BooksInv'
  BY <1>1, <1>5, InferBooks DEF BooksInv
<1>6. ASSUME NEW m \in Miners, NEW i \in Ids, SubmitSolution(m, i) PROVE BooksInv'
  BY <1>1, <1>6, SolutionBooks DEF BooksInv
<1>7. CASE Suspension
  <2>1. /\ refused' \subseteq Miners
        /\ UNCHANGED <<block, infers, solved, validatorFee, held, earned>>
    BY <1>7 DEF Suspension, SetRefused
  <2> QED BY <1>1, <1>2, <2>1, BooksKept DEF BooksInv
<1>8. late \subseteq Ids /\ (exec.pc = "sent" => exec.task \in Ids) /\ Me \in Miners
  BY ClientAssumption DEF BooksInv, IInv, Typed
<1>9. CASE Outside
  BY <1>4, <1>5, <1>6, <1>9 DEF Outside
<1>10. ASSUME NEW i \in late, MinedLate(i) PROVE BooksInv'
  BY <1>3, <1>6, <1>8, <1>10 DEF MinedLate
<1>11. CASE Mined
  BY <1>3, <1>6, <1>8, <1>11 DEF Mined
<1>12. CASE Restart \/ ScanBegin \/ ScanEvent \/ ScanEnd \/ Dequeue \/ Execute \/ Submitted \/ TimedOut
  BY <1>3, <1>12 DEF Restart, ScanBegin, ScanEvent, ScanEnd, Dequeue, Execute, Submitted, TimedOut
<1>13. CASE UNCHANGED vars
  BY <1>3, <1>13 DEF vars
<1> QED BY <1>7, <1>9, <1>10, <1>11, <1>12, <1>13 DEF Next, Client

\* The scheduler holds the whole fee of every unsolved inference and the validators' part
\* of every solved one, and each miner has its part of each inference it solved, once,
\* whatever the client sends again: infer and submitSolution.
THEOREM FundsAreConserved == Spec => []FundsConserved
<1>1. BooksInv => FundsConserved
  BY DEF BooksInv
<1> QED BY InitBooks, NextBooks, <1>1, PTL DEF Spec

\* The validators of a batch get the fees of that batch's inferences: the batch that
\* submitSolution works out is the one infer put the inference into.
THEOREM FeesAreInOwnBatch == Spec => []FeesInOwnBatch
<1>1. BooksInv => FeesInOwnBatch
  BY DEF BooksInv
<1> QED BY InitBooks, NextBooks, <1>1, PTL DEF Spec

-----------------------------------------------------------------------------
(* The types.                                                               *)

\* The memory of the program: a task in the queue or in the executor's hands was taken,
\* and so was one that is done.
ClientTyped ==
  /\ seizeMinerRoles \subseteq Mine
  /\ scan \in [pc : {"rest", "scan"}, to : Nat, left : SUBSET Ids]
  /\ \A k \in DOMAIN tasksQueue : tasksQueue[k] \in seizeMinerRoles
  /\ Len(tasksQueue) <= QueueCap
  /\ exec.pc # "wait" => exec.task \in seizeMinerRoles
  /\ late \subseteq Mine /\ TaskChecker \subseteq seizeMinerRoles
  /\ faults \in 0..MaxFaults
  /\ skipped \subseteq Ids /\ outOfReach \subseteq Ids /\ dropped \subseteq Mine

TypeInv == BooksInv /\ ClientTyped

\* The amounts are within their bounds: what is held is what came in less what was paid.
LEMMA AmountsBounded ==
  ASSUME BooksInv
  PROVE  /\ held \in 0..(ModelFee * MaxInfers)
         /\ validatorFee \in [Batches -> 0..(ModelFee * MaxInfers)]
         /\ earned \in [Miners -> 0..(MinerFee * MaxInfers)]
<1> DEFINE c == Cardinality(solved)
           u == Cardinality(Ids \ solved)
           d == SumFunctionOnSet(validatorFee, Batches)
           rest == ModelFee - MinerFee
<1>1. /\ ModelFee \in Nat /\ MinerFee \in Nat /\ rest \in Nat /\ rest <= ModelFee
      /\ MaxInfers \in Nat
  BY FeeBound, SchedulerAssumption
<1>2. /\ IsFiniteSet(Batches) /\ IsFiniteSet(Ids) /\ IsFiniteSet(solved) /\ c \in Nat /\ u \in Nat
      /\ Len(infers) \in Nat /\ Ids = 1..Len(infers) /\ solved \subseteq Ids
  BY BooksFinite DEF BooksInv, IInv, Typed
<1>3. c + u <= MaxInfers
  <2>1. Cardinality(Ids) = Len(infers)
    BY <1>2, FirstNumbers
  <2>2. /\ Cardinality(Ids \ solved) = Cardinality(Ids) - Cardinality(Ids \cap solved)
        /\ Ids \cap solved = solved
    BY <1>2, FS_Difference
  <2>3. Len(infers) <= MaxInfers
    BY DEF BooksInv, Books
  <2>4. u = Len(infers) - c
    BY <2>1, <2>2
  <2> HIDE DEF u, c
  <2> QED BY <1>1, <1>2, <2>3, <2>4
<1>4. d = rest * c /\ held = ModelFee * u + d
  BY DEF BooksInv, Books, FundsConserved
<1>5. d \in Nat /\ \A b \in Batches : validatorFee[b] \in Nat /\ validatorFee[b] <= d
  <2>1. \A b \in Batches : validatorFee[b] \in Nat
    BY DEF BooksInv, Books
  <2> QED BY <1>2, <2>1, SumOfNaturals
<1> HIDE DEF c, u, d, rest
<1>6. rest * c <= ModelFee * c /\ ModelFee * c \in Nat /\ ModelFee * u \in Nat /\ rest * c \in Nat
  BY <1>1, <1>2
<1>7. /\ ModelFee * (u + c) = ModelFee * u + ModelFee * c
      /\ ModelFee * (u + c) <= ModelFee * MaxInfers /\ ModelFee * MaxInfers \in Nat
  BY <1>1, <1>2, <1>3, Times
<1>8. held \in 0..(ModelFee * MaxInfers) /\ d <= ModelFee * MaxInfers
  BY <1>4, <1>6, <1>7
<1>9. validatorFee \in [Batches -> 0..(ModelFee * MaxInfers)]
  <2>1. \A b \in Batches : validatorFee[b] \in 0..(ModelFee * MaxInfers)
    BY <1>5, <1>7, <1>8
  <2> QED BY <2>1 DEF BooksInv, Books
<1>10. ASSUME NEW m \in Miners PROVE earned[m] \in 0..(MinerFee * MaxInfers)
  <2> DEFINE T == {i \in solved : infers[i].miner = m}
             t == Cardinality(T)
  <2>1. IsFiniteSet(T) /\ T \subseteq solved
    BY BooksFinite DEF BooksInv
  <2>2. t \in Nat /\ t <= c
    BY <1>2, <2>1, FS_Subset, FS_CardinalityType DEF c
  <2>3. earned[m] = MinerFee * t
    BY DEF BooksInv, FundsConserved
  <2> HIDE DEF t
  <2>4. t <= MaxInfers
    BY <1>1, <1>2, <1>3, <2>2
  <2>5. MinerFee * t <= MinerFee * MaxInfers /\ MinerFee * t \in Nat /\ MinerFee * MaxInfers \in Nat
    BY <1>1, <2>2, <2>4, Times
  <2> QED BY <2>3, <2>5
<1> QED BY <1>8, <1>9, <1>10 DEF BooksInv, Books

\* The elements of a sequence.
LEMMA ElementOf == ASSUME NEW S, NEW s \in Seq(S), NEW k \in DOMAIN s PROVE s[k] \in S
OBVIOUS

\* A sequence is one of the elements it has.
LEMMA SequenceOf ==
  ASSUME NEW S, NEW T, NEW s \in Seq(S), \A k \in DOMAIN s : s[k] \in T
  PROVE  s \in Seq(T)
<1>1. /\ Len(s) \in Nat /\ s = [k \in 1..Len(s) |-> s[k]] /\ DOMAIN s = 1..Len(s)
  OBVIOUS
<1> QED BY <1>1

\* The invariant contains the property.
LEMMA TypeImplies == TypeInv => TypeOK
<1> SUFFICES ASSUME TypeInv PROVE TypeOK
  OBVIOUS
<1>1. /\ held \in 0..(ModelFee * MaxInfers)
      /\ validatorFee \in [Batches -> 0..(ModelFee * MaxInfers)]
      /\ earned \in [Miners -> 0..(MinerFee * MaxInfers)]
  BY AmountsBounded DEF TypeInv
<1>2. /\ infers \in Seq([miner : Miners, born : Nat])
      /\ tasksQueue \in Seq(Nat) /\ currentBlock \in 0..(block - 1) /\ scan.to \in 0..(block - 1)
      /\ exec \in [pc : {"wait", "execute", "sent", "mined"}, task : Nat, ok : BOOLEAN]
      /\ exec.pc = "wait" => exec.task = 0
      /\ solved \subseteq Ids
  BY DEF TypeInv, BooksInv, IInv, Typed
<1>3. infers \in Seq([miner : Miners, born : 1..MaxBlock])
  <2>1. block \in 1..MaxBlock /\ \A i \in Ids : infers[i].born \in 1..block
    BY DEF TypeInv, BooksInv, Books
  <2>2. ASSUME NEW i \in Ids PROVE infers[i] \in [miner : Miners, born : 1..MaxBlock]
    <3>1. infers[i] \in [miner : Miners, born : Nat]
      BY <1>2, ElementOf DEF Ids
    <3>2. infers[i].born \in 1..MaxBlock
      BY <2>1, SchedulerAssumption
    <3> QED BY <3>1, <3>2
  <2> QED BY <1>2, <2>2, SequenceOf DEF Ids
<1>4. tasksQueue \in Seq(Mine)
  <2>1. \A k \in DOMAIN tasksQueue : tasksQueue[k] \in Mine
    BY DEF TypeInv, ClientTyped
  <2> QED BY <1>2, <2>1, SequenceOf
<1>5. exec.task \in {0} \cup Mine
  BY <1>2 DEF TypeInv, ClientTyped
<1>6. exec \in [pc : {"wait", "execute", "sent", "mined"}, task : {0} \cup Mine, ok : BOOLEAN]
  BY <1>2, <1>5
<1>7. scan \in [pc : {"rest", "scan"}, to : 0..(block - 1), left : SUBSET Ids]
  BY <1>2 DEF TypeInv, ClientTyped
<1> QED BY <1>1, <1>2, <1>3, <1>4, <1>6, <1>7 DEF TypeInv, BooksInv, Books, ClientTyped, TypeOK

\* Nothing is in memory at the start.
LEMMA InitTypes == Init => TypeInv
<1> SUFFICES ASSUME Init PROVE TypeInv
  OBVIOUS
<1>1. BooksInv
  BY InitBooks
<1>2. ClientTyped
  BY ClientAssumption DEF Init, Resting, Waiting, ClientTyped
<1> QED BY <1>1, <1>2 DEF TypeInv

\* A fault is one of a bounded number.
LEMMA FaultCounts == ASSUME faults \in 0..MaxFaults, Fault PROVE faults' \in 0..MaxFaults
BY ClientAssumption DEF Fault

\* The chain's steps only add inferences, some of them ours.
LEMMA ChainTypes ==
  ASSUME TypeInv, UNCHANGED <<scanner, tasksQueue, executor, history>>,
         Ids \subseteq Ids', Mine \subseteq Mine', late' \subseteq late, faults' \in 0..MaxFaults
  PROVE  ClientTyped'
BY DEF TypeInv, ClientTyped, scanner, executor, history

\* What an inference is stays, and new ones come with new numbers.
LEMMA InferencesStay ==
  ASSUME TypeInv, [Next]_vars
  PROVE  Ids \subseteq Ids' /\ Mine \subseteq Mine'
<1>1. /\ infers \in Seq([miner : Miners, born : Nat]) /\ Len(infers) \in Nat
      /\ Ids = 1..Len(infers)
  BY DEF TypeInv, BooksInv, IInv, Typed, Ids
<1>2. CASE UNCHANGED infers
  BY <1>2 DEF Ids, Mine
<1>3. ASSUME NEW m \in Miners, Infer(m) PROVE Ids \subseteq Ids' /\ Mine \subseteq Mine'
  <2>1. /\ Ids \subseteq Ids' /\ \A i \in Ids : infers'[i] = infers[i]
    BY <1>1, <1>3 DEF Infer, Ids
  <2> QED BY <2>1 DEF Mine
<1>4. CASE Outside
  BY <1>2, <1>3, <1>4 DEF Outside, NextBlock, SubmitSolution, contract
<1>5. CASE Suspension \/ Restart \/ Client \/ (\E i \in late : MinedLate(i))
  BY <1>2, <1>5 DEF Suspension, SetRefused, Restart, Client, MinedLate, ScanBegin, ScanEvent,
     ScanEnd, Dequeue, Execute, Mined, Submitted, TimedOut, SubmitSolution, contract
<1>6. CASE UNCHANGED vars
  BY <1>2, <1>6 DEF vars, contract
<1> QED BY <1>4, <1>5, <1>6 DEF Next

\* The scanner.
LEMMA ScannerTypes ==
  ASSUME TypeInv, ScanBegin \/ ScanEvent \/ ScanEnd
  PROVE  ClientTyped'
<1>1. UNCHANGED <<Ids, Mine>>
  BY DEF ScanBegin, ScanEvent, ScanEnd, contract, Ids, Mine
<1>2. /\ scan \in [pc : {"rest", "scan"}, to : Nat, left : SUBSET Ids] /\ scan.left \subseteq Ids
      /\ block \in Nat \ {0} /\ CurrentBlock \in Nat
      /\ faults \in 0..MaxFaults /\ (Fault => faults' \in 0..MaxFaults)
      /\ skipped \subseteq Ids /\ outOfReach \subseteq Ids
      /\ \A b : Before(b) \subseteq Ids /\ \A a : FilterNewInference(a, b) \subseteq Ids
      /\ Resting \in [pc : {"rest", "scan"}, to : Nat, left : SUBSET Ids]
  BY FaultCounts DEF TypeInv, BooksInv, IInv, Typed, ClientTyped, CurrentBlock, Before,
     FilterNewInference, Resting
<1>3. ASSUME scan' \in [pc : {"rest", "scan"}, to : Nat, left : SUBSET Ids],
             faults' \in 0..MaxFaults, skipped' \subseteq Ids, outOfReach' \subseteq Ids,
             UNCHANGED <<seizeMinerRoles, tasksQueue, executor, late, dropped>>
      PROVE  ClientTyped'
  BY <1>1, <1>3 DEF TypeInv, ClientTyped, executor
<1>4. CASE ScanBegin
  <2>1. UNCHANGED <<seizeMinerRoles, tasksQueue, executor, late, dropped>>
    BY <1>4 DEF ScanBegin
  <2>2. scan' = scan \/ scan' = [pc |-> "scan", to |-> CurrentBlock,
                                 left |-> FilterNewInference(FromBlock, CurrentBlock)]
    BY <1>4 DEF ScanBegin
  <2>3. faults' = faults \/ Fault
    BY <1>4 DEF ScanBegin
  <2>4. /\ skipped' = skipped \/ skipped' = skipped \cup FilterNewInference(FromBlock, CurrentBlock)
        /\ \/ outOfReach' = outOfReach
           \/ \E b : outOfReach' = outOfReach \cup Before(b)
    BY <1>4 DEF ScanBegin
  <2>5. scan' \in [pc : {"rest", "scan"}, to : Nat, left : SUBSET Ids]
    BY <1>2, <2>2
  <2>6. faults' \in 0..MaxFaults
    BY <1>2, <2>3
  <2>7. skipped' \subseteq Ids /\ outOfReach' \subseteq Ids
    BY <1>2, <2>4
  <2> QED BY <1>3, <2>1, <2>5, <2>6, <2>7
<1>5. CASE ScanEnd
  <2>1. /\ scan' = Resting /\ skipped' = skipped /\ faults' = faults /\ outOfReach' = outOfReach
        /\ UNCHANGED <<seizeMinerRoles, tasksQueue, executor, late, dropped>>
    BY <1>5 DEF ScanEnd, ScanReturns
  <2> QED BY <1>2, <1>3, <2>1
<1>6. CASE ScanEvent
  <2> DEFINE i == Min(scan.left)
  <2>1. UNCHANGED <<executor, late, outOfReach, dropped>>
    BY <1>6 DEF ScanEvent
  <2> HIDE DEF i
  <2>2. CASE /\ scan' = [scan EXCEPT !.left = @ \ {i}]
             /\ UNCHANGED <<seizeMinerRoles, tasksQueue, skipped, faults>>
    <3>1. scan' \in [pc : {"rest", "scan"}, to : Nat, left : SUBSET Ids]
      BY <1>2, <2>2
    <3> QED BY <1>2, <1>3, <2>1, <2>2, <3>1
  <2>3. CASE ScanReturns(scan.left) /\ UNCHANGED <<seizeMinerRoles, tasksQueue>>
    <3>1. Fault \/ faults' = faults
      BY <1>6 DEF ScanEvent
    <3>2. outOfReach' = outOfReach
      BY <2>1
    <3> QED BY <1>2, <1>3, <2>1, <2>3, <3>1 DEF ScanReturns
  <2>4. CASE /\ i \in Mine /\ Len(tasksQueue) < QueueCap
             /\ seizeMinerRoles' = seizeMinerRoles \cup {i}
             /\ tasksQueue' = Append(tasksQueue, i)
             /\ scan' = [scan EXCEPT !.left = @ \ {i}]
             /\ UNCHANGED <<skipped, faults>>
    <3>1. scan' \in [pc : {"rest", "scan"}, to : Nat, left : SUBSET Ids]
      BY <1>2, <2>4
    <3>2. tasksQueue \in Seq(Nat) /\ i \in Nat /\ Len(tasksQueue) \in Nat
      BY <2>4 DEF TypeInv, BooksInv, IInv, Typed, Mine, Ids
    <3>3. /\ Len(tasksQueue') <= QueueCap
          /\ DOMAIN tasksQueue' = DOMAIN tasksQueue \cup {Len(tasksQueue) + 1}
          /\ \A k \in DOMAIN tasksQueue : tasksQueue'[k] = tasksQueue[k]
          /\ tasksQueue'[Len(tasksQueue) + 1] = i
      BY <2>4, <3>2, ClientAssumption
    <3>4. \A k \in DOMAIN tasksQueue' : tasksQueue'[k] \in seizeMinerRoles'
      BY <2>4, <3>3 DEF TypeInv, ClientTyped
    <3> QED BY <1>1, <1>2, <2>1, <2>4, <3>1, <3>3, <3>4 DEF TypeInv, ClientTyped, executor
  <2>5. \/ /\ scan' = [scan EXCEPT !.left = @ \ {i}]
           /\ UNCHANGED <<seizeMinerRoles, tasksQueue, skipped, faults>>
        \/ ScanReturns(scan.left) /\ UNCHANGED <<seizeMinerRoles, tasksQueue>>
        \/ /\ i \in Mine /\ Len(tasksQueue) < QueueCap
           /\ seizeMinerRoles' = seizeMinerRoles \cup {i}
           /\ tasksQueue' = Append(tasksQueue, i)
           /\ scan' = [scan EXCEPT !.left = @ \ {i}]
           /\ UNCHANGED <<skipped, faults>>
    BY <1>6, Zenon DEF ScanEvent, i
  <2> QED BY <2>2, <2>3, <2>4, <2>5
<1> QED BY <1>4, <1>5, <1>6

\* The executor.
LEMMA ExecutorTypes ==
  ASSUME TypeInv, Dequeue \/ Execute \/ Mined \/ Submitted \/ TimedOut
  PROVE  ClientTyped'
<1>1. UNCHANGED <<scanner, skipped, outOfReach, Ids, Mine>>
  BY DEF Dequeue, Execute, Mined, Submitted, TimedOut, SubmitSolution, contract, history, Ids, Mine
<1>2. /\ seizeMinerRoles \subseteq Mine /\ TaskChecker \subseteq seizeMinerRoles
      /\ exec.pc # "wait" => exec.task \in seizeMinerRoles
      /\ late \subseteq Mine /\ dropped \subseteq Mine
      /\ faults \in 0..MaxFaults /\ (Fault => faults' \in 0..MaxFaults)
      /\ exec \in [pc : {"wait", "execute", "sent", "mined"}, task : Nat, ok : BOOLEAN]
  BY FaultCounts DEF TypeInv, ClientTyped, BooksInv, IInv, Typed
<1>3. ASSUME \A k \in DOMAIN tasksQueue' : tasksQueue'[k] \in seizeMinerRoles,
             Len(tasksQueue') <= QueueCap,
             exec'.pc # "wait" => exec'.task \in seizeMinerRoles,
             late' \subseteq Mine, TaskChecker' \subseteq seizeMinerRoles,
             faults' \in 0..MaxFaults, dropped' \subseteq Mine
      PROVE  ClientTyped'
  BY <1>1, <1>3 DEF TypeInv, ClientTyped, scanner
<1>4. /\ \A k \in DOMAIN tasksQueue : tasksQueue[k] \in seizeMinerRoles
      /\ Len(tasksQueue) <= QueueCap
  BY DEF TypeInv, ClientTyped
<1>5. CASE Dequeue
  <2>1. /\ tasksQueue # <<>> /\ tasksQueue' = Tail(tasksQueue) /\ tasksQueue \in Seq(Nat)
        /\ QueueCap \in Nat
    BY <1>5, ClientAssumption DEF Dequeue, TypeInv, BooksInv, IInv, Typed
  <2>2. /\ Len(tasksQueue) \in Nat \ {0} /\ DOMAIN tasksQueue = 1..Len(tasksQueue)
        /\ Head(tasksQueue) = tasksQueue[1]
        /\ Len(tasksQueue') = Len(tasksQueue) - 1
        /\ DOMAIN tasksQueue' = 1..(Len(tasksQueue) - 1)
        /\ \A k \in DOMAIN tasksQueue' : tasksQueue'[k] = tasksQueue[k + 1]
    BY <2>1
  <2>3. Head(tasksQueue) \in seizeMinerRoles /\ Len(tasksQueue') <= QueueCap
    BY <1>4, <2>1, <2>2
  <2>4. \A k \in DOMAIN tasksQueue' : tasksQueue'[k] \in seizeMinerRoles
    <3>1. \A k \in DOMAIN tasksQueue' : k + 1 \in DOMAIN tasksQueue
      BY <2>2
    <3> QED BY <1>4, <2>2, <3>1
  <2>5. \/ exec' = Waiting
        \/ exec' = [pc |-> "execute", task |-> Head(tasksQueue), ok |-> FALSE]
    BY <1>5 DEF Dequeue
  <2>6. exec'.pc # "wait" => exec'.task \in seizeMinerRoles
    BY <2>3, <2>5 DEF Waiting
  <2>7. UNCHANGED <<TaskChecker, late, faults, dropped>>
    BY <1>5 DEF Dequeue, history
  <2> QED BY <1>2, <1>3, <2>3, <2>4, <2>6, <2>7
<1>6. CASE Execute \/ Mined
  <2>1. UNCHANGED <<tasksQueue, TaskChecker, late>> /\ exec.pc # "wait"
    BY <1>6 DEF Execute, Mined
  <2>2. exec'.pc # "wait" => exec'.task = exec.task
    <3>1. \/ exec' = Waiting \/ exec' = [exec EXCEPT !.pc = "sent"]
          \/ exec' = [exec EXCEPT !.pc = "mined", !.ok = Acceptable(Me, exec.task)]
      BY <1>6 DEF Execute, Mined, Continue
    <3>2. DOMAIN exec = {"pc", "task", "ok"}
      BY <1>2
    <3>3. CASE exec' = Waiting
      BY <3>3 DEF Waiting
    <3>4. CASE exec' = [exec EXCEPT !.pc = "sent"]
      BY <3>2, <3>4
    <3>5. CASE exec' = [exec EXCEPT !.pc = "mined", !.ok = Acceptable(Me, exec.task)]
      BY <3>2, <3>5
    <3> QED BY <3>1, <3>3, <3>4, <3>5
  <2>3. faults' = faults \/ Fault
    BY <1>6 DEF Execute, Mined
  <2>4. dropped' = dropped \/ dropped' = dropped \cup {exec.task}
    BY <1>6 DEF Execute, Mined, Continue, history
  <2> QED BY <1>2, <1>3, <1>4, <2>1, <2>2, <2>3, <2>4
<1>7. CASE Submitted \/ TimedOut
  <2>1. UNCHANGED tasksQueue /\ exec.pc # "wait" /\ exec' = Waiting
    BY <1>7 DEF Submitted, TimedOut, WaitForTx, Continue
  <2>2. late' = late \/ late' = late \cup Abandoned
    BY <1>7 DEF Submitted, TimedOut
  <2>3. faults' = faults \/ Fault
    BY <1>7 DEF Submitted, TimedOut
  <2>4. dropped' = dropped \/ dropped' = dropped \cup {exec.task}
    BY <1>7 DEF Submitted, TimedOut, Continue
  <2>5. TaskChecker' \subseteq TaskChecker \cup {exec.task}
    BY <1>7 DEF Submitted, TimedOut
  <2>6. Abandoned \subseteq Mine /\ exec'.pc = "wait" /\ dropped' \subseteq Mine
    BY <1>2, <2>1, <2>4 DEF Abandoned, Waiting
  <2> QED BY <1>2, <1>3, <1>4, <2>1, <2>2, <2>3, <2>5, <2>6
<1> QED BY <1>5, <1>6, <1>7

\* Every step keeps the types.
LEMMA NextTypes == ASSUME TypeInv, [Next]_vars PROVE TypeInv'
<1>1. BooksInv'
  BY NextBooks DEF TypeInv
<1>2. Ids \subseteq Ids' /\ Mine \subseteq Mine'
  BY InferencesStay
<1>3. faults \in 0..MaxFaults /\ (Fault => faults' \in 0..MaxFaults)
  BY FaultCounts DEF TypeInv, ClientTyped
<1>4. CASE Outside \/ Suspension \/ (\E i \in late : MinedLate(i)) \/ UNCHANGED vars
  <2>1. /\ UNCHANGED <<scanner, tasksQueue, executor, history>> /\ late' \subseteq late
        /\ faults' = faults \/ Fault
    BY <1>4 DEF Outside, Suspension, MinedLate, vars
  <2> QED BY <1>1, <1>2, <1>3, <2>1, ChainTypes DEF TypeInv
<1>5. CASE Restart
  <2>1. /\ scan' = Resting /\ seizeMinerRoles' = {} /\ tasksQueue' = <<>> /\ exec' = Waiting
        /\ TaskChecker' = {} /\ late' = late \cup Abandoned /\ UNCHANGED history
        /\ faults' \in 0..MaxFaults /\ UNCHANGED <<Ids, Mine>>
    BY <1>3, <1>5 DEF Restart, contract, Ids, Mine
  <2>2. Abandoned \subseteq Mine
    BY DEF TypeInv, ClientTyped, Abandoned
  <2>3. /\ Resting \in [pc : {"rest", "scan"}, to : Nat, left : SUBSET Ids]
        /\ Waiting.pc = "wait" /\ Len(<<>>) <= QueueCap
    BY ClientAssumption DEF Resting, Waiting
  <2>4. ClientTyped'
    BY <2>1, <2>2, <2>3 DEF TypeInv, ClientTyped, history
  <2> QED BY <1>1, <2>4 DEF TypeInv
<1>6. CASE Client
  BY <1>1, <1>6, ScannerTypes, ExecutorTypes DEF Client, TypeInv
<1> QED BY <1>4, <1>5, <1>6 DEF Next

\* The variables stay in their types: scans end below the head, the queue within its
\* capacity, and nobody is paid more than its part of the inferences there are.
THEOREM TypeCorrect == Spec => []TypeOK
BY InitTypes, NextTypes, TypeImplies, PTL DEF Spec
=============================================================================
