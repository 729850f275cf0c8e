------------------------------ MODULE MinerClient ------------------------------
(***************************************************************************)
(* The miner program against the scheduler contract.  Two goroutines share *)
(* a bounded queue: the scanner reads the events of new inferences block   *)
(* range by block range and queues its own, the executor takes them from   *)
(* the queue, computes and submits the solution.  What has been taken and  *)
(* what has been done is kept in memory only.  RPC calls fail, a sent      *)
(* transaction may be slow, and the process is restarted.                  *)
(***************************************************************************)
EXTENDS PromptScheduler

CONSTANTS
  Me,         \* the wallet of this miner
  QueueCap,   \* capacity of tasksQueue
  Lookback,   \* blocks a scan without a position looks back
  MaxFaults   \* bound on failed calls, late transactions, restarts, changes of who is refused

ASSUME ClientAssumption ==
  /\ Me \in Miners /\ QueueCap \in Nat \ {0} /\ Lookback \in Nat /\ MaxFaults \in Nat

VARIABLES
  currentBlock,    \* where the next scan starts, 0 if nowhere yet
  scan,            \* the scan in progress: its end and the events left to look at
  seizeMinerRoles, \* the tasks taken
  tasksQueue,      \* the queue
  exec,            \* the executor: its step, its task, and its transaction's receipt
  late,            \* transactions on the network nobody waits for
  TaskChecker,     \* the tasks done
  faults,
  skipped,         \* history: events a failing scan did not get to
  outOfReach,      \* history: events before the start of a scan without a position
  dropped          \* history: tasks the executor gave up

scanner == <<currentBlock, scan, seizeMinerRoles>>
executor == <<exec, TaskChecker>>
history == <<skipped, outOfReach, dropped>>
vars == <<block, contract, scanner, tasksQueue, executor, late, faults, history>>

Resting == [pc |-> "rest", to |-> 0, left |-> {}]
Waiting == [pc |-> "wait", task |-> 0, ok |-> FALSE]

Init ==
  /\ SchedulerInit
  /\ currentBlock = 0 /\ scan = Resting /\ seizeMinerRoles = {}
  /\ tasksQueue = <<>> /\ exec = Waiting /\ late = {} /\ TaskChecker = {}
  /\ faults = 0
  /\ skipped = {} /\ outOfReach = {} /\ dropped = {}

Fault == faults < MaxFaults /\ faults' = faults + 1

Mine == {i \in Ids : infers[i].miner = Me}

-----------------------------------------------------------------------------
(* The chain goes on, with other users and miners.                          *)

Outside ==
  /\ \/ NextBlock
     \/ \E m \in Miners : Infer(m)
     \/ \E m \in Miners \ {Me}, i \in Ids : SubmitSolution(m, i)
  /\ UNCHANGED <<scanner, tasksQueue, executor, late, faults, history>>

Suspension ==
  /\ Fault
  /\ \E S \in SUBSET Miners \ {refused} : SetRefused(S)
  /\ UNCHANGED <<scanner, tasksQueue, executor, late, history>>

\* Our transaction, if one is sent and not mined, goes on without us.
Abandoned == IF exec.pc = "sent" THEN {exec.task} ELSE {}

\* A restart loses everything but what is on chain or on its way there.
Restart ==
  /\ Fault
  /\ currentBlock' = 0 /\ scan' = Resting /\ seizeMinerRoles' = {}
  /\ tasksQueue' = <<>> /\ exec' = Waiting /\ TaskChecker' = {}
  /\ late' = late \cup Abandoned
  /\ UNCHANGED <<block, contract, history>>

\* An abandoned transaction is mined after all, or reverts.
MinedLate(i) ==
  /\ late' = late \ {i}
  /\ IF Acceptable(Me, i) THEN SubmitSolution(Me, i) ELSE UNCHANGED <<block, contract>>
  /\ UNCHANGED <<scanner, tasksQueue, executor, faults, history>>

-----------------------------------------------------------------------------
(* The scanner: GetPendingTasks.                                            *)

\* The last complete block.
PendingBlock == block
CurrentBlock == block - 1

\* Blocks are counted from the first that holds an inference: the chain has older ones.
FromBlock == IF currentBlock # 0 THEN currentBlock ELSE Max({0, CurrentBlock - Lookback})

NewEvents(from, to) == {i \in Ids : from < infers[i].born /\ infers[i].born <= to}
FilterNewInference(from, to) == {i \in Ids : from <= infers[i].born /\ infers[i].born <= to}

Before(from) == IF currentBlock # 0 THEN {} ELSE {i \in Ids : infers[i].born < from}

\* The range goes up to the head.  The two calls for the head are separate: when the
\* second fails it reads as block 0, the range is empty and the position is lost; when
\* the first, made without a position, fails, the range starts past the head and is
\* empty too, and the position becomes the head.  So it does when the query for the events
\* fails.
ScanBegin ==
  /\ scan.pc = "rest"
  /\ \/ /\ scan' = [pc |-> "scan", to |-> CurrentBlock,
                    left |-> FilterNewInference(FromBlock, CurrentBlock)]
        /\ outOfReach' = outOfReach \cup Before(FromBlock)
        /\ UNCHANGED <<currentBlock, skipped, faults>>
     \/ Fault /\ currentBlock' = 0 /\ UNCHANGED <<scan, skipped, outOfReach>>
     \/ /\ currentBlock = 0 /\ Fault
        /\ currentBlock' = CurrentBlock
        /\ outOfReach' = outOfReach \cup Before(CurrentBlock)
        /\ UNCHANGED <<scan, skipped>>
     \/ /\ Fault
        /\ currentBlock' = CurrentBlock
        /\ skipped' = skipped \cup FilterNewInference(FromBlock, CurrentBlock)
        /\ outOfReach' = outOfReach \cup Before(FromBlock)
        /\ UNCHANGED scan
  /\ UNCHANGED <<block, contract, seizeMinerRoles, tasksQueue, executor, late, dropped>>

\* An error ends the scan before the remaining events; the position moves on as it does
\* after a complete scan.
ScanReturns(left) ==
  /\ currentBlock' = scan.to /\ scan' = Resting
  /\ skipped' = skipped \cup left

\* The next event: taken before; or one whose details cannot be read; or another
\* miner's, which is an error; or ours, which is taken and queued, waiting while the
\* queue is full.
ScanEvent ==
  LET i == Min(scan.left)
  IN /\ scan.pc = "scan" /\ scan.left # {}
     /\ \/ /\ i \in seizeMinerRoles
           /\ scan' = [scan EXCEPT !.left = @ \ {i}]
           /\ UNCHANGED <<currentBlock, seizeMinerRoles, tasksQueue, skipped, faults>>
        \/ /\ i \notin seizeMinerRoles
           /\ (i \in Mine => Fault) /\ (i \notin Mine => UNCHANGED faults)
           /\ ScanReturns(scan.left)
           /\ UNCHANGED <<seizeMinerRoles, tasksQueue>>
        \/ /\ i \in Mine \ seizeMinerRoles
           /\ Len(tasksQueue) < QueueCap
           /\ seizeMinerRoles' = seizeMinerRoles \cup {i}
           /\ tasksQueue' = Append(tasksQueue, i)
           /\ scan' = [scan EXCEPT !.left = @ \ {i}]
           /\ UNCHANGED <<currentBlock, skipped, faults>>
     /\ UNCHANGED <<block, contract, executor, late, outOfReach, dropped>>

ScanEnd ==
  /\ scan.pc = "scan" /\ scan.left = {}
  /\ ScanReturns({})
  /\ UNCHANGED <<block, contract, seizeMinerRoles, tasksQueue, executor, late, faults,
                 outOfReach, dropped>>

-----------------------------------------------------------------------------
(* The executor: ExecuteTasks.                                              *)

Dequeue ==
  /\ exec.pc = "wait" /\ tasksQueue # <<>>
  /\ tasksQueue' = Tail(tasksQueue)
  /\ exec' = IF Head(tasksQueue) \in TaskChecker THEN Waiting
             ELSE [pc |-> "execute", task |-> Head(tasksQueue), ok |-> FALSE]
  /\ UNCHANGED <<block, contract, scanner, TaskChecker, late, faults, history>>

\* After any error the task is given up and the next one taken.
Exits == exec' = [exec EXCEPT !.pc = "exit"] /\ dropped' = dropped \cup {exec.task}
Continue == exec' = Waiting /\ dropped' = dropped \cup {exec.task}

\* The language model answers and the transaction is signed and sent, or one fails.
Execute ==
  /\ exec.pc = "execute"
  /\ \/ exec' = [exec EXCEPT !.pc = "sent"] /\ UNCHANGED <<faults, dropped>>
     \/ Fault /\ Continue
  /\ UNCHANGED <<block, contract, scanner, tasksQueue, TaskChecker, late, skipped, outOfReach>>

\* The gas limit is fixed, so a solution that will be refused is sent and reverts.
Mined ==
  /\ exec.pc = "sent"
  /\ exec' = [exec EXCEPT !.pc = "mined", !.ok = Acceptable(Me, exec.task)]
  /\ IF Acceptable(Me, exec.task) THEN SubmitSolution(Me, exec.task)
                                  ELSE UNCHANGED <<block, contract>>
  /\ UNCHANGED <<scanner, tasksQueue, TaskChecker, late, faults, history>>

\* WaitForTx returns once the receipt says success; after a hundred looks it times out,
\* with the transaction reverted or still to be mined.
WaitForTx == exec.pc = "mined" /\ exec.ok

Submitted ==
  /\ WaitForTx
  /\ \/ /\ TaskChecker' = TaskChecker \cup {exec.task}
        /\ exec' = Waiting /\ UNCHANGED <<faults, dropped>>
     \/ Fault /\ Continue /\ UNCHANGED TaskChecker
  /\ UNCHANGED <<block, contract, scanner, tasksQueue, late, skipped, outOfReach>>

TimedOut ==
  /\ \/ exec.pc = "mined" /\ ~WaitForTx /\ UNCHANGED faults
     \/ exec.pc = "sent" /\ Fault
  /\ late' = late \cup Abandoned
  /\ Continue
  /\ UNCHANGED <<block, contract, scanner, tasksQueue, TaskChecker, skipped, outOfReach>>

-----------------------------------------------------------------------------
Client == ScanBegin \/ ScanEvent \/ ScanEnd \/ Dequeue \/ Execute \/ Mined \/ Submitted \/ TimedOut

Next == Outside \/ Suspension \/ Restart \/ (\E i \in late : MinedLate(i)) \/ Client

Spec == Init /\ [][Next]_vars

\* The goroutines run while the process does; WaitForTx ends, by a receipt or by its
\* timeout, which the weak fairness of Mined and TimedOut together says.
Fairness ==
  /\ WF_vars(ScanBegin) /\ WF_vars(ScanEvent) /\ WF_vars(ScanEnd)
  /\ WF_vars(Dequeue) /\ WF_vars(Execute) /\ WF_vars(Mined)
  /\ WF_vars(Submitted) /\ WF_vars(TimedOut)

FairSpec == Spec /\ Fairness
=============================================================================
