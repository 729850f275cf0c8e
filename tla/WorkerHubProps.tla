--------------------------- MODULE WorkerHubProps ---------------------------
(***************************************************************************)
(* What WorkerHub should guarantee: its invariants, the steps it may never *)
(* take, the escrow it implements, and its progress.                       *)
(***************************************************************************)
EXTENDS WorkerHub

\* Every variable keeps its type; no balance goes negative.
TypeOK ==
  /\ RegistryTypeOK
  /\ block \in 0..MaxBlock
  /\ paused \in BOOLEAN
  /\ inferenceNumber \in 0..MaxInferences
  /\ status \in [Ids -> Statuses]
  /\ deal \in [Ids -> [value : Nat, feeL2 : Nat, feeTreasury : Nat, submitTimeout : Nat]]
  /\ assigned \in [Ids -> SUBSET Workers]
  /\ processedMiner \in [Ids -> Workers \cup {None}]
  /\ commitment \in [Ids -> [Workers -> Answers \cup {None}]]
  /\ digest \in [Ids -> [Workers -> Answers \cup {None}]]
  /\ totalCommit \in [Ids -> Nat]
  /\ totalReveal \in [Ids -> Nat]
  /\ countDigest \in [Ids -> [Answers -> Nat]]
  /\ eth \in [Accounts -> Nat]
  /\ penalties \in [Ids -> [Workers -> Penalties]]

Voters(i, a) == {w \in assigned[i] : digest[i][w] = a}
Committers(i) == {w \in Validators(i) : commitment[i][w] # None}
Revealers(i) == {w \in Validators(i) : digest[i][w] # None}

(***************************************************************************)
(* The three counters the settlement decides by agree with the answers the *)
(* assignments record, whatever the order of submitSolution, commit and    *)
(* reveal, and nothing is recorded for a worker that was not assigned.     *)
(***************************************************************************)
TallyAt(i) ==
  /\ totalCommit[i] = Cardinality(Committers(i))
  /\ totalReveal[i] = Cardinality(Revealers(i))
  /\ \A a \in Answers : countDigest[i][a] = Cardinality(Voters(i, a))
  /\ \A w \in Workers \ assigned[i] : commitment[i][w] = None /\ digest[i][w] = None

TallyMatchesVotes == \A i \in Ids : TallyAt(i)

(***************************************************************************)
(* What the phase of an inference says of its assignments; with the other  *)
(* invariants it is inductive.  No status survives without its miner, and  *)
(* a vote is never counted before the phase that collects it.              *)
(***************************************************************************)
PhaseAt(i) ==
  /\ i > inferenceNumber => status[i] = "Nil"
  /\ status[i] = "Nil" => assigned[i] = {} /\ processedMiner[i] = None
  /\ status[i] # "Nil" => Cardinality(assigned[i]) = MinerRequirement
  /\ processedMiner[i] # None => processedMiner[i] \in assigned[i]
  /\ status[i] \in {"Nil", "Solving"} =>
       \A w \in Workers : commitment[i][w] = None
  /\ status[i] \notin {"Nil", "Solving"} => processedMiner[i] # None
  /\ status[i] \in {"Commit", "Reveal"} => digest[i][processedMiner[i]] # None
  /\ status[i] = "Commit" => totalReveal[i] = 0
  /\ \A w \in Workers : digest[i][w] # None => commitment[i][w] = digest[i][w]

PhaseInv == \A i \in Ids : PhaseAt(i)

(***************************************************************************)
(* While an inference is in its reveal phase somebody still owes a reveal: *)
(* the reveal that completes the vote settles it in the same transaction,  *)
(* so no completed vote is left waiting for a resolveInference call.       *)
(***************************************************************************)
RevealPhaseIncomplete ==
  \A i \in Ids : status[i] = "Reveal" => totalReveal[i] < totalCommit[i]

\* At most one answer can reach the threshold, so the order in which
\* _findMostVotedDigest meets the digests never decides who is paid or fined.
SingleWinner ==
  \A i \in Ids : \A a, b \in Answers :
    /\ assigned[i] # {}
    /\ countDigest[i][a] >= Threshold(Cardinality(assigned[i]))
    /\ countDigest[i][b] >= Threshold(Cardinality(assigned[i]))
    => a = b

\* The fee is paid out only for an answer two thirds of all assigned workers gave,
\* the silent ones counted in.
PaidMeansTwoThirds ==
  \A i \in Ids : status[i] = "Transferred" =>
    \E a \in Answers : 3 * Cardinality(Voters(i, a)) >= 2 * Cardinality(assigned[i])

\* A worker that put an answer forward is penalised only when two thirds of the
\* assigned workers put forward another one.
HonestWorkerSafe ==
  \A i \in Ids, w \in Workers :
    digest[i][w] # None /\ penalties[i][w] # "none" =>
      /\ status[i] = "Transferred"
      /\ \E a \in Answers \ {digest[i][w]} :
           3 * Cardinality(Voters(i, a)) >= 2 * Cardinality(assigned[i])

\* Once a validator's answer is public no commitment of that inference is added or
\* replaced: commit-reveal hides the answers until the last commitment is in.
NoCommitAfterReveal ==
  [][\A i \in Ids : Revealers(i) # {} => commitment'[i] = commitment[i]]_vars

(***************************************************************************)
(* A worker that showed no answer is penalised only once the time it had   *)
(* for its next duty is over: submitting for the miner, revealing for a    *)
(* validator that committed, committing for one that did not.  The commit  *)
(* window is over for reveal from its last block on (CommitWindowOver).    *)
(***************************************************************************)
PenaltyOnlyAfterDeadline ==
  [][\A i \in Ids, w \in Workers :
       penalties'[i][w] # penalties[i][w] /\ digest'[i][w] = None =>
         IF w = processedMiner[i] THEN block > SubmitTimeout(i)
         ELSE IF commitment[i][w] # None THEN block > RevealTimeout(i)
         ELSE block >= CommitTimeout(i)]_vars
-----------------------------------------------------------------------------
OpenIds == {i \in Ids : status[i] \in Open}
Escrowed == SumFunctionOnSet([i \in Ids |-> Deposit(i)], OpenIds)
\* The division of the validators' share leaves less than one unit per paid validator.
DustBound == IF MinerRequirement > 2 THEN MinerRequirement - 2 ELSE 0

\* The hub can always refund every inference that is not settled yet.
HubSolvent == eth[Hub] >= Escrowed

\* No fee is stranded by a settlement but for rounding.
HubKeepsOnlyDust ==
  eth[Hub] - Escrowed
    <= DustBound * Cardinality({i \in Ids : status[i] = "Transferred"})

Phase ==
  [i \in Ids |-> CASE status[i] = "Nil" -> "none"
                   [] status[i] \in Open -> "held"
                   [] status[i] = "Transferred" -> "paid"
                   [] OTHER -> "refunded"]

Escrow == INSTANCE InferenceEscrow
            WITH phase <- Phase, deposit <- [i \in Ids |-> Deposit(i)],
                 held <- eth[Hub], purse <- eth[Creator]

\* The hub implements the escrow: each fee is held from infer on and leaves once, back
\* to the creator in full or out to the workers but for the dust.
EscrowSpec == Escrow!Spec
-----------------------------------------------------------------------------
(***************************************************************************)
(* Fairness: blocks keep coming, and someone keeps trying resolveInference *)
(* (it is public; the creator's refund and the workers' fees depend on     *)
(* it).  Nothing is assumed of the workers.                                *)
(***************************************************************************)
FairSpec ==
  /\ Spec
  /\ WF_vars(Tick)
  /\ \A i \in Ids : WF_vars(ResolveInference(i))

\* The workers whose slashing the settlement of i in its present phase needs.
ToPenalise(i) ==
  CASE status[i] = "Solving" -> {processedMiner[i]}
    [] status[i] = "Commit" -> NotCommitted(i)
    [] status[i] = "Reveal" ->
         IF Decided(i, countDigest[i])
         THEN Losers(i, digest[i], MostVotedDigest(countDigest[i]))
         ELSE Silent(i, digest[i])
    [] OTHER -> {}

\* resolveInference reverts: the hub is paused, or slashMiner does not know one of them.
Blocked(i) == paused \/ ~(ToPenalise(i) \subseteq Joined)

\* An inference in its reveal phase is settled, unless resolving it goes on being blocked.
RevealPhaseSettles ==
  \A i \in Ids :
    <>[]~Blocked(i) => (status[i] = "Reveal" ~> status[i] \in Settled)

\* A seized inference is solved or killed, under the same proviso.
SeizedIsSolvedOrKilled ==
  \A i \in Ids :
    <>[]~Blocked(i) =>
      (status[i] = "Solving" /\ processedMiner[i] # None ~> status[i] # "Solving")

\* Too few commitments end in a settlement or a late reveal, under the same proviso.
UndecidedCommitEnds ==
  \A i \in Ids :
    <>[]~Blocked(i) =>
      (status[i] = "Commit" /\ block > CommitTimeout(i)
         /\ totalCommit[i] + 1 < Threshold(Cardinality(assigned[i]))
       ~> status[i] # "Commit")
-----------------------------------------------------------------------------
(***************************************************************************)
(* What the comments and the documentation say, and the code does not do.  *)
(***************************************************************************)
\* WorkerHub.sol:547: with two thirds of commitments resolveInference moves the
\* inference to its reveal phase, so it does not stay in Commit.
EnoughCommitsMoveToReveal ==
  \A i \in Ids :
    status[i] = "Commit" /\ block > CommitTimeout(i)
      /\ EnoughCommits(i)
      ~> status[i] # "Commit"

\* WorkerHub.sol:526: an inference nobody seized or solved in time is refunded.
UnprocessedIsRefunded ==
  \A i \in Ids :
    status[i] = "Solving" /\ block > SubmitTimeout(i) ~> status[i] = "Killed"
=============================================================================
