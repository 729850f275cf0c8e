---------------------------- MODULE AgentInference ----------------------------
(***************************************************************************)
(* The fee of an inference in the agent backend.                           *)
(*                                                                         *)
(* A "snapshot post" is one prompt sent to the off-chain engine for an     *)
(* agent (by the scheduler) or for a user (by an API call).  Its fee is    *)
(* taken from the payer in the transaction that creates the post, after    *)
(* the prompt was handed to the engine.  Jobs and API calls then poll the  *)
(* engine: a finished post is resolved and pays the owner of the store's   *)
(* mission, a failed one is refunded by another job.                       *)
(*                                                                         *)
(* Updates of a post take no lock in the database: jobs exclude each other *)
(* by a flag per post and a cache entry, API calls by nothing.             *)
(***************************************************************************)
EXTENDS Integers, FiniteSets

CONSTANTS
  Posts,                   \* the posts to be created
  Jobs, Calls,             \* update jobs of the scheduler, API calls in progress
  Fee,                     \* Fee[p]: what the payer is charged
  StoreFee,                \* StoreFee[p]: the part of it that is the store owner's
  NoPost,                  \* the post of an updater at rest
  Funds,                   \* the payers' balance at the start
  MaxOutages               \* bound on the windows of time in which no job runs

Updaters == Jobs \cup Calls
Payers == {"agent", "user"}

ASSUME InferenceAssumption ==
  /\ Jobs \cap Calls = {}
  /\ Fee \in [Posts -> Nat \ {0}] /\ StoreFee \in [Posts -> Nat]
  /\ \A p \in Posts : StoreFee[p] <= Fee[p]
  /\ NoPost \notin Posts /\ Funds \in Nat /\ MaxOutages \in Nat

VARIABLES
  payer,      \* payer[p]: whether p is created for an agent or for a user
  status,     \* status[p] of the post, "none" before it is committed
  answerable, \* the posts with a response id of the engine
  age,        \* age[p]: how long ago the post was created, in the jobs' windows
  creating,   \* creating[p]: progress of the transaction that creates p
  balance,    \* balance[x]: eai_balance of the agent and of the user
  engine,     \* engine[p]: state of the prompt off chain
  running,    \* jobRunMap: the posts a job has flagged
  cached,     \* the posts with an unexpired cache entry
  upd,        \* upd[u]: the update in progress, with the answer it got
  outages,
  credited, refunded,  \* history: how often the owner was paid, the payer refunded
  tried,      \* history: posts an update was begun for in this window
  raced,      \* history: posts whose flag two jobs found free at the same time
  overlapped  \* history: posts two updates worked on at the same time

posts == <<payer, status, answerable, age>>
flags == <<running, cached>>
history == <<credited, refunded, raced, overlapped>>
vars == <<posts, creating, balance, engine, flags, upd, outages, tried, history>>

Statuses == {"none", "Submitted", "Resolved", "Failed", "Refund", "Error"}
\* under 12 hours, 12-24, 24-30, 30-36 and over 36
Ages == 0..4

Idle == [pc |-> "idle", post |-> NoPost, answer |-> "none"]

AgentPosts == {p \in Posts : payer[p] = "agent"}
UserPosts == Posts \ AgentPosts

Working(p) == {u \in Updaters : upd[u].post = p /\ upd[u].pc \in {"poll", "write"}}

Init ==
  /\ payer \in [Posts -> Payers]
  /\ status = [p \in Posts |-> "none"] /\ answerable = {} /\ age = [p \in Posts |-> 0]
  /\ creating = [p \in Posts |-> "none"]
  /\ balance = [x \in Payers |-> Funds]
  /\ engine = [p \in Posts |-> "none"]
  /\ running = {} /\ cached = {}
  /\ upd = [u \in Updaters |-> Idle]
  /\ outages = 0
  /\ credited = [p \in Posts |-> 0] /\ refunded = [p \in Posts |-> 0]
  /\ tried = {} /\ raced = {} /\ overlapped = {}

-----------------------------------------------------------------------------
(* Creating a post: one transaction with a call to the engine inside it.    *)

\* Updating the balance locks the payer's row until the transaction ends.
RowFree(x) == \A p \in Posts : payer[p] = x => creating[p] \notin {"charged", "sent"}

Creating(p, from, to) == creating[p] = from /\ creating' = [creating EXCEPT ![p] = to]

\* The balance is compared with the fee as it was read, without a lock.
CreateRead(p) ==
  /\ balance[payer[p]] >= Fee[p]
  /\ Creating(p, "none", "read")
  /\ UNCHANGED <<posts, balance, engine, flags, upd, outages, tried, history>>

AsRead(p) == FALSE
\* The balance is read again after the deduction; a negative one rolls back.
Overdrawn(p) == balance[payer[p]] < Fee[p]

CreateCharge(p) ==
  /\ RowFree(payer[p])
  /\ \/ ~Overdrawn(p) /\ Creating(p, "read", "charged")
     \/ Overdrawn(p) /\ Creating(p, "read", "rolledBack")
  /\ UNCHANGED <<posts, balance, engine, flags, upd, outages, tried, history>>

\* BatchPromptItemV2: the engine takes the prompt, and its reply may lack an id.
CreateSend(p) ==
  /\ Creating(p, "charged", "sent")
  /\ engine' = [engine EXCEPT ![p] = "running"]
  /\ \E id \in BOOLEAN : answerable' = IF id THEN answerable \cup {p} ELSE answerable
  /\ UNCHANGED <<payer, status, age, balance, flags, upd, outages, tried, history>>

\* The call fails: the fee is given back and the post kept with a fee of 0.  The
\* engine may have taken the prompt all the same.
CreateSendFails(p) ==
  /\ Creating(p, "charged", "done")
  /\ status' = [status EXCEPT ![p] = "Error"]
  /\ \E taken \in BOOLEAN : engine' = IF taken THEN [engine EXCEPT ![p] = "running"] ELSE engine
  /\ UNCHANGED <<payer, answerable, age, balance, flags, upd, outages, tried, history>>

CreateCommit(p) ==
  /\ Creating(p, "sent", "done")
  /\ status' = [status EXCEPT ![p] = "Submitted"]
  /\ balance' = [balance EXCEPT ![payer[p]] = @ - Fee[p]]
  /\ UNCHANGED <<payer, answerable, age, engine, flags, upd, outages, tried, history>>

\* A later statement fails or the process dies: all but the engine's work is undone.
CreateRollback(p) ==
  /\ creating[p] \in {"read", "charged", "sent"}
  /\ creating' = [creating EXCEPT ![p] = "rolledBack"]
  /\ answerable' = answerable \ {p}
  /\ UNCHANGED <<payer, status, age, balance, engine, flags, upd, outages, tried, history>>

\* The same payer is charged for other posts meanwhile.
OtherCharge(x) ==
  /\ RowFree(x) /\ balance[x] >= 1
  /\ balance' = [balance EXCEPT ![x] = @ - 1]
  /\ UNCHANGED <<posts, creating, engine, flags, upd, outages, tried, history>>

EngineEnds(p) ==
  /\ engine[p] = "running"
  /\ \E r \in {"done", "error"} : engine' = [engine EXCEPT ![p] = r]
  /\ UNCHANGED <<posts, creating, balance, flags, upd, outages, tried, history>>

-----------------------------------------------------------------------------
(* Time.                                                                    *)

\* The ages at which a job selects submitted posts.
InWindow(p) == status[p] = "Submitted" /\ age[p] \in {0, 2, 3}

\* A window is many times longer than the interval of the jobs: it passes without
\* an update of the post only when the jobs do not run.
GrowOlder(p) ==
  /\ status[p] # "none" /\ age[p] < 4
  /\ age' = [age EXCEPT ![p] = @ + 1]
  /\ IF ~InWindow(p) \/ p \in tried THEN UNCHANGED outages
     ELSE outages < MaxOutages /\ outages' = outages + 1
  /\ tried' = tried \ {p}
  /\ UNCHANGED <<payer, status, answerable, creating, balance, engine, flags, upd, history>>

CacheExpires(p) ==
  /\ p \in cached /\ cached' = cached \ {p}
  /\ UNCHANGED <<posts, creating, balance, engine, running, upd, outages, tried, history>>

-----------------------------------------------------------------------------
(* Updating a post.                                                         *)

Go(u, r) == upd' = [upd EXCEPT ![u] = r]

\* JobRunCheck, first half: the flag is read under the mutex, which is then given
\* up.  A job selects posts by their age; others, of any age, by a recent action.
JobCheck(j, p) ==
  /\ upd[j].pc = "idle"
  /\ status[p] # "none"
  /\ InWindow(p) \/ p \in AgentPosts
  /\ p \notin running
  /\ Go(j, [pc |-> "enter", post |-> p, answer |-> "none"])
  /\ UNCHANGED <<posts, creating, balance, engine, flags, outages, tried, history>>

HasResponse(p) == p \in answerable
\* Only a submitted post with a response id is polled.
Due(p) == status[p] = "Submitted" /\ p \in answerable

OverTwoDays(p) == age[p] >= 4
\* 30 hours after its creation a post is not polled any more but given up.
TooOld(p) == age[p] >= 3

\* The update reads the post; what it decides on may be out of date when it writes.
Read(u, p) ==
  /\ overlapped' = IF Working(p) # {} THEN overlapped \cup {p} ELSE overlapped
  /\ tried' = tried \cup {p}
  /\ IF TooOld(p)
       THEN Go(u, [pc |-> "write", post |-> p, answer |-> "expired"])
       ELSE Go(u, [pc |-> "poll", post |-> p, answer |-> "none"])

Unflagged(p) == running
Flagged(p) == running \cup {p}

\* Second half: the flag is set, whoever set it meanwhile; a cached post is left.
JobEnter(j) ==
  LET p == upd[j].post
  IN /\ upd[j].pc = "enter"
     /\ raced' = IF p \in running THEN raced \cup {p} ELSE raced
     /\ \/ /\ p \notin cached /\ Due(p)
           /\ running' = Flagged(p)
           /\ Read(j, p)
           /\ UNCHANGED cached
        \/ /\ p \in cached \/ ~Due(p)
           /\ running' = running \ {p}
           /\ cached' = cached \cup {p}
           /\ tried' = IF p \in cached THEN tried ELSE tried \cup {p}
           /\ Go(j, Idle)
           /\ UNCHANGED overlapped
     /\ UNCHANGED <<posts, creating, balance, engine, outages, credited, refunded>>

\* GetMissionStoreResult: the user who paid asks for the result, without the flag.
CallRead(c, p) ==
  /\ upd[c].pc = "idle"
  /\ p \in UserPosts /\ Due(p)
  /\ Read(c, p)
  /\ UNCHANGED <<posts, creating, balance, engine, flags, outages,
                 credited, refunded, raced>>

Leave(u, ok) ==
  LET p == upd[u].post
  IN /\ Go(u, Idle)
     /\ running' = IF u \in Jobs THEN running \ {p} ELSE running
     /\ cached' = IF u \in Jobs /\ ok THEN cached \cup {p} ELSE cached

\* The engine is asked outside any transaction; the request may fail.
Poll(u) ==
  /\ upd[u].pc = "poll"
  /\ \/ /\ Go(u, [upd[u] EXCEPT !.pc = "write", !.answer = engine[upd[u].post]])
        /\ UNCHANGED flags
     \/ Leave(u, FALSE)
  /\ UNCHANGED <<posts, creating, balance, engine, outages, tried, history>>

\* The post gets the status the answer calls for, whatever it is by now.
NewStatus(p, answer) ==
  CASE answer = "done"                 -> "Resolved"
    [] answer \in {"error", "expired"} -> "Failed"
    [] OTHER                           -> status[p]

Write(u) ==
  LET p == upd[u].post
      pays == upd[u].answer = "done" /\ StoreFee[p] > 0
  IN /\ upd[u].pc = "write"
     /\ status' = [status EXCEPT ![p] = NewStatus(p, upd[u].answer)]
     /\ credited' = IF pays THEN [credited EXCEPT ![p] = @ + 1] ELSE credited
     /\ Leave(u, TRUE)
     /\ UNCHANGED <<payer, answerable, age, creating, balance, engine, outages, tried,
                    refunded, raced, overlapped>>

\* The database refuses the write or the process dies.
WriteFails(u) ==
  /\ upd[u].pc = "write"
  /\ outages < MaxOutages /\ outages' = outages + 1
  /\ Leave(u, FALSE)
  /\ UNCHANGED <<posts, creating, balance, engine, tried, history>>

-----------------------------------------------------------------------------
ErrorsOnly(p) == p \in AgentPosts /\ status[p] = "Error"
\* The refund reads the post with a row lock and checks its status again.
Refundable(p) == p \in AgentPosts /\ status[p] = "Failed"

AgentSnapshotPostStatusInferRefund(p) ==
  /\ Refundable(p) /\ RowFree(payer[p])
  /\ status' = [status EXCEPT ![p] = "Refund"]
  /\ balance' = [balance EXCEPT ![payer[p]] = @ + Fee[p]]
  /\ refunded' = [refunded EXCEPT ![p] = @ + 1]
  /\ UNCHANGED <<payer, answerable, age, creating, engine, flags, upd, outages, tried,
                 credited, raced, overlapped>>

-----------------------------------------------------------------------------
Create(p) ==
  \/ CreateRead(p) \/ CreateCharge(p) \/ CreateSend(p) \/ CreateSendFails(p)
  \/ CreateCommit(p) \/ CreateRollback(p)

Update(u) ==
  \/ \E p \in Posts : u \in Jobs /\ JobCheck(u, p)
  \/ \E p \in Posts : u \in Calls /\ CallRead(u, p)
  \/ JobEnter(u) \/ Poll(u) \/ Write(u) \/ WriteFails(u)

Next ==
  \/ \E p \in Posts :
       \/ Create(p) \/ EngineEnds(p) \/ GrowOlder(p) \/ CacheExpires(p)
       \/ AgentSnapshotPostStatusInferRefund(p)
  \/ \E x \in Payers : OtherCharge(x)
  \/ \E u \in Updaters : Update(u)

Spec == Init /\ [][Next]_vars

\* Every job gets round to every post in its window, an update begun is finished,
\* entries expire and time passes.
Fairness ==
  /\ \A p \in Posts :
       /\ WF_vars(CreateCommit(p) \/ CreateRollback(p))
       /\ WF_vars(CreateCharge(p)) /\ WF_vars(CreateSend(p) \/ CreateSendFails(p))
       /\ WF_vars(GrowOlder(p)) /\ WF_vars(CacheExpires(p))
       /\ SF_vars(AgentSnapshotPostStatusInferRefund(p))
       /\ \A j \in Jobs : SF_vars(InWindow(p) /\ JobCheck(j, p))
  /\ \A u \in Updaters : WF_vars(JobEnter(u) \/ Poll(u) \/ Write(u))

FairSpec == Spec /\ Fairness
=============================================================================
