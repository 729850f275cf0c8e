------------------------- MODULE AgentInferenceProofs -------------------------
(***************************************************************************)
(* Theorems about the fee of an inference in the agent backend, for every  *)
(* number of posts, jobs and API calls and every fee: the types (with them *)
(* that no balance becomes negative), that jobs exclude each other by the  *)
(* flag of a post, and that a post is settled once.                        *)
(***************************************************************************)
EXTENDS AgentInferenceProps, TLAPS

\* The transaction of p holds the row lock of its payer.
Holds(p) == creating[p] \in {"charged", "sent"}

\* One transaction at a time holds the row of a payer, and the balance covers its fee.
Locked ==
  \A p \in Posts : Holds(p) =>
    /\ balance[payer[p]] >= Fee[p]
    /\ \A q \in Posts : payer[q] = payer[p] /\ Holds(q) => q = p

\* A post can be seen once its transaction has committed.
Committed == \A p \in Posts : status[p] = "none" <=> creating[p] # "done"

\* An update is about a committed post; an API call skips the flag and is about a user's post.
UpdatesOK ==
  \A u \in Updaters :
    /\ upd[u].pc # "idle" => upd[u].post \in Posts /\ status[upd[u].post] # "none"
    /\ u \in Calls => upd[u].pc # "enter"
    /\ u \in Calls /\ upd[u].pc \in {"poll", "write"} => upd[u].post \in UserPosts

TypeInv == TypeOK /\ Locked /\ Committed /\ UpdatesOK

AtWork(u, p) == upd[u].post = p /\ upd[u].pc \in {"poll", "write"}

\* The job at work on a post has flagged it and is alone, unless two entered together.
Exclusive ==
  \A p \in Posts \ raced : \A j \in Jobs : AtWork(j, p) =>
    /\ p \in running
    /\ \A k \in Jobs : AtWork(k, p) => k = j

ExclusionInv == TypeInv /\ Exclusive /\ JobsExcludeEachOther

\* The update at work on a post is alone, and finds the post as it read it.
Alone ==
  \A p \in Posts \ overlapped : \A u \in Updaters : AtWork(u, p) =>
    /\ status[p] = "Submitted"
    /\ \A v \in Updaters : AtWork(v, p) => v = u

SettledInv == TypeInv /\ Alone /\ SettledOnce

-----------------------------------------------------------------------------
(* Types.                                                                   *)

LEMMA InitTypes == Init => TypeInv
<1> SUFFICES ASSUME Init PROVE TypeInv
  OBVIOUS
<1>1. TypeOK
  BY InferenceAssumption DEF Init, TypeOK, Payers, Statuses, Ages, Idle
<1>2. Locked /\ Committed /\ UpdatesOK
  BY DEF Init, Locked, Holds, Committed, UpdatesOK, Idle
<1> QED BY <1>1, <1>2 DEF TypeInv

\* The steps of the transaction that creates a post respect the row lock.
LEMMA CreateTypes == ASSUME TypeInv, NEW p \in Posts, Create(p) PROVE TypeInv'
<1> USE DEF posts, flags, history, Creating
<1>1. TypeOK'
  <2> USE DEF TypeInv, TypeOK
  <2>1. CASE CreateCommit(p)
    <3>1. payer[p] \in Payers /\ balance[payer[p]] - Fee[p] \in Nat
      <4>1. payer[p] \in Payers /\ balance[payer[p]] \in Nat /\ Fee[p] \in Nat
        BY InferenceAssumption
      <4>2. balance[payer[p]] >= Fee[p]
        BY <2>1 DEF CreateCommit, Locked, Holds
      <4> QED BY <4>1, <4>2
    <3>2. balance' \in [Payers -> Nat]
      BY <2>1, <3>1 DEF CreateCommit
    <3>3. status' \in [Posts -> Statuses]
      BY <2>1 DEF CreateCommit, Statuses
    <3> QED BY <2>1, <3>2, <3>3 DEF CreateCommit
  <2>2. CASE CreateRead(p) \/ CreateCharge(p)
    BY <2>2 DEF CreateRead, CreateCharge
  <2>3. CASE CreateSend(p) \/ CreateSendFails(p) \/ CreateRollback(p)
    BY <2>3 DEF CreateSend, CreateSendFails, CreateRollback, Statuses
  <2> QED BY <2>1, <2>2, <2>3 DEF Create
<1>2. Locked'
  <2> USE DEF TypeInv, TypeOK, Locked, Holds
  <2>1. CASE CreateCharge(p)
    <3>1. balance[payer[p]] \in Nat /\ Fee[p] \in Nat
      BY InferenceAssumption
    <3> QED BY <2>1, <3>1 DEF CreateCharge, RowFree, Overdrawn
  <2>2. CASE CreateCommit(p)
    BY <2>2 DEF CreateCommit
  <2>3. CASE CreateRead(p) \/ CreateSend(p) \/ CreateSendFails(p) \/ CreateRollback(p)
    BY <2>3 DEF CreateRead, CreateSend, CreateSendFails, CreateRollback
  <2> QED BY <2>1, <2>2, <2>3 DEF Create
<1>3. Committed' /\ \A q \in Posts : status[q] # "none" => status'[q] # "none"
  BY DEF TypeInv, TypeOK, Committed, Create, CreateRead, CreateCharge, CreateSend,
         CreateSendFails, CreateCommit, CreateRollback
<1>4. UNCHANGED <<payer, upd>>
  BY DEF Create, CreateRead, CreateCharge, CreateSend, CreateSendFails, CreateCommit,
         CreateRollback
<1>5. UpdatesOK'
  BY <1>3, <1>4 DEF TypeInv, UpdatesOK, UserPosts, AgentPosts
<1> QED BY <1>1, <1>2, <1>3, <1>5 DEF TypeInv

\* Charges for other posts and refunds wait for the row lock.
LEMMA OtherTypes ==
  ASSUME TypeInv,
         \/ \E p \in Posts : EngineEnds(p) \/ GrowOlder(p) \/ CacheExpires(p)
                             \/ AgentSnapshotPostStatusInferRefund(p)
         \/ \E x \in Payers : OtherCharge(x)
  PROVE  TypeInv'
<1> USE DEF TypeInv, TypeOK, Locked, Holds, Committed, UpdatesOK, UserPosts, AgentPosts,
            posts, flags, history, Statuses
<1>1. ASSUME NEW p \in Posts, EngineEnds(p) PROVE TypeInv'
  BY <1>1 DEF EngineEnds
<1>2. ASSUME NEW p \in Posts, GrowOlder(p) PROVE TypeInv'
  BY <1>2, InferenceAssumption DEF GrowOlder, Ages
<1>3. ASSUME NEW p \in Posts, CacheExpires(p) PROVE TypeInv'
  BY <1>3 DEF CacheExpires
<1>4. ASSUME NEW p \in Posts, AgentSnapshotPostStatusInferRefund(p) PROVE TypeInv'
  <2> USE DEF AgentSnapshotPostStatusInferRefund
  <2>1. payer[p] \in Payers /\ balance[payer[p]] + Fee[p] \in Nat
    BY InferenceAssumption
  <2>2. balance' \in [Payers -> Nat] /\ status' \in [Posts -> Statuses]
        /\ refunded' \in [Posts -> Nat]
    BY <1>4, <2>1
  <2>3. TypeOK'
    BY <1>4, <2>2
  <2>4. Locked'
    BY <1>4 DEF RowFree
  <2>5. Committed' /\ UpdatesOK'
    BY <1>4 DEF Refundable
  <2> QED BY <2>3, <2>4, <2>5
<1>5. ASSUME NEW x \in Payers, OtherCharge(x) PROVE TypeInv'
  BY <1>5 DEF OtherCharge, RowFree
<1> QED BY <1>1, <1>2, <1>3, <1>4, <1>5

\* What an update may turn into: a state about a post, which is a user's post when an
\* API call works on it.
Becomes(u, r) ==
  /\ r \in [pc : {"idle", "enter", "poll", "write"}, post : Posts \cup {NoPost},
            answer : {"none", "running", "done", "error", "expired"}]
  /\ r.pc # "idle" => r.post \in Posts /\ status[r.post] # "none"
  /\ u \in Calls => r.pc # "enter"
  /\ u \in Calls /\ r.pc \in {"poll", "write"} => r.post \in UserPosts

\* Updates touch no balance and no transaction, and give a post no state before it commits.
LEMMA GoTypes ==
  ASSUME TypeInv, NEW u \in Updaters, NEW r, Becomes(u, r), Go(u, r),
         UNCHANGED <<payer, answerable, age, creating, balance, engine, refunded>>,
         \A p \in Posts : status'[p] # status[p] => "none" \notin {status[p], status'[p]},
         status' \in [Posts -> Statuses], credited' \in [Posts -> Nat],
         running' \subseteq Posts, cached' \subseteq Posts, outages' \in 0..MaxOutages,
         tried' \subseteq Posts, raced' \subseteq Posts, overlapped' \subseteq Posts
  PROVE  TypeInv'
<1>1. /\ upd' = [upd EXCEPT ![u] = r]
      /\ upd' \in [Updaters ->
                     [pc : {"idle", "enter", "poll", "write"}, post : Posts \cup {NoPost},
                      answer : {"none", "running", "done", "error", "expired"}]]
  BY DEF TypeInv, TypeOK, Becomes, Go
<1>2. TypeOK'
  BY <1>1 DEF TypeInv, TypeOK
<1>3. \A p \in Posts : status[p] # "none" => status'[p] # "none"
  OBVIOUS
<1>4. UpdatesOK'
  BY <1>1, <1>3 DEF TypeInv, TypeOK, UpdatesOK, Becomes, UserPosts, AgentPosts
<1>5. Locked' /\ Committed'
  BY DEF TypeInv, Locked, Holds, Committed
<1> QED BY <1>2, <1>4, <1>5 DEF TypeInv

\* Updates of a post.
LEMMA UpdateTypes == ASSUME TypeInv, NEW u \in Updaters, Update(u) PROVE TypeInv'
<1> DEFINE q == upd[u].post
<1>1. /\ upd[u] \in [pc : {"idle", "enter", "poll", "write"}, post : Posts \cup {NoPost},
                      answer : {"none", "running", "done", "error", "expired"}]
      /\ upd[u].pc # "idle" => q \in Posts /\ status[q] # "none"
      /\ u \in Calls => upd[u].pc # "enter"
      /\ u \in Calls /\ upd[u].pc \in {"poll", "write"} => q \in UserPosts
  BY DEF TypeInv, TypeOK, UpdatesOK
<1>2. /\ status \in [Posts -> Statuses] /\ credited \in [Posts -> Nat]
      /\ running \subseteq Posts /\ cached \subseteq Posts /\ outages \in 0..MaxOutages
      /\ tried \subseteq Posts /\ raced \subseteq Posts /\ overlapped \subseteq Posts
  BY DEF TypeInv, TypeOK
<1>3. ASSUME NEW p \in Posts, u \in Jobs, JobCheck(u, p) PROVE TypeInv'
  <2>1. Becomes(u, [pc |-> "enter", post |-> p, answer |-> "none"])
    BY <1>3, InferenceAssumption DEF Becomes, JobCheck
  <2> QED BY <2>1, <1>2, <1>3, GoTypes DEF JobCheck, posts, flags, history
<1>4. ASSUME NEW p \in Posts, u \in Calls => p \in UserPosts, status[p] # "none", Read(u, p),
             UNCHANGED <<posts, creating, balance, engine, outages, credited, refunded>>,
             running' \subseteq Posts, cached' \subseteq Posts, raced' \subseteq Posts
      PROVE  TypeInv'
  <2>1. /\ Becomes(u, [pc |-> "write", post |-> p, answer |-> "expired"])
        /\ Becomes(u, [pc |-> "poll", post |-> p, answer |-> "none"])
    BY <1>4 DEF Becomes
  <2>2. tried' \subseteq Posts /\ overlapped' \subseteq Posts
    BY <1>2, <1>4 DEF Read
  <2>3. CASE TooOld(p)
    BY <2>1, <2>2, <2>3, <1>2, <1>4, GoTypes DEF Read, posts
  <2>4. CASE ~TooOld(p)
    BY <2>1, <2>2, <2>4, <1>2, <1>4, GoTypes DEF Read, posts
  <2> QED BY <2>3, <2>4
<1>5. Becomes(u, Idle)
  BY DEF Becomes, Idle
<1>6. CASE JobEnter(u)
  <2>1. q \in Posts /\ status[q] # "none" /\ u \notin Calls
    BY <1>1, <1>6 DEF JobEnter
  <2>2. /\ UNCHANGED <<posts, creating, balance, engine, outages, credited, refunded>>
        /\ running' \subseteq Posts /\ cached' \subseteq Posts /\ raced' \subseteq Posts
    BY <1>2, <1>6, <2>1 DEF JobEnter, Flagged
  <2>3. \/ Read(u, q)
        \/ Go(u, Idle) /\ UNCHANGED overlapped /\ tried' \in {tried, tried \cup {q}}
    BY <1>6 DEF JobEnter
  <2>4. CASE Read(u, q)
    BY <1>4, <2>1, <2>2, <2>4
  <2>5. CASE Go(u, Idle) /\ UNCHANGED overlapped /\ tried' \in {tried, tried \cup {q}}
    BY <1>2, <1>5, <2>1, <2>2, <2>5, GoTypes DEF posts
  <2> QED BY <2>3, <2>4, <2>5
<1>7. ASSUME NEW p \in Posts, u \in Calls, CallRead(u, p) PROVE TypeInv'
  BY <1>2, <1>4, <1>7 DEF CallRead, Due, flags
<1>8. ASSUME q \in Posts, NEW ok \in BOOLEAN, Leave(u, ok)
      PROVE  Go(u, Idle) /\ running' \subseteq Posts /\ cached' \subseteq Posts
  BY <1>2, <1>8 DEF Leave
<1>9. CASE Poll(u)
  <2>1. q \in Posts /\ status[q] # "none"
    BY <1>1, <1>9 DEF Poll
  <2>2. CASE Leave(u, FALSE)
    BY <2>1, <2>2, <1>2, <1>5, <1>8, <1>9, GoTypes DEF Poll, posts, history
  <2>3. CASE Go(u, [upd[u] EXCEPT !.pc = "write", !.answer = engine[q]]) /\ UNCHANGED flags
    <3>1. engine[q] \in {"none", "running", "done", "error"}
      BY <2>1 DEF TypeInv, TypeOK
    <3>2. upd[u].pc = "poll"
      BY <1>9 DEF Poll
    <3>3. Becomes(u, [upd[u] EXCEPT !.pc = "write", !.answer = engine[q]])
      BY <3>1, <3>2, <2>1, <1>1 DEF Becomes
    <3> QED BY <3>3, <2>3, <1>2, <1>9, GoTypes DEF Poll, posts, flags, history
  <2> QED BY <1>9, <2>2, <2>3 DEF Poll
<1>10. CASE Write(u)
  <2>1. q \in Posts /\ status[q] # "none"
    BY <1>1, <1>10 DEF Write
  <2>2. /\ NewStatus(q, upd[u].answer) \in {"Resolved", "Failed", status[q]}
        /\ status' = [status EXCEPT ![q] = NewStatus(q, upd[u].answer)]
    BY <1>10 DEF Write, NewStatus
  <2>3. /\ status' \in [Posts -> Statuses]
        /\ \A p \in Posts : status'[p] # status[p] => "none" \notin {status[p], status'[p]}
    BY <1>2, <2>1, <2>2 DEF Statuses
  <2>4. credited' \in [Posts -> Nat]
    BY <1>2, <2>1, <1>10 DEF Write
  <2>5. Leave(u, TRUE) /\ UNCHANGED <<payer, answerable, age, creating, balance, engine,
                                      outages, tried, refunded, raced, overlapped>>
    BY <1>10 DEF Write
  <2> QED BY <2>1, <2>3, <2>4, <2>5, <1>2, <1>5, <1>8, GoTypes
<1>11. CASE WriteFails(u)
  <2>1. q \in Posts /\ outages' \in 0..MaxOutages
    BY <1>1, <1>2, <1>11, InferenceAssumption DEF WriteFails
  <2> QED BY <2>1, <1>2, <1>5, <1>8, <1>11, GoTypes DEF WriteFails, posts, history
<1> QED BY <1>3, <1>6, <1>7, <1>9, <1>10, <1>11 DEF Update

LEMMA NextTypes == TypeInv /\ [Next]_vars => TypeInv'
<1> SUFFICES ASSUME TypeInv, [Next]_vars PROVE TypeInv'
  OBVIOUS
<1>1. CASE UNCHANGED vars
  BY <1>1 DEF vars, posts, flags, history, TypeInv, TypeOK, Locked, Holds, Committed,
              UpdatesOK, UserPosts, AgentPosts
<1>2. CASE Next
  BY <1>2, CreateTypes, OtherTypes, UpdateTypes DEF Next
<1> QED BY <1>1, <1>2

\* In every reachable state the variables have their types; in particular no balance is
\* negative, because a charge tests it under the lock that the commit still holds.
THEOREM TypeCorrect == Spec => []TypeOK
<1>1. TypeInv => TypeOK
  BY DEF TypeInv
<1> QED BY InitTypes, NextTypes, <1>1, PTL DEF Spec

-----------------------------------------------------------------------------
(* Jobs exclude each other.                                                 *)

\* The steps that are not updates leave the updates and their flags alone.
LEMMA NoUpdate ==
  ASSUME [Next]_vars, ~\E u \in Updaters : Update(u)
  PROVE  UNCHANGED <<payer, upd, running, raced, overlapped>>
<1>1. CASE UNCHANGED vars
  BY <1>1 DEF vars, posts, flags, history
<1>2. ASSUME NEW p \in Posts, Create(p)
      PROVE  UNCHANGED <<payer, upd, running, raced, overlapped>>
  BY <1>2 DEF Create, CreateRead, CreateCharge, CreateSend, CreateSendFails, CreateCommit,
              CreateRollback, posts, flags, history
<1>3. ASSUME NEW p \in Posts, EngineEnds(p) \/ GrowOlder(p) \/ CacheExpires(p)
      PROVE  UNCHANGED <<payer, upd, running, raced, overlapped>>
  BY <1>3 DEF EngineEnds, GrowOlder, CacheExpires, posts, flags, history
<1>4. ASSUME NEW p \in Posts, AgentSnapshotPostStatusInferRefund(p)
      PROVE  UNCHANGED <<payer, upd, running, raced, overlapped>>
  BY <1>4 DEF AgentSnapshotPostStatusInferRefund, flags
<1>5. ASSUME NEW x \in Payers, OtherCharge(x)
      PROVE  UNCHANGED <<payer, upd, running, raced, overlapped>>
  BY <1>5 DEF OtherCharge, posts, flags, history
<1> QED BY <1>1, <1>2, <1>3, <1>4, <1>5 DEF Next

\* Who is at work on what, after the state of one update is replaced.
LEMMA GoWork ==
  ASSUME TypeInv, NEW u \in Updaters, NEW r, Go(u, r)
  PROVE  \A v \in Updaters, p \in Posts :
           AtWork(v, p)' <=> IF v = u THEN r.post = p /\ r.pc \in {"poll", "write"}
                             ELSE AtWork(v, p)
BY DEF TypeInv, TypeOK, Go, AtWork

\* Reading a post begins work on it.
LEMMA ReadWork ==
  ASSUME TypeInv, NEW u \in Updaters, NEW q \in Posts, Read(u, q)
  PROVE  \A v \in Updaters, p \in Posts :
           AtWork(v, p)' <=> IF v = u THEN p = q ELSE AtWork(v, p)
<1>1. CASE TooOld(q)
  BY <1>1, GoWork DEF Read
<1>2. CASE ~TooOld(q)
  BY <1>2, GoWork DEF Read
<1> QED BY <1>1, <1>2

\* An update ends, or asks the engine: nobody enters.
LEMMA LeaveExclusive ==
  ASSUME ExclusionInv, NEW u \in Updaters, Poll(u) \/ Write(u) \/ WriteFails(u)
  PROVE  Exclusive' /\ JobsExcludeEachOther'
<1> DEFINE q == upd[u].post
<1>1. TypeInv /\ Exclusive /\ JobsExcludeEachOther
  BY DEF ExclusionInv
<1>2. q \in Posts /\ AtWork(u, q) /\ UNCHANGED <<payer, raced, overlapped>>
  BY <1>1 DEF TypeInv, UpdatesOK, AtWork, Poll, Write, WriteFails, posts, flags, history
<1>3. JobsExcludeEachOther'
  BY <1>1, <1>2 DEF JobsExcludeEachOther, AgentPosts
<1>4. ASSUME NEW ok \in BOOLEAN, Leave(u, ok) PROVE Exclusive'
  <2>1. \A v \in Updaters, p \in Posts : AtWork(v, p)' => AtWork(v, p) /\ v # u
    BY <1>1, <1>4, GoWork DEF Leave, Idle
  <2>2. running' = IF u \in Jobs THEN running \ {q} ELSE running
    BY <1>4 DEF Leave
  <2> QED BY <1>1, <1>2, <2>1, <2>2 DEF Exclusive, Updaters
<1>5. ASSUME Go(u, [upd[u] EXCEPT !.pc = "write", !.answer = engine[q]]), UNCHANGED flags
      PROVE  Exclusive'
  <2>1. upd[u] \in [pc : {"idle", "enter", "poll", "write"}, post : Posts \cup {NoPost},
                    answer : {"none", "running", "done", "error", "expired"}]
    BY <1>1 DEF TypeInv, TypeOK
  <2> DEFINE r == [upd[u] EXCEPT !.pc = "write", !.answer = engine[q]]
  <2>2. r.post = q
    BY <2>1
  <2> HIDE DEF r
  <2>3. \A v \in Updaters, p \in Posts : AtWork(v, p)' => AtWork(v, p)
    <3>1. Go(u, r)
      BY <1>5 DEF r
    <3> QED BY <1>1, <1>2, <2>2, <3>1, GoWork DEF AtWork
  <2> QED BY <1>1, <1>2, <1>5, <2>3 DEF Exclusive, Updaters, flags
<1> QED BY <1>3, <1>4, <1>5 DEF Poll, Write, WriteFails

\* A job enters: either nobody had the post's flag, and no job is at work on it, or two
\* jobs found it free together.
LEMMA EnterExclusive ==
  ASSUME ExclusionInv, NEW u \in Updaters, JobEnter(u)
  PROVE  Exclusive' /\ JobsExcludeEachOther'
<1> DEFINE q == upd[u].post
<1>1. TypeInv /\ Exclusive /\ JobsExcludeEachOther
  BY DEF ExclusionInv
<1>2. /\ q \in Posts /\ u \in Jobs
      /\ UNCHANGED payer /\ raced' = IF q \in running THEN raced \cup {q} ELSE raced
  BY <1>1 DEF TypeInv, UpdatesOK, JobEnter, posts, Updaters
<1>3. \A k \in Jobs : q \notin raced' => ~AtWork(k, q)
  BY <1>1, <1>2 DEF Exclusive
<1>4. CASE Read(u, q) /\ running' = Flagged(q)
  <2>1. \A v \in Updaters, p \in Posts : AtWork(v, p)' => AtWork(v, p) \/ (v = u /\ p = q)
    BY <1>1, <1>2, <1>4, ReadWork
  <2>2. Exclusive'
    BY <1>1, <1>2, <1>3, <1>4, <2>1 DEF Exclusive, Updaters, Flagged
  <2>3. ASSUME q \in AgentPosts, q \notin raced' PROVE overlapped' = overlapped
    <3>1. \A v \in Calls : ~AtWork(v, q)
      BY <1>1, <2>3 DEF TypeInv, UpdatesOK, AtWork, UserPosts, Updaters
    <3>2. Working(q) = {}
      BY <1>3, <2>3, <3>1 DEF Working, AtWork, Updaters
    <3> QED BY <1>4, <3>2 DEF Read
  <2>4. overlapped' \subseteq overlapped \cup {q}
    BY <1>4 DEF Read
  <2>5. AgentPosts' = AgentPosts /\ raced \subseteq raced'
    BY <1>2 DEF AgentPosts
  <2> QED BY <1>1, <2>2, <2>3, <2>4, <2>5 DEF JobsExcludeEachOther
<1>5. CASE Go(u, Idle) /\ running' = running \ {q} /\ UNCHANGED overlapped
  <2>1. \A v \in Updaters, p \in Posts : AtWork(v, p)' => AtWork(v, p) /\ v # u
    BY <1>1, <1>5, GoWork DEF Idle
  <2>2. Exclusive'
    BY <1>1, <1>2, <1>3, <1>5, <2>1 DEF Exclusive, Updaters
  <2> QED BY <1>1, <1>2, <1>5, <2>2 DEF JobsExcludeEachOther, AgentPosts
<1> QED BY <1>4, <1>5 DEF JobEnter

LEMMA UpdateExclusive ==
  ASSUME ExclusionInv, NEW u \in Updaters, Update(u)
  PROVE  Exclusive' /\ JobsExcludeEachOther'
<1>1. TypeInv /\ Exclusive /\ JobsExcludeEachOther
  BY DEF ExclusionInv
<1>2. ASSUME NEW p \in Posts, u \in Jobs, JobCheck(u, p)
      PROVE  Exclusive' /\ JobsExcludeEachOther'
  <2>1. \A v \in Updaters, o \in Posts : AtWork(v, o)' => AtWork(v, o)
    BY <1>1, <1>2, GoWork DEF JobCheck
  <2>2. UNCHANGED <<payer, running, raced, overlapped>>
    BY <1>2 DEF JobCheck, posts, flags, history
  <2> QED BY <1>1, <2>1, <2>2 DEF Exclusive, Updaters, JobsExcludeEachOther, AgentPosts
<1>3. ASSUME NEW p \in Posts, u \in Calls, CallRead(u, p)
      PROVE  Exclusive' /\ JobsExcludeEachOther'
  <2>1. \A v \in Updaters, o \in Posts : AtWork(v, o)' => AtWork(v, o) \/ v = u
    BY <1>1, <1>3, ReadWork DEF CallRead
  <2>2. u \notin Jobs
    BY <1>3, InferenceAssumption
  <2>3. UNCHANGED <<payer, running, raced>> /\ overlapped' \subseteq overlapped \cup {p}
    BY <1>3 DEF CallRead, Read, posts, flags
  <2>4. AgentPosts' = AgentPosts /\ p \notin AgentPosts
    BY <1>3, <2>3 DEF CallRead, UserPosts, AgentPosts
  <2> QED BY <1>1, <2>1, <2>2, <2>3, <2>4 DEF Exclusive, Updaters, JobsExcludeEachOther
<1> QED BY <1>2, <1>3, LeaveExclusive, EnterExclusive DEF Update

\* Jobs work on the post of an agent at the same time only after two of them found its flag
\* free before either had set it: the flag is checked and set in two critical sections, and
\* that gap is the only way around it.
THEOREM JobsExclude == Spec => []JobsExcludeEachOther
<1>1. Init => ExclusionInv
  BY InitTypes DEF Init, ExclusionInv, Exclusive, AtWork, Idle, JobsExcludeEachOther, Updaters
<1>2. ExclusionInv /\ [Next]_vars => ExclusionInv'
  <2> SUFFICES ASSUME ExclusionInv, [Next]_vars PROVE ExclusionInv'
    OBVIOUS
  <2>1. TypeInv'
    BY NextTypes DEF ExclusionInv
  <2>2. CASE ~\E u \in Updaters : Update(u)
    BY <2>1, <2>2, NoUpdate DEF ExclusionInv, Exclusive, AtWork, JobsExcludeEachOther,
                                AgentPosts
  <2> QED BY <2>1, <2>2, UpdateExclusive DEF ExclusionInv
<1>3. ExclusionInv => JobsExcludeEachOther
  BY DEF ExclusionInv
<1> QED BY <1>1, <1>2, <1>3, PTL DEF Spec
-----------------------------------------------------------------------------
(* A post is settled once.                                                  *)

\* A transaction that commits gives its post the first status it has.
LEMMA CreateSettled ==
  ASSUME SettledInv, NEW p \in Posts, Create(p)
  PROVE  Alone' /\ SettledOnce'
<1>1. /\ TypeInv /\ Alone /\ SettledOnce
      /\ status \in [Posts -> Statuses]
  BY DEF SettledInv, TypeInv, TypeOK
<1>2. UNCHANGED <<upd, overlapped, credited, refunded>>
  BY DEF Create, CreateRead, CreateCharge, CreateSend, CreateSendFails, CreateCommit,
         CreateRollback, posts, history
<1>3. CASE UNCHANGED status
  BY <1>1, <1>2, <1>3 DEF Alone, AtWork, SettledOnce
<1>4. ASSUME NEW s \in {"Submitted", "Error"}, status[p] = "none",
             status' = [status EXCEPT ![p] = s]
      PROVE  Alone' /\ SettledOnce'
  BY <1>1, <1>2, <1>4 DEF Alone, AtWork, SettledOnce
<1>5. creating[p] # "done" => status[p] = "none"
  BY <1>1 DEF TypeInv, Committed
<1>6. \/ UNCHANGED status
      \/ /\ creating[p] # "done"
         /\ \E s \in {"Submitted", "Error"} : status' = [status EXCEPT ![p] = s]
  BY DEF Create, CreateRead, CreateCharge, CreateSend, CreateSendFails, CreateCommit,
         CreateRollback, posts, Creating
<1> QED BY <1>3, <1>4, <1>5, <1>6

\* The refund finds a failed post, on which no update is at work.
LEMMA RefundSettled ==
  ASSUME SettledInv, NEW p \in Posts, AgentSnapshotPostStatusInferRefund(p)
  PROVE  Alone' /\ SettledOnce'
<1>1. /\ TypeInv /\ Alone /\ SettledOnce
      /\ status \in [Posts -> Statuses] /\ refunded \in [Posts -> Nat]
  BY DEF SettledInv, TypeInv, TypeOK
<1>2. /\ status[p] = "Failed" /\ status' = [status EXCEPT ![p] = "Refund"]
      /\ refunded' = [refunded EXCEPT ![p] = @ + 1]
      /\ UNCHANGED <<upd, overlapped, credited>>
  BY DEF AgentSnapshotPostStatusInferRefund, Refundable
<1>3. Alone'
  BY <1>1, <1>2 DEF Alone, AtWork
<1>4. SettledOnce'
  BY <1>1, <1>2 DEF SettledOnce
<1> QED BY <1>3, <1>4

\* The other steps outside updates move no status and pay nobody.
LEMMA OtherSettled ==
  ASSUME SettledInv,
         \/ \E p \in Posts : EngineEnds(p) \/ GrowOlder(p) \/ CacheExpires(p)
         \/ \E x \in Payers : OtherCharge(x)
  PROVE  Alone' /\ SettledOnce'
<1>1. UNCHANGED <<upd, overlapped, credited, refunded, status>>
  BY DEF EngineEnds, GrowOlder, CacheExpires, OtherCharge, posts, history
<1> QED BY <1>1 DEF SettledInv, Alone, AtWork, SettledOnce

\* An update that starts work finds the post submitted, and shows when it is not alone.
LEMMA ReadSettled ==
  ASSUME SettledInv, NEW u \in Updaters, NEW q \in Posts, Due(q), Read(u, q),
         UNCHANGED <<status, credited, refunded>>
  PROVE  Alone' /\ SettledOnce'
<1>1. TypeInv /\ Alone /\ SettledOnce /\ overlapped \subseteq overlapped'
  BY DEF SettledInv, Read
<1>2. \A v \in Updaters, p \in Posts :
        AtWork(v, p)' <=> IF v = u THEN p = q ELSE AtWork(v, p)
  BY <1>1, ReadWork
<1>3. q \notin overlapped' => \A v \in Updaters : ~AtWork(v, q)
  BY DEF Read, Working, AtWork
<1>4. Alone'
  BY <1>1, <1>2, <1>3 DEF Alone, Due
<1>5. SettledOnce'
  BY <1>1 DEF SettledOnce
<1> QED BY <1>4, <1>5

\* Steps of an update that write nothing leave the post as it is.
LEMMA QuietSettled ==
  ASSUME SettledInv, UNCHANGED <<status, credited, refunded, overlapped>>,
         \A v \in Updaters, p \in Posts : AtWork(v, p)' => AtWork(v, p)
  PROVE  Alone' /\ SettledOnce'
BY DEF SettledInv, Alone, SettledOnce

\* The write of the only update of a post moves it from the submitted state, and pays the
\* owner as it resolves it.
LEMMA WriteSettled ==
  ASSUME SettledInv, NEW u \in Updaters, Write(u)
  PROVE  Alone' /\ SettledOnce'
<1> DEFINE q == upd[u].post
<1>1. /\ TypeInv /\ Alone /\ SettledOnce
      /\ status \in [Posts -> Statuses] /\ credited \in [Posts -> Nat]
  BY DEF SettledInv, TypeInv, TypeOK
<1>2. q \in Posts /\ AtWork(u, q) /\ UNCHANGED <<overlapped, refunded>>
  BY <1>1 DEF TypeInv, UpdatesOK, AtWork, Write
<1>3. \A v \in Updaters, p \in Posts : AtWork(v, p)' => AtWork(v, p) /\ v # u
  BY <1>1, GoWork DEF Write, Leave, Idle
<1>4. \A p \in Posts : p # q => status'[p] = status[p] /\ credited'[p] = credited[p]
  BY <1>1, <1>2 DEF Write
<1>5. Alone'
  BY <1>1, <1>2, <1>3, <1>4 DEF Alone
<1>6. ASSUME q \notin overlapped
      PROVE  credited'[q] = IF status'[q] = "Resolved" /\ StoreFee[q] > 0 THEN 1 ELSE 0
  <2>1. status[q] = "Submitted" /\ credited[q] = 0
    BY <1>1, <1>2, <1>6 DEF Alone, SettledOnce
  <2>2. status'[q] = NewStatus(q, upd[u].answer)
    BY <1>1, <1>2 DEF Write
  <2>3. status'[q] = "Resolved" <=> upd[u].answer = "done"
    BY <2>1, <2>2 DEF NewStatus
  <2> QED BY <1>1, <1>2, <2>1, <2>3 DEF Write
<1>7. ASSUME q \notin overlapped
      PROVE  refunded'[q] = IF status'[q] = "Refund" THEN 1 ELSE 0
  <2>1. status[q] = "Submitted" /\ refunded[q] = 0
    BY <1>1, <1>2, <1>7 DEF Alone, SettledOnce
  <2>2. status'[q] = NewStatus(q, upd[u].answer)
    BY <1>1, <1>2 DEF Write
  <2>3. status'[q] # "Refund"
    BY <2>1, <2>2 DEF NewStatus
  <2> QED BY <1>2, <2>1, <2>3
<1>8. SettledOnce'
  BY <1>1, <1>2, <1>4, <1>6, <1>7 DEF SettledOnce
<1> QED BY <1>5, <1>8

LEMMA UpdateSettled ==
  ASSUME SettledInv, NEW u \in Updaters, Update(u)
  PROVE  Alone' /\ SettledOnce'
<1> DEFINE q == upd[u].post
<1>1. TypeInv
  BY DEF SettledInv
<1>2. ASSUME NEW p \in Posts, JobCheck(u, p) PROVE Alone' /\ SettledOnce'
  <2>1. \A v \in Updaters, o \in Posts : AtWork(v, o)' => AtWork(v, o)
    BY <1>1, <1>2, GoWork DEF JobCheck
  <2> QED BY <1>2, <2>1, QuietSettled DEF JobCheck, posts, history
<1>3. ASSUME NEW p \in Posts, CallRead(u, p) PROVE Alone' /\ SettledOnce'
  BY <1>3, ReadSettled DEF CallRead, posts
<1>4. CASE JobEnter(u)
  <2>1. q \in Posts /\ UNCHANGED <<status, credited, refunded>>
    BY <1>1, <1>4 DEF TypeInv, UpdatesOK, JobEnter, posts
  <2>2. CASE Due(q) /\ Read(u, q)
    BY <2>1, <2>2, ReadSettled
  <2>3. CASE Go(u, Idle) /\ UNCHANGED overlapped
    <3>1. \A v \in Updaters, o \in Posts : AtWork(v, o)' => AtWork(v, o)
      BY <1>1, <2>3, GoWork DEF Idle
    <3> QED BY <2>1, <2>3, <3>1, QuietSettled
  <2> QED BY <1>4, <2>2, <2>3 DEF JobEnter
<1>5. ASSUME Poll(u) \/ WriteFails(u) PROVE Alone' /\ SettledOnce'
  <2>1. q \in Posts /\ AtWork(u, q) /\ UNCHANGED <<status, credited, refunded, overlapped>>
    BY <1>1, <1>5 DEF TypeInv, UpdatesOK, AtWork, Poll, WriteFails, posts, history
  <2>2. ASSUME Go(u, Idle) PROVE \A v \in Updaters, o \in Posts : AtWork(v, o)' => AtWork(v, o)
    BY <1>1, <2>2, GoWork DEF Idle
  <2> DEFINE r == [upd[u] EXCEPT !.pc = "write", !.answer = engine[q]]
  <2>3. r.post = q
    BY <1>1 DEF TypeInv, TypeOK
  <2> HIDE DEF r
  <2>4. ASSUME Go(u, r) PROVE \A v \in Updaters, o \in Posts : AtWork(v, o)' => AtWork(v, o)
    BY <1>1, <2>1, <2>3, <2>4, GoWork DEF AtWork
  <2>5. Go(u, Idle) \/ Go(u, r)
    BY <1>5 DEF Poll, WriteFails, Leave, r
  <2> QED BY <2>1, <2>2, <2>4, <2>5, QuietSettled
<1> QED BY <1>2, <1>3, <1>4, <1>5, WriteSettled DEF Update

\* As long as no two updates of a post overlap, its owner is paid once if it is resolved,
\* its payer is refunded once if it is refunded, and neither happens otherwise.
THEOREM PostSettledOnce == Spec => []SettledOnce
<1>1. Init => SettledInv
  BY InitTypes DEF Init, SettledInv, Alone, AtWork, Idle, SettledOnce
<1>2. SettledInv /\ [Next]_vars => SettledInv'
  <2> SUFFICES ASSUME SettledInv, [Next]_vars PROVE SettledInv'
    OBVIOUS
  <2>1. TypeInv'
    BY NextTypes DEF SettledInv
  <2>2. CASE UNCHANGED vars
    BY <2>1, <2>2 DEF vars, posts, history, SettledInv, Alone, AtWork, SettledOnce
  <2>3. CASE Next
    <3>1. Alone' /\ SettledOnce'
      BY <2>3, CreateSettled, RefundSettled, OtherSettled, UpdateSettled DEF Next
    <3> QED BY <2>1, <3>1 DEF SettledInv
  <2> QED BY <2>2, <2>3
<1>3. SettledInv => SettledOnce
  BY DEF SettledInv
<1> QED BY <1>1, <1>2, <1>3, PTL DEF Spec
=============================================================================
