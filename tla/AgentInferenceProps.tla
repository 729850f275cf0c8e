------------------------- MODULE AgentInferenceProps -------------------------
(* What an inference of the agent backend may cost and whom it may pay. *)
EXTENDS AgentInference

\* The posts, balances, flags and updates have their types; no balance is negative,
\* although the balance a charge is tested against was read before other charges of the
\* same payer.
TypeOK ==
  /\ payer \in [Posts -> Payers]
  /\ status \in [Posts -> Statuses] /\ age \in [Posts -> Ages]
  /\ answerable \subseteq Posts
  /\ creating \in [Posts -> {"none", "read", "charged", "sent", "done", "rolledBack"}]
  /\ balance \in [Payers -> Nat]
  /\ engine \in [Posts -> {"none", "running", "done", "error"}]
  /\ running \subseteq Posts /\ cached \subseteq Posts
  /\ upd \in [Updaters -> [pc : {"idle", "enter", "poll", "write"}, post : Posts \cup {NoPost},
                          answer : {"none", "running", "done", "error", "expired"}]]
  /\ outages \in 0..MaxOutages
  /\ credited \in [Posts -> Nat] /\ refunded \in [Posts -> Nat]
  /\ tried \subseteq Posts /\ raced \subseteq Posts /\ overlapped \subseteq Posts

\* As long as no two updates of a post overlap, however often the post is polled,
\* expires or is looked at again, its store owner was paid once if it is resolved and
\* never otherwise, and its fee was given back once if it is refunded and never
\* otherwise: no post both pays the owner and is refunded.
SettledOnce ==
  \A p \in Posts \ overlapped :
    /\ credited[p] = IF status[p] = "Resolved" /\ StoreFee[p] > 0 THEN 1 ELSE 0
    /\ refunded[p] = IF status[p] = "Refund" THEN 1 ELSE 0

\* Jobs work on one post at the same time only after two of them found its flag
\* free before either had set it.
JobsExcludeEachOther == overlapped \cap AgentPosts \subseteq raced

\* A post the engine gave an id leaves the submitted state, at the latest when it is
\* given up after 30 hours, unless no job runs during a window or a write fails.
AnswerableEnds ==
  \A p \in Posts :
    (status[p] = "Submitted" /\ p \in answerable) ~> (status[p] # "Submitted" \/ outages > 0)

\* The fee an agent was charged does not stay in between: a submitted post with an
\* engine id is at last resolved or refunded, however it is polled or given up, unless
\* no job runs during a window or a write fails; and a failed post is refunded even then,
\* unless a second update that worked on it at the same time resolved it.
AgentFeeSettles ==
  \A p \in Posts :
    /\ (payer[p] = "agent" /\ status[p] = "Submitted" /\ p \in answerable) ~>
         (status[p] = "Resolved" \/ refunded[p] > 0 \/ outages > 0)
    /\ (payer[p] = "agent" /\ status[p] = "Failed") ~>
         (refunded[p] > 0 \/ (status[p] = "Resolved" /\ p \in overlapped))
=============================================================================
