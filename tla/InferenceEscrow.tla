-------------------------- MODULE InferenceEscrow --------------------------
(***************************************************************************)
(* What WorkerHub promises about money: the fee of an inference is held    *)
(* from the request on, and leaves the hub once, either back to the        *)
(* creator in full or out to the workers and the protocol but for at most  *)
(* DustBound units that the integer divisions leave behind.                *)
(***************************************************************************)
EXTENDS Integers

CONSTANTS Ids,        \* inference ids
          DustBound   \* what one payout may leave in the hub

VARIABLES phase,      \* "none", "held", "refunded" or "paid", per inference
          deposit,    \* what the creator paid for it
          held,       \* the hub's balance
          purse       \* the creators' balance

escrowVars == <<phase, deposit, held, purse>>

Init ==
  /\ phase = [i \in Ids |-> "none"]
  /\ deposit = [i \in Ids |-> 0]
  /\ held = 0
  /\ purse \in Nat

Hold(i) ==
  /\ phase[i] = "none"
  /\ phase' = [phase EXCEPT ![i] = "held"]
  /\ \E v \in 0..purse :
       /\ deposit' = [deposit EXCEPT ![i] = v]
       /\ held' = held + v
       /\ purse' = purse - v

Refund(i) ==
  /\ phase[i] = "held"
  /\ phase' = [phase EXCEPT ![i] = "refunded"]
  /\ held' = held - deposit[i]
  /\ purse' = purse + deposit[i]
  /\ UNCHANGED deposit

PayOut(i) ==
  /\ phase[i] = "held"
  /\ phase' = [phase EXCEPT ![i] = "paid"]
  /\ \E dust \in 0..DustBound : held' = held - deposit[i] + dust
  /\ UNCHANGED <<deposit, purse>>

Next == \E i \in Ids : Hold(i) \/ Refund(i) \/ PayOut(i)

Spec == Init /\ [][Next]_escrowVars

=============================================================================
