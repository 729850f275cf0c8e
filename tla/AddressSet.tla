------------------------------- MODULE AddressSet -------------------------------
(***************************************************************************)
(* The set of addresses the contracts keep their available miners in: an   *)
(* array of the members and, for each address, one plus its index in the   *)
(* array, 0 when it is not a member.  Erasing moves the last member into   *)
(* the gap.  The sets of numbers and of words are the same code.           *)
(*                                                                         *)
(* The registries draw a miner by its index in the array and test for      *)
(* membership by the positions; StakingHub.tla and MinerRegistry.tla       *)
(* speak of a set only, which is right if the two never disagree.          *)
(***************************************************************************)
EXTENDS Integers, Sequences, TLAPS

CONSTANT Addresses

VARIABLES values, positions

vars == <<values, positions>>

Init == values = <<>> /\ positions = [v \in Addresses |-> 0]

Insert(v) ==
  /\ positions[v] = 0
  /\ values' = Append(values, v)
  /\ positions' = [positions EXCEPT ![v] = Len(values) + 1]

\* The last two assignments hit the same entry when v is the last member.
Erase(v) ==
  LET p == positions[v]
      last == values[Len(values)]
  IN /\ p # 0
     /\ values' = SubSeq([values EXCEPT ![p] = last], 1, Len(values) - 1)
     /\ positions' = [[positions EXCEPT ![last] = p] EXCEPT ![v] = 0]

Next == \E v \in Addresses : Insert(v) \/ Erase(v)

Spec == Init /\ [][Next]_vars

-----------------------------------------------------------------------------
\* hasValue
Members == {v \in Addresses : positions[v] # 0}

\* The specification of a set: inserting what is in it, or erasing what is not, is
\* impossible, and one operation changes the membership of one address.
SetInsert(v) == v \notin Members /\ Members' = Members \cup {v}
SetErase(v) == v \in Members /\ Members' = Members \ {v}
SetSpec ==
  Members = {} /\ [][\E v \in Addresses : SetInsert(v) \/ SetErase(v)]_Members

\* The array and the positions are inverse to each other.
PositionsRight ==
  /\ values \in Seq(Addresses)
  /\ positions \in [Addresses -> 0..Len(values)]
  /\ \A k \in 1..Len(values) : positions[values[k]] = k
  /\ \A v \in Addresses : positions[v] # 0 => values[positions[v]] = v

\* Every index holds a member, every member is at an index, and no member at two: a
\* draw by index can give every member and nothing else.
DrawsAreMembers ==
  /\ \A k \in 1..Len(values) : values[k] \in Members
  /\ \A v \in Members : \E k \in 1..Len(values) : values[k] = v
  /\ \A j, k \in 1..Len(values) : values[j] = values[k] => j = k

-----------------------------------------------------------------------------
\* Inserting keeps the array and the positions inverse to each other (insert).
LEMMA InsertKeeps ==
  ASSUME PositionsRight, NEW v \in Addresses, Insert(v)
  PROVE  PositionsRight' /\ SetInsert(v)
<1> DEFINE n == Len(values)
<1> USE DEF PositionsRight, Insert
<1>1. values' \in Seq(Addresses) /\ Len(values') = n + 1
  OBVIOUS
<1>2. /\ \A k \in 1..n : values'[k] = values[k]
      /\ values'[n + 1] = v
  OBVIOUS
<1>3. positions' \in [Addresses -> 0..Len(values')]
  BY <1>1
<1>4. \A k \in 1..n : values[k] \in Addresses /\ values[k] # v
  OBVIOUS
<1>5. \A k \in 1..Len(values') : positions'[values'[k]] = k
  BY <1>1, <1>2, <1>4
<1>6. \A w \in Addresses : positions'[w] # 0 => values'[positions'[w]] = w
  BY <1>1, <1>2
<1>7. SetInsert(v)
  BY DEF SetInsert, Members
<1>8. QED
  BY <1>1, <1>3, <1>5, <1>6, <1>7

\* So does erasing, also of the last member, which moves nothing (erase).
LEMMA EraseKeeps ==
  ASSUME PositionsRight, NEW v \in Addresses, Erase(v)
  PROVE  PositionsRight' /\ SetErase(v)
<1> DEFINE n == Len(values)
           p == positions[v]
           last == values[n]
<1>1. /\ n \in Nat /\ p \in 1..n /\ values[p] = v
      /\ last \in Addresses /\ positions[last] = n
  BY DEF PositionsRight, Erase
<1>2. /\ values' = SubSeq([values EXCEPT ![p] = last], 1, n - 1)
      /\ positions' = [[positions EXCEPT ![last] = p] EXCEPT ![v] = 0]
  BY DEF Erase
<1>3. [values EXCEPT ![p] = last] \in Seq(Addresses) /\ Len([values EXCEPT ![p] = last]) = n
  BY <1>1 DEF PositionsRight
<1>4. /\ values' \in Seq(Addresses) /\ Len(values') = n - 1
      /\ \A k \in 1..(n - 1) : values'[k] = IF k = p THEN last ELSE values[k]
  BY <1>1, <1>2, <1>3 DEF PositionsRight
<1>5. \A w \in Addresses :
        positions'[w] = IF w = v THEN 0 ELSE IF w = last THEN p ELSE positions[w]
  BY <1>1, <1>2 DEF PositionsRight
<1>6. \A w \in Addresses \ {v, last} : positions[w] \in 0..(n - 1) /\ positions[w] # p
  BY <1>1 DEF PositionsRight
<1>7. v # last => p \in 1..(n - 1)
  BY <1>1
<1>8. positions' \in [Addresses -> 0..Len(values')]
  <2>1. positions' \in [Addresses -> Int]
    BY <1>1, <1>2 DEF PositionsRight
  <2>2. \A w \in Addresses : positions'[w] \in 0..(n - 1)
    BY <1>1, <1>5, <1>6, <1>7
  <2>3. QED
    BY <1>4, <2>1, <2>2
<1>9. \A k \in 1..Len(values') : positions'[values'[k]] = k
  <2> TAKE k \in 1..Len(values')
  <2>1. k \in 1..(n - 1)
    BY <1>4
  <2>2. CASE k = p
    BY <1>1, <1>4, <1>5, <2>1, <2>2
  <2>3. CASE k # p
    <3>1. values'[k] = values[k] /\ positions[values[k]] = k /\ values[k] \in Addresses
      BY <1>1, <1>4, <2>1, <2>3 DEF PositionsRight
    <3>2. values[k] # v /\ values[k] # last
      BY <1>1, <2>1, <2>3, <3>1
    <3>3. QED
      BY <1>5, <3>1, <3>2
  <2>4. QED
    BY <2>2, <2>3
<1>10. \A w \in Addresses : positions'[w] # 0 => values'[positions'[w]] = w
  <2> SUFFICES ASSUME NEW w \in Addresses, positions'[w] # 0
               PROVE  values'[positions'[w]] = w
    OBVIOUS
  <2>1. w # v
    BY <1>5
  <2>2. CASE w = last
    BY <1>4, <1>5, <1>7, <2>1, <2>2
  <2>3. CASE w # last
    <3>1. /\ positions'[w] = positions[w] /\ positions[w] \in 1..(n - 1) /\ positions[w] # p
      BY <1>1, <1>5, <1>6, <2>1, <2>3
    <3>2. values[positions[w]] = w
      BY <3>1 DEF PositionsRight
    <3>3. QED
      BY <1>4, <3>1, <3>2
  <2>4. QED
    BY <2>2, <2>3
<1>11. SetErase(v)
  BY <1>1, <1>5 DEF SetErase, Members
<1>12. QED
  BY <1>4, <1>8, <1>9, <1>10, <1>11 DEF PositionsRight

\* Whatever is inserted and erased in whatever order, the array holds the members,
\* each once, and the positions say where (insert and erase).
THEOREM PositionsAlwaysRight == Spec => []PositionsRight
<1>1. Init => PositionsRight
  BY DEF Init, PositionsRight
<1>2. PositionsRight /\ [Next]_vars => PositionsRight'
  <2> SUFFICES ASSUME PositionsRight, [Next]_vars
               PROVE  PositionsRight'
    OBVIOUS
  <2>1. CASE Next
    BY <2>1, InsertKeeps, EraseKeeps DEF Next
  <2>2. CASE UNCHANGED vars
    BY <2>2 DEF vars, PositionsRight
  <2>3. QED
    BY <2>1, <2>2
<1>3. QED
  BY <1>1, <1>2, PTL DEF Spec

\* A miner drawn by index is always a member, and every member can be drawn.
THEOREM DrawsAlwaysMembers == Spec => []DrawsAreMembers
<1>1. PositionsRight => DrawsAreMembers
  <2> SUFFICES ASSUME PositionsRight
               PROVE  DrawsAreMembers
    OBVIOUS
  <2>1. \A k \in 1..Len(values) : values[k] \in Addresses /\ positions[values[k]] = k
    BY DEF PositionsRight
  <2>2. \A v \in Members : positions[v] \in 1..Len(values) /\ values[positions[v]] = v
    BY DEF PositionsRight, Members
  <2>3. QED
    BY <2>1, <2>2 DEF DrawsAreMembers, Members
<1>2. QED
  BY <1>1, PositionsAlwaysRight, PTL

\* The array with its positions implements a set.
THEOREM ImplementsSet == Spec => SetSpec
<1>1. Init => Members = {}
  BY DEF Init, Members
<1>2. PositionsRight /\ [Next]_vars
        => [\E v \in Addresses : SetInsert(v) \/ SetErase(v)]_Members
  <2> SUFFICES ASSUME PositionsRight, [Next]_vars
               PROVE  [\E v \in Addresses : SetInsert(v) \/ SetErase(v)]_Members
    OBVIOUS
  <2>1. CASE Next
    BY <2>1, InsertKeeps, EraseKeeps DEF Next
  <2>2. CASE UNCHANGED vars
    BY <2>2 DEF vars, Members
  <2>3. QED
    BY <2>1, <2>2
<1>3. QED
  BY <1>1, <1>2, PositionsAlwaysRight, PTL DEF Spec, SetSpec
=============================================================================
