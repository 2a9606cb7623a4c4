----------------------- MODULE IdentityGeneratorProofs -----------------------
(***************************************************************************)
(* Ids are unique and ordered, and calls persistent, for any number of     *)
(* clients, calls, faults and attempts.                                    *)
(***************************************************************************)
EXTENDS IdentityGenerator, TLAPS

\* The row holds the largest id ever written; without a row there is none.
Largest ==
    /\ \A i \in issued : i =< row.value
    /\ \A c \in Clients : At(c, "return") => id[c] =< row.value
    /\ row = Absent => issued = {}
    /\ row = Absent => \A c \in Clients : ~ At(c, "return")

\* A call under way has attempts left.
Going == \A c \in Clients : ~ At(c, "idle") => failed[c] < MaxAttempts

\* Only an insert that comes second fails without a fault, and it does so once.
FewFailures ==
    \A c \in Clients : /\ failed[c] =< faults + 1
                       /\ row = Absent => failed[c] =< faults
                       /\ At(c, "insert") => failed[c] =< faults

IInv == TypeOK /\ Largest /\ IdsUnique /\ IdsInOrder /\ Going /\ FewFailures

LEMMA InitInv == Init => IInv
  BY RowAssumption, AttemptsAssumption
     DEF Init, RowInit, IInv, TypeOK, RowTypes, Largest, IdsUnique, IdsInOrder, Going, FewFailures,
         Absent, Labels, At

\* An attempt that fails leaves its call going, or ends it with all attempts used.
LEMMA CaughtInv ==
    ASSUME IInv, NEW c \in Clients, InsertConflict(c) \/ Failure(c)
    PROVE  IInv'
<1>1. /\ UNCHANGED << row, seen, calls, id, issued, before >>
      /\ failed' = [failed EXCEPT ![c] = failed[c] + 1]
      /\ failed[c] \in Nat /\ failed[c] < MaxAttempts
      /\ faults \in Nat /\ faults' \in 0..MaxFaults /\ faults =< faults'
      /\ pc \in [Clients -> Labels]
  <2>1. /\ UNCHANGED << row, seen, calls, id, issued, before >>
        /\ failed' = [failed EXCEPT ![c] = failed[c] + 1] /\ ~ At(c, "idle")
    BY DEF InsertConflict, Failure, Conflict, Fault, Caught, notes, At
  <2>2. faults \in 0..MaxFaults /\ (faults' = faults \/ (faults < MaxFaults /\ faults' = faults + 1))
    BY DEF InsertConflict, Failure, Conflict, Fault, IInv, TypeOK, RowTypes
  <2>3. failed[c] \in Nat /\ failed[c] < MaxAttempts /\ pc \in [Clients -> Labels]
    BY <2>1 DEF IInv, TypeOK, RowTypes, Going
  <2> QED
    BY <2>1, <2>2, <2>3, RowAssumption
<1>2. PICK label \in {"read", "idle"} :
          /\ pc' = [pc EXCEPT ![c] = label]
          /\ label = "read" => failed[c] + 1 < MaxAttempts
  BY DEF InsertConflict, Failure, Caught, Goto
<1>3. \A k \in Clients : /\ pc'[k] = IF k = c THEN label ELSE pc[k]
                         /\ failed'[k] = IF k = c THEN failed[c] + 1 ELSE failed[k]
  BY <1>1, <1>2 DEF IInv, TypeOK
<1>4. TypeOK'
  <2>1. pc' \in [Clients -> Labels]
    BY <1>1, <1>2 DEF Labels
  <2>2. failed' \in [Clients -> 0..MaxAttempts]
    BY <1>1, AttemptsAssumption DEF IInv, TypeOK
  <2> QED
    BY <1>1, <2>1, <2>2 DEF IInv, TypeOK, RowTypes, Absent
<1>5. Largest' /\ IdsUnique' /\ IdsInOrder'
  BY <1>1, <1>2, <1>3 DEF IInv, Largest, IdsUnique, IdsInOrder, At, Absent
<1>6. Going'
  BY <1>1, <1>2, <1>3 DEF IInv, Going, At
<1>7. FewFailures'
  <2>1. CASE InsertConflict(c)
    <3>1. row # Absent /\ failed[c] =< faults /\ faults' = faults
      BY <2>1 DEF InsertConflict, Conflict, IInv, FewFailures
    <3> QED
      BY <1>1, <1>2, <1>3, <3>1 DEF IInv, FewFailures, At, Absent
  <2>2. CASE Failure(c)
    <3>1. faults' = faults + 1
      BY <2>2 DEF Failure, Fault
    <3>2. \A k \in Clients : failed[k] \in Nat
      BY DEF IInv, TypeOK
    <3> QED
      BY <1>1, <1>2, <1>3, <3>1, <3>2 DEF IInv, FewFailures, At, Absent
  <2> QED
    BY <2>1, <2>2
<1> QED
  BY <1>4, <1>5, <1>6, <1>7 DEF IInv

\* Writing takes an id that is larger than all before it.
LEMMA WriteInv ==
    ASSUME IInv, NEW c \in Clients, Increment(c) \/ Create(c)
    PROVE  IInv'
<1> DEFINE v == row'.value
<1>1. /\ UNCHANGED << seen, calls, faults, failed, issued, before >>
      /\ pc' = [pc EXCEPT ![c] = "return"] /\ ~ At(c, "return") /\ ~ At(c, "idle")
      /\ row \in [etag : Nat, value : Int]
  BY DEF Increment, Create, Replace, Insert, Goto, notes, At, IInv, TypeOK, RowTypes
<1>2. /\ row' = [etag |-> row.etag + 1, value |-> v]
      /\ v \in Int
      /\ id' = [id EXCEPT ![c] = v]
      /\ row # Absent => v = row.value + 1
  <2>1. CASE Increment(c)
    <3>1. seen[c] = row
      BY <2>1 DEF Increment, Replace, IInv, TypeOK, RowTypes
    <3>2. row' = [etag |-> row.etag + 1, value |-> row.value + 1] /\ id' = [id EXCEPT ![c] = row.value + 1]
      BY <2>1, <3>1 DEF Increment, Replace, Write
    <3>3. v = row.value + 1
      BY <3>2
    <3> QED
      BY <1>1, <3>2, <3>3
  <2>2. CASE Create(c)
    <3>1. row' = [etag |-> row.etag + 1, value |-> 0] /\ id' = [id EXCEPT ![c] = 0] /\ row = Absent
      BY <2>2 DEF Create, Insert, Write
    <3>2. v = 0
      BY <3>1
    <3> QED
      BY <3>1, <3>2
  <2> QED
    BY <2>1, <2>2
<1> HIDE DEF v
<1>3. \A k \in Clients : /\ pc'[k] = IF k = c THEN "return" ELSE pc[k]
                         /\ id'[k] = IF k = c THEN v ELSE id[k]
  BY <1>1, <1>2 DEF IInv, TypeOK, RowTypes
<1>4. \A i \in issued : i \in Int /\ i < v
  BY <1>1, <1>2 DEF IInv, TypeOK, Largest
<1>5. \A k \in Clients : At(k, "return") => id[k] \in Int /\ id[k] < v
  BY <1>1, <1>2 DEF IInv, TypeOK, Largest
<1>6. TypeOK'
  <2>1. row' \in [etag : Nat, value : Int] /\ row'.etag # 0 /\ row'.etag > row.etag
    BY <1>1, <1>2
  <2>2. pc' \in [Clients -> Labels] /\ id' \in [Clients -> Int]
    BY <1>1, <1>2 DEF IInv, TypeOK, RowTypes, Labels
  <2>3. \A k \in Clients : seen[k].etag < row'.etag
    BY <1>1, <2>1 DEF IInv, TypeOK, RowTypes
  <2> QED
    BY <1>1, <2>1, <2>2, <2>3 DEF IInv, TypeOK, RowTypes
<1>7. row' # Absent /\ row'.value = v
  BY <1>1, <1>2 DEF Absent, v
<1>8. Largest'
  <2>1. Absent' = Absent
    BY DEF Absent
  <2>2. \A i \in issued' : i =< row'.value
    BY <1>1, <1>2, <1>4, <1>7
  <2>3. \A k \in Clients : pc'[k] = "return" => id'[k] =< row'.value
    BY <1>2, <1>3, <1>5, <1>7 DEF At
  <2> QED
    BY <1>7, <2>1, <2>2, <2>3 DEF Largest, At
<1>9. IdsUnique'
  BY <1>1, <1>2, <1>3, <1>4, <1>5 DEF IInv, IdsUnique, At
<1>10. IdsInOrder'
  BY <1>1, <1>3, <1>4 DEF IInv, IdsInOrder, TypeOK, At
<1>11. Going'
  BY <1>1, <1>3 DEF IInv, Going, At
<1>12. FewFailures'
  BY <1>1, <1>3, <1>7 DEF IInv, FewFailures, At, Absent
<1> QED
  BY <1>6, <1>8, <1>9, <1>10, <1>11, <1>12 DEF IInv

\* The id returned joins those issued; it was different from all of them.
LEMMA ReturnInv ==
    ASSUME IInv, NEW c \in Clients, Return(c)
    PROVE  IInv'
<1>1. /\ UNCHANGED << row, seen, calls, faults, failed, id, before >>
      /\ pc' = [pc EXCEPT ![c] = "idle"] /\ pc[c] = "return"
      /\ issued' = issued \cup {id[c]} /\ id[c] \in Int
      /\ id[c] =< row.value /\ row # Absent
  BY DEF Return, Goto, At, IInv, TypeOK, Largest
<1>2. \A k \in Clients : pc'[k] = IF k = c THEN "idle" ELSE pc[k]
  BY <1>1 DEF IInv, TypeOK, RowTypes
<1>3. TypeOK'
  BY <1>1 DEF IInv, TypeOK, RowTypes, Labels, Absent
<1>4. Largest'
  BY <1>1, <1>2 DEF IInv, Largest, At, Absent
<1>5. IdsUnique'
  BY <1>1, <1>2 DEF IInv, IdsUnique, At
<1>6. IdsInOrder'
  BY <1>1, <1>2 DEF IInv, IdsInOrder, At
<1>7. Going' /\ FewFailures'
  BY <1>1, <1>2 DEF IInv, Going, FewFailures, At, Absent
<1> QED
  BY <1>3, <1>4, <1>5, <1>6, <1>7 DEF IInv

\* A new call knows the ids issued so far.
LEMMA BeginInv ==
    ASSUME IInv, NEW c \in Clients, GenerateNewId(c)
    PROVE  IInv'
<1>1. /\ UNCHANGED << row, seen, faults, id, issued >>
      /\ calls' \in 0..MaxCalls
      /\ pc' = [pc EXCEPT ![c] = "read"]
      /\ failed' = [failed EXCEPT ![c] = 0]
      /\ before' = [before EXCEPT ![c] = issued]
  BY RowAssumption DEF GenerateNewId, Begin, Goto, IInv, TypeOK, RowTypes
<1>2. \A k \in Clients : /\ pc'[k] = IF k = c THEN "read" ELSE pc[k]
                         /\ failed'[k] = IF k = c THEN 0 ELSE failed[k]
                         /\ before'[k] = IF k = c THEN issued ELSE before[k]
  BY <1>1 DEF IInv, TypeOK, RowTypes
<1>3. TypeOK'
  <2>1. /\ pc' \in [Clients -> Labels]
        /\ failed' \in [Clients -> 0..MaxAttempts]
        /\ before' \in [Clients -> SUBSET issued]
    BY <1>1, AttemptsAssumption DEF IInv, TypeOK, RowTypes, Labels
  <2> QED
    BY <1>1, <2>1 DEF IInv, TypeOK, RowTypes, Absent
<1>4. Largest' /\ IdsUnique' /\ IdsInOrder'
  BY <1>1, <1>2 DEF IInv, Largest, IdsUnique, IdsInOrder, At, Absent
<1>5. Going'
  BY <1>1, <1>2, AttemptsAssumption DEF IInv, Going, At
<1>6. FewFailures'
  BY <1>1, <1>2, RowAssumption DEF IInv, TypeOK, RowTypes, FewFailures, At, Absent
<1> QED
  BY <1>3, <1>4, <1>5, <1>6 DEF IInv

\* Reading, and starting again after a lost race, change nothing but the copy.
LEMMA ReadInv ==
    ASSUME IInv, NEW c \in Clients, GetData(c) \/ Again(c)
    PROVE  IInv'
<1>1. /\ UNCHANGED << row, calls, faults, failed, id, issued, before >>
      /\ pc[c] # "idle" /\ pc[c] # "return"
  BY DEF GetData, Again, Read, Stale, notes, At
<1>2. PICK label \in {"read", "replace", "insert"} :
          /\ pc' = [pc EXCEPT ![c] = label]
          /\ label = "insert" => row = Absent
  BY DEF GetData, Again, Read, Stale, Goto
<1>3. \A k \in Clients : pc'[k] = IF k = c THEN label ELSE pc[k]
  BY <1>2 DEF IInv, TypeOK, RowTypes
<1>4. TypeOK'
  <2>1. pc' \in [Clients -> Labels]
    BY <1>2 DEF IInv, TypeOK, RowTypes, Labels
  <2>2. \A k \in Clients : seen'[k] \in {row, seen[k]}
    BY DEF GetData, Again, Read, Stale, IInv, TypeOK, RowTypes
  <2>3. seen' \in [Clients -> [etag : Nat, value : Int]]
    BY DEF GetData, Again, Read, Stale, IInv, TypeOK, RowTypes
  <2> QED
    BY <1>1, <2>1, <2>2, <2>3 DEF IInv, TypeOK, RowTypes, Absent
<1>5. Largest' /\ IdsUnique' /\ IdsInOrder' /\ Going'
  BY <1>1, <1>2, <1>3 DEF IInv, Largest, IdsUnique, IdsInOrder, Going, At, Absent
<1>6. FewFailures'
  BY <1>1, <1>2, <1>3 DEF IInv, FewFailures, At, Absent
<1> QED
  BY <1>4, <1>5, <1>6 DEF IInv

LEMMA NextInv == IInv /\ [Next]_vars => IInv'
<1> SUFFICES ASSUME IInv, [Next]_vars PROVE IInv'
  OBVIOUS
<1>1. CASE UNCHANGED vars
  BY <1>1 DEF vars, IInv, TypeOK, RowTypes, Largest, IdsUnique, IdsInOrder, Going, FewFailures, At, Absent
<1> QED
  BY <1>1, BeginInv, ReadInv, WriteInv, CaughtInv, ReturnInv DEF Next, Step, Wait

LEMMA Inductive == Spec => []IInv
  BY InitInv, NextInv, PTL DEF Spec

\* No id is returned twice, by however many clients, whatever fails.
THEOREM UniqueIds == Spec => []IdsUnique
<1>1. IInv => IdsUnique
  BY DEF IInv
<1> QED
  BY <1>1, Inductive, PTL

\* Ids grow with time: one asked for later is larger.
THEOREM OrderedIds == Spec => []IdsInOrder
<1>1. IInv => IdsInOrder
  BY DEF IInv
<1> QED
  BY <1>1, Inductive, PTL

\* A call that throws has met a fault in all of its attempts but one, at least.
THEOREM PersistentCalls == Spec => []Persistent
<1>1. IInv => Persistent
  BY AttemptsAssumption DEF IInv, TypeOK, RowTypes, FewFailures, Persistent
<1> QED
  BY <1>1, Inductive, PTL

=============================================================================
