----------------------- MODULE BalanceRepositoryProofs -----------------------
(***************************************************************************)
(* ChangeBalanceAsync implements an atomic addition, for any number of     *)
(* clients and calls.  The invariant is TypeOK: what a client has read is  *)
(* still the row when its ETag is, so the value it writes is the row's     *)
(* value plus its delta.                                                   *)
(***************************************************************************)
EXTENDS BalanceRepository, TLAPS

LEMMA InitTypes == Init => TypeOK
  BY RowAssumption DEF Init, RowInit, TypeOK, RowTypes, Absent, Labels

\* A step of a call leaves the other calls alone, and the row keeps its types.
LEMMA NextTypes == TypeOK /\ [Next]_vars => TypeOK'
<1> SUFFICES ASSUME TypeOK, [Next]_vars PROVE TypeOK'
  OBVIOUS
<1> USE RowAssumption DEF TypeOK, RowTypes, Absent, Labels, At, Goto
<1>1. ASSUME NEW c \in Clients, NEW d \in Deltas, ChangeBalance(c, d) PROVE TypeOK'
  BY <1>1, DeltaAssumption DEF ChangeBalance, Begin
<1>2. ASSUME NEW c \in Clients, GetData(c) PROVE TypeOK'
  <2>1. \A k \in Clients : seen'[k] = IF k = c THEN row ELSE seen[k]
    BY <1>2 DEF GetData, Read
  <2> QED
    BY <1>2, <2>1 DEF GetData, Read
<1>3. ASSUME NEW c \in Clients, ReplaceAmount(c) PROVE TypeOK'
  BY <1>3 DEF ReplaceAmount, Replace, Write
<1>4. ASSUME NEW c \in Clients, InsertAmount(c) PROVE TypeOK'
  <2>1. row' = [etag |-> row.etag + 1, value |-> delta[c]] /\ row = Absent
    BY <1>4 DEF InsertAmount, Insert, Write
  <2> QED
    BY <1>4, <2>1 DEF InsertAmount, Insert
<1>5. ASSUME NEW c \in Clients, Again(c) \/ Return(c) PROVE TypeOK'
  BY <1>5 DEF Again, Stale, Return
<1>6. ASSUME NEW c \in Clients, InsertConflict(c) \/ Throw(c) PROVE TypeOK'
  <2>1. UNCHANGED << row, seen, calls, delta >> /\ faults' \in 0..MaxFaults
    BY <1>6 DEF InsertConflict, Conflict, Throw, Fault
  <2>2. pc' = [pc EXCEPT ![c] = "idle"] /\ thrown' = [thrown EXCEPT ![c] = TRUE]
    BY <1>6 DEF InsertConflict, Throw
  <2>3. thrown' \in [Clients -> BOOLEAN]
    BY <2>2
  <2> QED
    BY <2>1, <2>2, <2>3
<1>7. CASE UNCHANGED vars
  BY <1>7 DEF vars
<1> QED
  BY <1>1, <1>2, <1>3, <1>4, <1>5, <1>6, <1>7 DEF Next, Step, Wait

\* A copy with the row's ETag is the row, whoever wrote in between.
THEOREM TypeCorrect == Spec => []TypeOK
  BY InitTypes, NextTypes, PTL DEF Spec

-----------------------------------------------------------------------------

\* A step that moves one call moves its phase, and no other's.
LEMMA PhaseMoves ==
    ASSUME TypeOK, NEW c \in Clients, NEW label \in Labels, Goto(c, label)
    PROVE  [k \in Clients |-> Phase(k)]' =
           [[k \in Clients |-> Phase(k)] EXCEPT ![c] =
              IF label = "idle" THEN "idle" ELSE IF label = "return" THEN "added" ELSE "asked"]
<1>1. \A k \in Clients : pc'[k] = IF k = c THEN label ELSE pc[k]
  BY DEF Goto, TypeOK, RowTypes
<1> QED
  BY <1>1 DEF Phase

\* The phase stands still when the call moves between its reads and writes.
LEMMA PhaseStays ==
    ASSUME TypeOK, NEW c \in Clients, NEW label \in {"read", "replace", "insert"}, Goto(c, label),
           pc[c] \in {"read", "replace", "insert"}
    PROVE  [k \in Clients |-> Phase(k)]' = [k \in Clients |-> Phase(k)]
<1>1. \A k \in Clients : pc'[k] = IF k = c THEN label ELSE pc[k]
  BY DEF Goto, TypeOK, RowTypes
<1> QED
  BY <1>1 DEF Phase

LEMMA InitMaps == Init => A!Init
  BY DEF Init, RowInit, A!Init, Phase, Absent

LEMMA NextMaps == TypeOK /\ [Next]_vars => [A!Next]_A!vars
<1> SUFFICES ASSUME TypeOK, [Next]_vars PROVE [A!Next]_A!vars
  OBVIOUS
<1> DEFINE phase == [k \in Clients |-> Phase(k)]
<1>1. ASSUME NEW c \in Clients, NEW d \in Deltas, ChangeBalance(c, d) PROVE A!Ask(c, d)
  <2>1. phase' = [phase EXCEPT ![c] = "asked"]
    BY <1>1, PhaseMoves DEF ChangeBalance, Begin, Labels
  <2>2. phase[c] = "idle"
    BY <1>1 DEF ChangeBalance, Begin, At, Phase
  <2> QED
    BY <1>1, <2>1, <2>2 DEF ChangeBalance, Begin, A!Ask
<1>2. ASSUME NEW c \in Clients, GetData(c) PROVE UNCHANGED A!vars
  <2>1. phase' = phase
    BY <1>2, PhaseStays DEF GetData, Read, At
  <2> QED
    BY <1>2, <2>1 DEF GetData, Read, A!vars
<1>3. ASSUME NEW c \in Clients, ReplaceAmount(c) PROVE A!Add(c)
  <2>1. phase' = [phase EXCEPT ![c] = "added"]
    BY <1>3, PhaseMoves DEF ReplaceAmount, Replace, Labels
  <2>2. phase[c] = "asked"
    BY <1>3 DEF ReplaceAmount, Replace, At, Phase
  <2>3. row'.value = row.value + delta[c]
    BY <1>3 DEF ReplaceAmount, Replace, Write, TypeOK, RowTypes
  <2> QED
    BY <1>3, <2>1, <2>2, <2>3 DEF ReplaceAmount, Replace, A!Add
<1>4. ASSUME NEW c \in Clients, InsertAmount(c) PROVE A!Add(c)
  <2>1. phase' = [phase EXCEPT ![c] = "added"]
    BY <1>4, PhaseMoves DEF InsertAmount, Insert, Labels
  <2>2. phase[c] = "asked"
    BY <1>4 DEF InsertAmount, Insert, At, Phase
  <2>3. row'.value = row.value + delta[c]
    BY <1>4 DEF InsertAmount, Insert, Write, Absent, TypeOK, RowTypes
  <2> QED
    BY <1>4, <2>1, <2>2, <2>3 DEF InsertAmount, Insert, A!Add
<1>5. ASSUME NEW c \in Clients, Again(c) PROVE UNCHANGED A!vars
  <2>1. phase' = phase
    BY <1>5, PhaseStays DEF Again, Stale, At
  <2> QED
    BY <1>5, <2>1 DEF Again, Stale, A!vars
<1>6. ASSUME NEW c \in Clients, Return(c) PROVE A!Return(c)
  <2>1. phase' = [phase EXCEPT ![c] = "idle"]
    BY <1>6, PhaseMoves DEF Return, Labels
  <2>2. phase[c] = "added"
    BY <1>6 DEF Return, At, Phase
  <2> QED
    BY <1>6, <2>1, <2>2 DEF Return, A!Return
<1>7. ASSUME NEW c \in Clients, InsertConflict(c) \/ Throw(c) PROVE A!Throw(c)
  <2>1. phase' = [phase EXCEPT ![c] = "idle"]
    BY <1>7, PhaseMoves DEF InsertConflict, Throw, Labels
  <2>2. phase[c] \in {"asked", "added"}
    BY <1>7 DEF InsertConflict, Conflict, Throw, Fault, At, Phase, TypeOK, RowTypes, Labels
  <2> QED
    BY <1>7, <2>1, <2>2 DEF InsertConflict, Conflict, Throw, Fault, A!Throw
<1>8. CASE UNCHANGED vars
  <2>1. phase' = phase
    BY <1>8 DEF vars, Phase
  <2> QED
    BY <1>8, <2>1 DEF vars, A!vars
<1> QED
  BY <1>1, <1>2, <1>3, <1>4, <1>5, <1>6, <1>7, <1>8 DEF Next, Step, Wait, A!Next

\* However calls interleave and fail, each is one addition at one moment of the
\* call when it returns, and at most one when it throws.
THEOREM Addition == Spec => ImplementsAddition
<1>1. Init => A!Init
  BY InitMaps
<1>2. TypeOK /\ [Next]_vars => [A!Next]_A!vars
  BY NextMaps
<1> QED
  BY <1>1, <1>2, TypeCorrect, PTL DEF Spec, A!Spec, ImplementsAddition

=============================================================================
