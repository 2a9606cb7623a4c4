-------------------------- MODULE IdentityGenerator --------------------------
(***************************************************************************)
(* IdentityGenerator.GenerateNewIdAsync: a counter in a row that exists    *)
(* from the first call on, changed by InsertOrModifyAsync, which repeats   *)
(* the whole operation after any exception, up to a number of attempts.    *)
(***************************************************************************)
EXTENDS TableRow

CONSTANT MaxAttempts  \* 100 in the code

ASSUME AttemptsAssumption == MaxAttempts \in Nat \ {0}

VARIABLES
    failed,  \* attempts of each call that ended in an exception
    id,      \* the id each call has written and is about to return
    issued,  \* the ids returned so far
    before   \* those returned when each call began

vars == << row, seen, pc, calls, faults, failed, id, issued, before >>
notes == << issued, before >>

Init ==
    /\ RowInit
    /\ failed = [c \in Clients |-> 0]
    /\ id = [c \in Clients |-> 0]
    /\ issued = {}
    /\ before = [c \in Clients |-> {}]

GenerateNewId(c) ==
    /\ Begin(c)
    /\ failed' = [failed EXCEPT ![c] = 0]
    /\ before' = [before EXCEPT ![c] = issued]
    /\ UNCHANGED << seen, id, issued >>

GetData(c) == Read(c) /\ UNCHANGED << failed, id, notes >>

\* Value++ on the entity read.
Increment(c) ==
    /\ Replace(c, seen[c].value + 1)
    /\ id' = [id EXCEPT ![c] = seen[c].value + 1]
    /\ UNCHANGED << failed, notes >>

\* IdentityEntity.Create.
Create(c) ==
    /\ Insert(c, 0)
    /\ id' = [id EXCEPT ![c] = 0]
    /\ UNCHANGED << failed, notes >>

\* Faulty variant: a failed attempt that had written an id returns it.
CaughtAtReturn(c) ==
    /\ failed' = [failed EXCEPT ![c] = @ + 1]
    /\ Goto(c, IF failed[c] + 1 < MaxAttempts THEN "return" ELSE "idle")
    /\ UNCHANGED << id, notes >>

\* An exception ends the attempt; after the last one the call throws.
Caught(c) ==
    /\ failed' = [failed EXCEPT ![c] = @ + 1]
    /\ Goto(c, IF failed[c] + 1 < MaxAttempts THEN "read" ELSE "idle")
    /\ UNCHANGED << id, notes >>

\* Faulty variant: a lost race is an exception like any other.
AgainThrows(c) ==
    /\ At(c, "replace")
    /\ seen[c].etag # row.etag
    /\ UNCHANGED << row, seen, calls, faults >>
    /\ Caught(c)

\* ReplaceAsync repeats a lost race by itself.
Again(c) == Stale(c) /\ UNCHANGED << failed, id, notes >>

InsertConflict(c) == Conflict(c) /\ Caught(c)
Failure(c) == Fault(c) /\ Caught(c)

Return(c) ==
    /\ At(c, "return")
    /\ Goto(c, "idle")
    /\ issued' = issued \cup {id[c]}
    /\ UNCHANGED << row, seen, calls, faults, failed, id, before >>

Step(c) ==
    \/ GetData(c) \/ Increment(c) \/ Again(c) \/ Create(c) \/ InsertConflict(c) \/ Return(c)

Wait == Quiet /\ UNCHANGED vars

Next == Wait \/ \E c \in Clients : GenerateNewId(c) \/ Step(c) \/ Failure(c)

Spec == Init /\ [][Next]_vars

-----------------------------------------------------------------------------

\* Types, with what the row's ETag guarantees.
TypeOK ==
    /\ RowTypes
    /\ failed \in [Clients -> 0..MaxAttempts]
    /\ id \in [Clients -> Int]
    /\ issued \subseteq Int
    /\ before \in [Clients -> SUBSET issued]

\* No id is returned twice, whatever is retried.
IdsUnique ==
    \A c \in Clients : At(c, "return") =>
        /\ id[c] \notin issued
        /\ \A d \in Clients \ {c} : At(d, "return") => id[d] # id[c]

\* An id asked for after another was returned is larger: the earlier of two orders
\* is the one with the smaller id, which is how GetOrderPrice tells.
IdsInOrder == \A c \in Clients : At(c, "return") => \A i \in before[c] : i < id[c]

\* A call throws only if all but one of its attempts met a fault: losing races for
\* the row costs at most one attempt.
Persistent == \A c \in Clients : failed[c] = MaxAttempts => faults >= MaxAttempts - 1

=============================================================================
