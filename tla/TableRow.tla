------------------------------ MODULE TableRow ------------------------------
(***************************************************************************)
(* One row of a table and the clients that change it under optimistic      *)
(* concurrency: AzureTableStorage.ReplaceAsync and InsertAsync, which      *)
(* BalanceRepository and IdentityGenerator build their operations from.    *)
(* Neither ever deletes its row.                                           *)
(*                                                                         *)
(* Clients may be tasks of one process or of several; every table          *)
(* operation may also fail, before or after it has had its effect.         *)
(***************************************************************************)
EXTENDS Integers

CONSTANTS
    Clients,   \* calls that may be under way at the same time
    MaxCalls,  \* bound: calls ever made
    MaxFaults  \* bound: table operations that ever fail

ASSUME RowAssumption == MaxCalls \in Nat /\ MaxFaults \in Nat

VARIABLES
    row,    \* the row in the table: its value, and the ETag of its last write
    seen,   \* the entity each client has read
    pc,     \* where each call is
    calls,  \* calls made so far           (counts for MaxCalls)
    faults  \* operations failed so far    (counts for MaxFaults)

Absent == [etag |-> 0, value |-> 0]

RowInit ==
    /\ row = Absent
    /\ seen = [c \in Clients |-> Absent]
    /\ pc = [c \in Clients |-> "idle"]
    /\ calls = 0 /\ faults = 0

At(c, label) == pc[c] = label
Goto(c, label) == pc' = [pc EXCEPT ![c] = label]

Begin(c) ==
    /\ At(c, "idle")
    /\ calls < MaxCalls
    /\ calls' = calls + 1
    /\ Goto(c, "read")
    /\ UNCHANGED << row, faults >>

\* GetDataAsync; without a row ReplaceAsync returns null and the caller inserts.
Read(c) ==
    /\ At(c, "read")
    /\ seen' = [seen EXCEPT ![c] = row]
    /\ Goto(c, IF row = Absent THEN "insert" ELSE "replace")
    /\ UNCHANGED << row, calls, faults >>

\* Every write gives the row an ETag it did not have before.
Write(v) == row' = [etag |-> row.etag + 1, value |-> v]

\* TableOperation.Replace(result), with v computed from the entity read.
Replace(c, v) ==
    /\ At(c, "replace")
    /\ seen[c].etag = row.etag
    /\ Write(v)
    /\ Goto(c, "return")
    /\ UNCHANGED << seen, calls, faults >>

\* Faulty variant: the loop does not read the row again.
StaleUnread(c) ==
    /\ At(c, "replace")
    /\ seen[c].etag # row.etag
    /\ Goto(c, "replace")
    /\ UNCHANGED << row, seen, calls, faults >>

\* Status 412: somebody else has written; the loop of ReplaceAsync starts again.
Stale(c) ==
    /\ At(c, "replace")
    /\ seen[c].etag # row.etag
    /\ Goto(c, "read")
    /\ UNCHANGED << row, seen, calls, faults >>

\* Faulty variant: an insert-or-replace.
InsertOrReplace(c, v) ==
    /\ At(c, "insert")
    /\ Write(v)
    /\ Goto(c, "return")
    /\ UNCHANGED << seen, calls, faults >>

\* TableOperation.Insert.
Insert(c, v) ==
    /\ At(c, "insert")
    /\ row = Absent
    /\ Write(v)
    /\ Goto(c, "return")
    /\ UNCHANGED << seen, calls, faults >>

\* Status 409: InsertAsync throws.
Conflict(c) == At(c, "insert") /\ row # Absent /\ UNCHANGED << row, seen, calls, faults >>

\* The operation awaited fails: its request is lost, or, at "return", its answer.
Fault(c) ==
    /\ ~ At(c, "idle")
    /\ faults < MaxFaults
    /\ faults' = faults + 1
    /\ UNCHANGED << row, seen, calls >>

\* Nobody calls.
Quiet == \A c \in Clients : At(c, "idle")

Labels == {"idle", "read", "replace", "insert", "return"}

\* What every client of the row relies on: a copy with the row's ETag is the row.
RowTypes ==
    /\ row \in [etag : Nat, value : Int]
    /\ row.etag = 0 => row = Absent
    /\ seen \in [Clients -> [etag : Nat, value : Int]]
    /\ pc \in [Clients -> Labels]
    /\ calls \in 0..MaxCalls /\ faults \in 0..MaxFaults
    /\ \A c \in Clients : /\ seen[c].etag =< row.etag
                          /\ seen[c].etag = row.etag => seen[c] = row

=============================================================================
