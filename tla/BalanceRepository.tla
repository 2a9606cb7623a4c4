-------------------------- MODULE BalanceRepository --------------------------
(***************************************************************************)
(* BalanceRepository.ChangeBalanceAsync on one row, that of a trader and a *)
(* currency: what SrvOrdersExecutor's settlements and MockDeposit do to a  *)
(* balance, any number of them at once.                                    *)
(***************************************************************************)
EXTENDS TableRow

CONSTANT Deltas  \* amounts to add

ASSUME DeltaAssumption == Deltas \subseteq Int

VARIABLES
    delta,  \* what each call is to add
    thrown  \* a client's last call has thrown

vars == << row, seen, pc, calls, faults, delta, thrown >>

Init ==
    /\ RowInit
    /\ delta = [c \in Clients |-> 0]
    /\ thrown = [c \in Clients |-> FALSE]

ChangeBalance(c, d) ==
    /\ Begin(c)
    /\ delta' = [delta EXCEPT ![c] = d]
    /\ thrown' = [thrown EXCEPT ![c] = FALSE]
    /\ UNCHANGED seen

GetData(c) == Read(c) /\ UNCHANGED << delta, thrown >>

ReplaceAmount(c) == Replace(c, seen[c].value + delta[c]) /\ UNCHANGED << delta, thrown >>

Again(c) == Stale(c) /\ UNCHANGED << delta, thrown >>

InsertAmount(c) == Insert(c, delta[c]) /\ UNCHANGED << delta, thrown >>

\* Faulty variant: two first additions, and the second replaces the first.
ConflictOverwrites(c) ==
    /\ At(c, "insert")
    /\ row # Absent
    /\ Write(delta[c])
    /\ Goto(c, "return")
    /\ UNCHANGED << seen, calls, faults, delta, thrown >>

\* Two first additions: the second throws.  Nothing here catches it.
InsertConflict(c) ==
    /\ Conflict(c)
    /\ Goto(c, "idle")
    /\ thrown' = [thrown EXCEPT ![c] = TRUE]
    /\ UNCHANGED delta

Return(c) ==
    /\ At(c, "return")
    /\ Goto(c, "idle")
    /\ UNCHANGED << row, seen, calls, faults, delta, thrown >>

Throw(c) ==
    /\ Fault(c)
    /\ Goto(c, "idle")
    /\ thrown' = [thrown EXCEPT ![c] = TRUE]
    /\ UNCHANGED delta

Step(c) ==
    \/ GetData(c) \/ ReplaceAmount(c) \/ Again(c) \/ InsertAmount(c) \/ InsertConflict(c)
    \/ Return(c)

Wait == Quiet /\ UNCHANGED vars

Next ==
    \/ Wait
    \/ \E c \in Clients : Step(c) \/ Throw(c) \/ \E d \in Deltas : ChangeBalance(c, d)

Spec == Init /\ [][Next]_vars

\* Tables answer, and the scheduler runs what waits for them.
FairSpec == Spec /\ \A c \in Clients : WF_vars(Step(c))

-----------------------------------------------------------------------------

\* Types, and what makes optimistic concurrency work: a copy with the row's ETag
\* is the row, and a client about to insert once found no row.
TypeOK ==
    /\ RowTypes
    /\ delta \in [Clients -> Int]
    /\ thrown \in [Clients -> BOOLEAN]

Phase(c) == CASE pc[c] = "idle"   -> "idle"
              [] pc[c] = "return" -> "added"
              [] OTHER            -> "asked"

A == INSTANCE AtomicBalance WITH amount <- row.value, phase <- [c \in Clients |-> Phase(c)]

\* However calls interleave, none is lost or made twice: each is an addition to the
\* balance at one moment, as the settlements of OrderExecutor take it to be.
ImplementsAddition == A!Spec

\* A call that only finitely many others disturb ends, however often it loses the
\* race for the row.
CallsEnd == \A c \in Clients : ~ At(c, "idle") ~> At(c, "idle")

=============================================================================
