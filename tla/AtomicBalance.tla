---------------------------- MODULE AtomicBalance ----------------------------
(***************************************************************************)
(* What a caller of SrvBalanceAccess.ChangeBalance may rely on: the        *)
(* addition is made once, at one moment of the call, when the call         *)
(* returns; and at most once when the call throws.  A row that does not    *)
(* exist is a balance of 0 (GetCurrencyBalances).                          *)
(***************************************************************************)
EXTENDS Integers

CONSTANTS Clients, Deltas, MaxCalls

VARIABLES
    amount,  \* the balance
    phase,   \* of each client's call: "idle", "asked" or "added"
    delta,   \* what it is asked to add
    thrown,  \* its last call has thrown
    calls    \* calls made so far (counts for MaxCalls)

vars == << amount, phase, delta, thrown, calls >>

Init ==
    /\ amount = 0
    /\ phase = [c \in Clients |-> "idle"]
    /\ delta = [c \in Clients |-> 0]
    /\ thrown = [c \in Clients |-> FALSE]
    /\ calls = 0

Ask(c, d) ==
    /\ phase[c] = "idle"
    /\ calls < MaxCalls
    /\ calls' = calls + 1
    /\ phase' = [phase EXCEPT ![c] = "asked"]
    /\ delta' = [delta EXCEPT ![c] = d]
    /\ thrown' = [thrown EXCEPT ![c] = FALSE]
    /\ UNCHANGED amount

Add(c) ==
    /\ phase[c] = "asked"
    /\ amount' = amount + delta[c]
    /\ phase' = [phase EXCEPT ![c] = "added"]
    /\ UNCHANGED << delta, thrown, calls >>

Return(c) ==
    /\ phase[c] = "added"
    /\ phase' = [phase EXCEPT ![c] = "idle"]
    /\ UNCHANGED << amount, delta, thrown, calls >>

Throw(c) ==
    /\ phase[c] \in {"asked", "added"}
    /\ phase' = [phase EXCEPT ![c] = "idle"]
    /\ thrown' = [thrown EXCEPT ![c] = TRUE]
    /\ UNCHANGED << amount, delta, calls >>

Next == \E c \in Clients : Add(c) \/ Return(c) \/ Throw(c) \/ \E d \in Deltas : Ask(c, d)

Spec == Init /\ [][Next]_vars

=============================================================================
