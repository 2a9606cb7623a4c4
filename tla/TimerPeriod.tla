----------------------------- MODULE TimerPeriod -----------------------------
(***************************************************************************)
(* TimerPeriod: an object that, once started, runs Execute again and again *)
(* with a pause in between.  Each effective Start begins a loop of its own *)
(* (Stop, which nothing calls, is not modelled).  What Execute does is for *)
(* the module that extends this one.                                       *)
(***************************************************************************)
CONSTANT Loops     \* bound: loops ever begun

VARIABLES
    working,  \* Working
    loop      \* where each loop is: "new", "check", "execute" or "pause"

timer == << working, loop >>

TimerInit ==
    /\ working = FALSE
    /\ loop = [l \in Loops |-> "new"]

GoLoop(l, from, to) == loop[l] = from /\ loop' = [loop EXCEPT ![l] = to]

\* Faulty variant: Start does not look whether the timer works.
StartAgain(l) ==
    /\ GoLoop(l, "new", "check")
    /\ working' = TRUE

Start(l) ==
    /\ ~ working
    /\ GoLoop(l, "new", "check")
    /\ working' = TRUE

\* while (Working)
Check(l) == working /\ GoLoop(l, "check", "execute") /\ UNCHANGED working

\* The Execute awaited is over.
Executed(l) == GoLoop(l, "execute", "pause") /\ UNCHANGED working

\* So is the pause.
Elapsed(l) == GoLoop(l, "pause", "check") /\ UNCHANGED working

=============================================================================
