------------------------------- MODULE Traders -------------------------------
(***************************************************************************)
(* TradersRepository and the requests of HomeController that use it: a     *)
(* trader is a row under an id of its own and an index row under the       *)
(* e-mail address in lower case.  Both are written by a sign-up, one after *)
(* the other, after a look whether the address is taken; a sign-in follows *)
(* the index.  Requests run at the same time, and any may be cut short.    *)
(*                                                                         *)
(* An id is a Guid: one that has not been drawn before.  A password stands *)
(* for its salted hash.                                                    *)
(***************************************************************************)
EXTENDS Naturals, FiniteSets

CONSTANTS
    Requests,     \* requests that may be under way at the same time
    Addresses,    \* e-mail addresses as people write them
    ToLower(_),   \* string.ToLower
    Passwords,
    Ids,          \* ids traders may get
    Nobody,       \* none of them
    MaxSignUps,   \* bound: sign-ups
    MaxSignIns,   \* bound: sign-ins
    MaxFaults     \* bound: requests cut short

ASSUME TradersAssumption ==
    /\ \A a \in Addresses : ToLower(a) \in Addresses /\ ToLower(ToLower(a)) = ToLower(a)
    /\ Nobody \notin Ids
    /\ IsFiniteSet(Ids) /\ MaxSignUps =< Cardinality(Ids)
    /\ {MaxSignUps, MaxSignIns, MaxFaults} \subseteq Nat

VARIABLES
    index,    \* the index rows: the id under each address, or Nobody
    trader,   \* the trader rows: e-mail and password under each id, or NoRow
    pc,       \* where each request is
    form,     \* what it has been sent: address, password, and password again
    id,       \* the id it has drawn, or found in the index
    user,     \* whom its last answer signed in, or Nobody
    drawn,    \* the ids drawn so far
    signUps,  \* sign-ups so far               (counts for MaxSignUps)
    signIns,  \* sign-ins so far               (counts for MaxSignIns)
    faults    \* requests cut short so far     (counts for MaxFaults)

tables == << index, trader >>
counters == << signUps, signIns, faults >>
vars == << tables, pc, form, id, user, drawn, counters >>

Rows == [email : Addresses, password : Passwords]
NoRow == << >>

Forms == [email : Addresses, password : Passwords, again : Passwords]
Empty == << >>

Init ==
    /\ index = [a \in Addresses |-> Nobody]
    /\ trader = [i \in Ids |-> NoRow]
    /\ pc = [r \in Requests |-> "idle"]
    /\ form = [r \in Requests |-> Empty]
    /\ id = [r \in Requests |-> Nobody]
    /\ user = [r \in Requests |-> Nobody]
    /\ drawn = {}
    /\ signUps = 0 /\ signIns = 0 /\ faults = 0

Labels == {"idle", "exists", "index", "trader", "find", "check"}
At(r, label) == pc[r] = label
Goto(r, label) == pc' = [pc EXCEPT ![r] = label]

\* The request's answer; its locals are gone.
Answer(r, who) ==
    /\ Goto(r, "idle")
    /\ user' = [user EXCEPT ![r] = who]
    /\ id' = [id EXCEPT ![r] = Nobody]

Ask(r, f, label) ==
    /\ At(r, "idle")
    /\ form' = [form EXCEPT ![r] = f]
    /\ user' = [user EXCEPT ![r] = Nobody]
    /\ Goto(r, label)

-----------------------------------------------------------------------------

\* SignUp, with a form whose fields are filled in; the passwords may differ.
SignUp(r, f) ==
    /\ signUps < MaxSignUps
    /\ signUps' = signUps + 1
    /\ Ask(r, f, "exists")
    /\ UNCHANGED << tables, id, drawn, signIns, faults >>

\* IsTraderWithEmailExistsAsync, where the address is looked up as it was typed: it is
\* taken, or the passwords turn out to differ.
Refuse(r) ==
    /\ At(r, "exists")
    /\ index[form[r].email] # Nobody \/ form[r].password # form[r].again
    /\ Answer(r, Nobody)
    /\ UNCHANGED << tables, form, drawn, counters >>

\* It is free: TraderEntity.CreateNew draws an id.
CreateNew(r) ==
    /\ At(r, "exists")
    /\ index[form[r].email] = Nobody /\ form[r].password = form[r].again
    /\ \E i \in Ids \ drawn :
           /\ drawn' = drawn \cup {i}
           /\ id' = [id EXCEPT ![r] = i]
    /\ Goto(r, "index")
    /\ UNCHANGED << tables, form, user, counters >>

Email(r) == ToLower(form[r].email)

\* Faulty variant: the later sign-up takes the address over.
InsertOrReplaceIndex(r) ==
    /\ At(r, "index")
    /\ index' = [index EXCEPT ![Email(r)] = id[r]]
    /\ Goto(r, "trader")
    /\ UNCHANGED << trader, form, id, user, drawn, counters >>

\* RegisterAsync, the insert into the index.
InsertIndex(r) ==
    /\ At(r, "index")
    /\ index[Email(r)] = Nobody
    /\ index' = [index EXCEPT ![Email(r)] = id[r]]
    /\ Goto(r, "trader")
    /\ UNCHANGED << trader, form, id, user, drawn, counters >>

\* Faulty variant: the conflict is taken for a sign-up repeated, and written again.
Repeated(r) ==
    /\ At(r, "index")
    /\ index[Email(r)] # Nobody
    /\ id' = [id EXCEPT ![r] = index[Email(r)]]
    /\ Goto(r, "trader")
    /\ UNCHANGED << tables, form, user, drawn, counters >>

\* Somebody was faster: the insert throws, and so does the request.
IndexConflict(r) ==
    /\ At(r, "index")
    /\ index[Email(r)] # Nobody
    /\ Answer(r, Nobody)
    /\ UNCHANGED << tables, form, drawn, counters >>

\* The insert of the trader; the request answers and signs him in.
InsertTrader(r) ==
    /\ At(r, "trader")
    /\ trader' = [trader EXCEPT ![id[r]] = [email |-> Email(r), password |-> form[r].password]]
    /\ Answer(r, id[r])
    /\ UNCHANGED << index, form, drawn, counters >>

-----------------------------------------------------------------------------

SignIn(r, f) ==
    /\ signIns < MaxSignIns
    /\ signIns' = signIns + 1
    /\ f.password = f.again   \* a sign-in has no second one
    /\ Ask(r, f, "find")
    /\ UNCHANGED << tables, id, drawn, signUps, faults >>

\* AuthenticateAsync: the index row, again under the address as it was typed ...
Find(r) ==
    /\ At(r, "find")
    /\ IF index[form[r].email] = Nobody
       THEN Answer(r, Nobody)
       ELSE /\ id' = [id EXCEPT ![r] = index[form[r].email]]
            /\ Goto(r, "check")
            /\ UNCHANGED user
    /\ UNCHANGED << tables, form, drawn, counters >>

\* Faulty variant: the password is not compared.
CheckPasswordSkipped(r) ==
    /\ At(r, "check")
    /\ Answer(r, IF trader[id[r]] # NoRow THEN id[r] ELSE Nobody)
    /\ UNCHANGED << tables, form, drawn, counters >>

\* ... and the trader row, which may be missing, and its password.
CheckPassword(r) ==
    /\ At(r, "check")
    /\ Answer(r, IF trader[id[r]] # NoRow /\ trader[id[r]].password = form[r].password
                 THEN id[r] ELSE Nobody)
    /\ UNCHANGED << tables, form, drawn, counters >>

\* A crash, or an exception from a table.
Fail(r) ==
    /\ ~ At(r, "idle")
    /\ faults < MaxFaults
    /\ faults' = faults + 1
    /\ Answer(r, Nobody)
    /\ UNCHANGED << tables, form, drawn, signUps, signIns >>

-----------------------------------------------------------------------------

Step(r) ==
    \/ Refuse(r) \/ CreateNew(r) \/ InsertIndex(r) \/ IndexConflict(r) \/ InsertTrader(r)
    \/ Find(r) \/ CheckPassword(r)

\* The site waits for requests.
Wait == (\A r \in Requests : At(r, "idle")) /\ UNCHANGED vars

Next ==
    \/ Wait
    \/ \E r \in Requests :
           \/ Step(r) \/ Fail(r)
           \/ \E f \in Forms : SignUp(r, f) \/ SignIn(r, f)

Spec == Init /\ [][Next]_vars

-----------------------------------------------------------------------------

TypeOK ==
    /\ index \in [Addresses -> Ids \cup {Nobody}]
    /\ trader \in [Ids -> Rows \cup {NoRow}]
    /\ pc \in [Requests -> Labels]
    /\ form \in [Requests -> Forms \cup {Empty}]
    /\ id \in [Requests -> Ids \cup {Nobody}]
    /\ user \in [Requests -> Ids \cup {Nobody}]
    /\ drawn \subseteq Ids
    /\ signUps \in 0..MaxSignUps /\ signIns \in 0..MaxSignIns /\ faults \in 0..MaxFaults
    /\ \A r \in Requests : pc[r] # "idle" => form[r] \in Forms
    /\ \A r \in Requests : pc[r] \in {"index", "trader", "check"} <=> id[r] # Nobody

\* However sign-ups race, no two traders have one address, in whatever letters it was
\* typed; and each is the one his address leads to.
OneTraderPerAddress ==
    \A i \in Ids : trader[i] # NoRow =>
        /\ index[trader[i].email] = i
        /\ \A j \in Ids \ {i} : trader[j] # NoRow => trader[j].email # trader[i].email

\* Who is signed in has given the address and the password of that trader.
RightUser ==
    \A r \in Requests : At(r, "idle") /\ user[r] # Nobody =>
        trader[user[r]] = [email |-> ToLower(form[r].email), password |-> form[r].password]

\* A trader's password is the one he signed up with, for ever.
PasswordKept == [][\A i \in Ids : trader[i] # NoRow => trader'[i] = trader[i]]_vars

=============================================================================
