---------------------------- MODULE TradersProofs ----------------------------
(***************************************************************************)
(* However many requests run at once, and wherever they are cut short: no  *)
(* two traders have one address, nobody is signed in as somebody else, and *)
(* passwords stay.                                                         *)
(***************************************************************************)
EXTENDS Traders, TLAPS

\* Index rows are for lower-case addresses; no two lead to one id.
IndexInv ==
    /\ \A a \in Addresses : index[a] # Nobody => index[a] \in drawn /\ ToLower(a) = a
    /\ \A a, b \in Addresses : index[a] # Nobody /\ index[a] = index[b] => a = b

\* A trader is where the index says.
TraderInv ==
    \A i \in Ids : trader[i] # NoRow => i \in drawn /\ index[trader[i].email] = i

\* A sign-up's id is its own, and not used before it is inserted.
SignUpInv ==
    /\ \A r \in Requests : pc[r] \in {"index", "trader"} =>
           id[r] \in drawn /\ trader[id[r]] = NoRow
    /\ \A r \in Requests : pc[r] = "index" => \A a \in Addresses : index[a] # id[r]
    /\ \A r \in Requests : pc[r] = "trader" => index[Email(r)] = id[r]
    /\ \A r, q \in Requests :
           pc[r] \in {"index", "trader"} /\ pc[q] \in {"index", "trader"} /\ r # q => id[r] # id[q]

\* A sign-in goes where the index led it.
SignInInv == \A r \in Requests : pc[r] = "check" => id[r] = index[form[r].email]

Inv == TypeOK /\ IndexInv /\ TraderInv /\ SignUpInv /\ SignInInv /\ RightUser

\* No rows, no requests.
LEMMA InitInv == Init => Inv
  <1> SUFFICES ASSUME Init PROVE Inv
    OBVIOUS
  <1>1. TypeOK
    BY TradersAssumption DEF Init, TypeOK, Labels
  <1> QED
    BY <1>1 DEF Init, Inv, IndexInv, TraderInv, SignUpInv, SignInInv, RightUser, At

\* An answer that signs in nobody, or the trader whose address and password were given.
LEMMA AnswerInv ==
  ASSUME Inv, NEW r \in Requests, NEW who \in Ids \cup {Nobody},
         Answer(r, who), UNCHANGED << index, trader, form, drawn >>,
         signUps' \in 0..MaxSignUps, signIns' \in 0..MaxSignIns, faults' \in 0..MaxFaults,
         who # Nobody => trader[who] = [email |-> Email(r), password |-> form[r].password]
  PROVE  Inv'
  <1>1. \A q \in Requests :
           /\ pc'[q] = IF q = r THEN "idle" ELSE pc[q]
           /\ id'[q] = IF q = r THEN Nobody ELSE id[q]
           /\ user'[q] = IF q = r THEN who ELSE user[q]
    BY DEF Inv, TypeOK, Answer, Goto
  <1>2. TypeOK'
    <2>1. pc' \in [Requests -> Labels]
      BY DEF Inv, TypeOK, Answer, Goto, Labels
    <2>2. id' \in [Requests -> Ids \cup {Nobody}] /\ user' \in [Requests -> Ids \cup {Nobody}]
      BY DEF Inv, TypeOK, Answer
    <2> QED
      BY <1>1, <2>1, <2>2 DEF Inv, TypeOK
  <1>3. IndexInv' /\ TraderInv'
    BY DEF Inv, IndexInv, TraderInv
  <1>4. SignUpInv'
    BY <1>1 DEF Inv, SignUpInv, Email
  <1>5. SignInInv'
    BY <1>1 DEF Inv, SignInInv
  <1>6. RightUser'
    BY <1>1 DEF Inv, RightUser, At, Email
  <1> QED
    BY <1>2, <1>3, <1>4, <1>5, <1>6 DEF Inv

\* A new request, of either kind.
LEMMA AskInv ==
  ASSUME Inv, NEW r \in Requests, NEW f \in Forms, SignUp(r, f) \/ SignIn(r, f)
  PROVE  Inv'
  <1>1. PICK label \in {"exists", "find"} : Ask(r, f, label)
    BY DEF SignUp, SignIn
  <1>2. /\ UNCHANGED << index, trader, id, drawn >>
        /\ signUps' \in 0..MaxSignUps /\ signIns' \in 0..MaxSignIns /\ faults' \in 0..MaxFaults
    BY TradersAssumption DEF SignUp, SignIn, tables, Inv, TypeOK
  <1>3. /\ pc[r] = "idle"
        /\ \A q \in Requests :
             /\ pc'[q] = IF q = r THEN label ELSE pc[q]
             /\ form'[q] = IF q = r THEN f ELSE form[q]
             /\ user'[q] = IF q = r THEN Nobody ELSE user[q]
    BY <1>1 DEF Inv, TypeOK, Ask, Goto, At
  <1>4. TypeOK'
    <2>1. pc' \in [Requests -> Labels]
      BY <1>1 DEF Inv, TypeOK, Ask, Goto, Labels
    <2>2. form' \in [Requests -> Forms \cup {Empty}] /\ user' \in [Requests -> Ids \cup {Nobody}]
      BY <1>1 DEF Inv, TypeOK, Ask
    <2> QED
      BY <1>2, <1>3, <2>1, <2>2 DEF Inv, TypeOK
  <1>5. IndexInv' /\ TraderInv'
    BY <1>2 DEF Inv, IndexInv, TraderInv
  <1>6. SignUpInv'
    BY <1>2, <1>3 DEF Inv, SignUpInv, Email
  <1>7. SignInInv'
    BY <1>2, <1>3 DEF Inv, SignInInv
  <1>8. RightUser'
    BY <1>2, <1>3 DEF Inv, RightUser, At
  <1> QED
    BY <1>4, <1>5, <1>6, <1>7, <1>8 DEF Inv

\* The id drawn is nobody's.
LEMMA CreateNewInv ==
  ASSUME Inv, NEW r \in Requests, CreateNew(r)
  PROVE  Inv'
  <1>1. PICK i \in Ids \ drawn : drawn' = drawn \cup {i} /\ id' = [id EXCEPT ![r] = i]
    BY DEF CreateNew
  <1>2. /\ UNCHANGED << index, trader, form, user, signUps, signIns, faults >>
        /\ pc[r] = "exists"
        /\ \A q \in Requests :
             /\ pc'[q] = IF q = r THEN "index" ELSE pc[q]
             /\ id'[q] = IF q = r THEN i ELSE id[q]
    BY <1>1 DEF Inv, TypeOK, CreateNew, Goto, At, tables, counters
  <1>3. TypeOK'
    <2>1. pc' \in [Requests -> Labels]
      BY DEF Inv, TypeOK, CreateNew, Goto, Labels
    <2>2. id' \in [Requests -> Ids \cup {Nobody}] /\ drawn' \subseteq Ids
      BY <1>1 DEF Inv, TypeOK
    <2> QED
      BY <1>2, <2>1, <2>2, TradersAssumption DEF Inv, TypeOK
  <1>4. IndexInv' /\ TraderInv'
    BY <1>1, <1>2 DEF Inv, IndexInv, TraderInv
  <1>5. SignUpInv'
    <2>1. trader[i] = NoRow /\ \A a \in Addresses : index[a] # i
      BY <1>1, TradersAssumption DEF Inv, IndexInv, TraderInv
    <2> QED
      BY <1>1, <1>2, <2>1 DEF Inv, SignUpInv, Email
  <1>6. SignInInv' /\ RightUser'
    BY <1>2 DEF Inv, SignInInv, RightUser, At
  <1> QED
    BY <1>3, <1>4, <1>5, <1>6 DEF Inv

\* The index gets a row for a free address, under a new id.
LEMMA InsertIndexInv ==
  ASSUME Inv, NEW r \in Requests, InsertIndex(r)
  PROVE  Inv'
  <1>1. /\ UNCHANGED << trader, form, id, user, drawn, signUps, signIns, faults >>
        /\ pc[r] = "index" /\ index[Email(r)] = Nobody /\ id[r] \in Ids
        /\ \A q \in Requests : pc'[q] = IF q = r THEN "trader" ELSE pc[q]
    BY TradersAssumption DEF Inv, TypeOK, InsertIndex, Goto, At, counters
  <1>2. Email(r) \in Addresses /\ ToLower(Email(r)) = Email(r)
    BY <1>1, TradersAssumption DEF Inv, TypeOK, Email, Forms
  <1>3. \A a \in Addresses : index'[a] = IF a = Email(r) THEN id[r] ELSE index[a]
    BY DEF Inv, TypeOK, InsertIndex
  <1>4. TypeOK'
    <2>1. pc' \in [Requests -> Labels] /\ index' \in [Addresses -> Ids \cup {Nobody}]
      BY <1>1 DEF Inv, TypeOK, InsertIndex, Goto, Labels
    <2> QED
      BY <1>1, <2>1 DEF Inv, TypeOK
  <1>5. IndexInv'
    BY <1>1, <1>2, <1>3 DEF Inv, IndexInv, SignUpInv
  <1>6. TraderInv'
    <2> SUFFICES ASSUME NEW i \in Ids, trader[i] # NoRow PROVE index'[trader[i].email] = i
      BY <1>1 DEF Inv, TraderInv
    <2>1. index[trader[i].email] = i /\ trader[i].email \in Addresses /\ i # Nobody
      BY TradersAssumption DEF Inv, TypeOK, TraderInv, Rows
    <2> QED
      BY <1>1, <1>3, <2>1
  <1>7. SignUpInv'
    <2>1. \A q \in Requests : Email(q)' = Email(q)
      BY <1>1 DEF Email
    <2>2. \A q \in Requests : pc[q] = "trader" => index'[Email(q)] = id[q]
      <3> SUFFICES ASSUME NEW q \in Requests, pc[q] = "trader"
                   PROVE  index'[Email(q)] = id[q]
        OBVIOUS
      <3>1. index[Email(q)] = id[q] /\ id[q] # Nobody
        BY DEF Inv, TypeOK, SignUpInv
      <3>2. Email(q) \in Addresses
        BY TradersAssumption DEF Inv, TypeOK, Email, Forms
      <3> QED
        BY <1>1, <1>3, <3>1, <3>2
    <2> QED
      BY <1>1, <1>2, <1>3, <2>1, <2>2 DEF Inv, SignUpInv
  <1>8. SignInInv'
    <2> SUFFICES ASSUME NEW q \in Requests, pc[q] = "check"
                 PROVE  id[q] = index'[form[q].email]
      BY <1>1 DEF SignInInv
    <2>1. id[q] = index[form[q].email] /\ id[q] # Nobody /\ form[q].email \in Addresses
      BY DEF Inv, TypeOK, SignInInv, Forms
    <2> QED
      BY <1>1, <1>3, <2>1
  <1>9. RightUser'
    BY <1>1 DEF Inv, RightUser, At
  <1> QED
    BY <1>4, <1>5, <1>6, <1>7, <1>8, <1>9 DEF Inv

\* The trader the request has an index row for; nobody else's row changes.
LEMMA InsertTraderInv ==
  ASSUME Inv, NEW r \in Requests, InsertTrader(r)
  PROVE  Inv'
  <1> DEFINE row == [email |-> Email(r), password |-> form[r].password]
  <1>1. /\ UNCHANGED << index, form, drawn, signUps, signIns, faults >>
        /\ pc[r] = "trader" /\ id[r] \in Ids /\ id[r] # Nobody
        /\ \A q \in Requests :
             /\ pc'[q] = IF q = r THEN "idle" ELSE pc[q]
             /\ id'[q] = IF q = r THEN Nobody ELSE id[q]
             /\ user'[q] = IF q = r THEN id[r] ELSE user[q]
    BY TradersAssumption DEF Inv, TypeOK, InsertTrader, Answer, Goto, At, counters
  <1>2. row \in Rows
    BY <1>1, TradersAssumption DEF Inv, TypeOK, Email, Forms, Rows
  <1>3. \A i \in Ids : trader'[i] = IF i = id[r] THEN row ELSE trader[i]
    BY DEF Inv, TypeOK, InsertTrader
  <1>4. TypeOK'
    <2>1. pc' \in [Requests -> Labels]
      BY DEF Inv, TypeOK, InsertTrader, Answer, Goto, Labels
    <2>2. trader' \in [Ids -> Rows \cup {NoRow}]
      BY <1>2 DEF Inv, TypeOK, InsertTrader
    <2>3. id' \in [Requests -> Ids \cup {Nobody}] /\ user' \in [Requests -> Ids \cup {Nobody}]
      BY <1>1 DEF Inv, TypeOK, InsertTrader, Answer
    <2> QED
      BY <1>1, <2>1, <2>2, <2>3 DEF Inv, TypeOK
  <1>5. IndexInv'
    BY <1>1 DEF Inv, IndexInv
  <1>6. TraderInv'
    BY <1>1, <1>3 DEF Inv, TraderInv, SignUpInv
  <1>7. SignUpInv'
    BY <1>1, <1>3 DEF Inv, TypeOK, SignUpInv, Email
  <1>8. SignInInv'
    BY <1>1 DEF Inv, SignInInv
  <1>9. RightUser'
    <2> SUFFICES ASSUME NEW q \in Requests, pc'[q] = "idle", user'[q] # Nobody
                 PROVE  trader'[user'[q]] = [email |-> Email(q), password |-> form[q].password]
      BY <1>1 DEF RightUser, At, Email
    <2>1. CASE q = r
      BY <1>1, <1>3, <2>1
    <2>2. CASE q # r
      <3>1. /\ user[q] \in Ids /\ user'[q] = user[q]
            /\ trader[user[q]] = [email |-> Email(q), password |-> form[q].password]
        BY <1>1, <2>2 DEF Inv, TypeOK, RightUser, At, Email
      <3>2. trader[id[r]] = NoRow
        BY <1>1 DEF Inv, SignUpInv
      <3>3. [email |-> Email(q), password |-> form[q].password] # NoRow
        BY DEF NoRow
      <3> QED
        BY <1>3, <3>1, <3>2, <3>3
    <2> QED
      BY <2>1, <2>2
  <1> QED
    BY <1>4, <1>5, <1>6, <1>7, <1>8, <1>9 DEF Inv

\* A sign-in that has found an index row follows it.
LEMMA FindInv ==
  ASSUME Inv, NEW r \in Requests, Find(r), index[form[r].email] # Nobody
  PROVE  Inv'
  <1>1. /\ UNCHANGED << index, trader, form, user, drawn, signUps, signIns, faults >>
        /\ pc[r] = "find" /\ form[r].email \in Addresses
        /\ pc' = [pc EXCEPT ![r] = "check"]
        /\ id' = [id EXCEPT ![r] = index[form[r].email]]
    BY DEF Inv, TypeOK, Forms, Find, Goto, At, tables, counters
  <1>2. \A q \in Requests :
           /\ pc'[q] = IF q = r THEN "check" ELSE pc[q]
           /\ id'[q] = IF q = r THEN index[form[r].email] ELSE id[q]
    BY <1>1 DEF Inv, TypeOK
  <1>3. TypeOK'
    <2>1. pc' \in [Requests -> Labels]
      BY <1>1 DEF Inv, TypeOK, Labels
    <2>2. index[form[r].email] \in Ids \cup {Nobody}
      BY <1>1 DEF Inv, TypeOK
    <2>3. id' \in [Requests -> Ids \cup {Nobody}]
      BY <1>1, <2>2 DEF Inv, TypeOK
    <2> QED
      BY <1>1, <1>2, <2>1, <2>3 DEF Inv, TypeOK
  <1>4. IndexInv' /\ TraderInv'
    BY <1>1 DEF Inv, IndexInv, TraderInv
  <1>5. SignUpInv'
    BY <1>1, <1>2 DEF Inv, SignUpInv, Email
  <1>6. SignInInv' /\ RightUser'
    BY <1>1, <1>2 DEF Inv, SignInInv, RightUser, At
  <1> QED
    BY <1>3, <1>4, <1>5, <1>6 DEF Inv

\* The trader a sign-in has found has the address it asked for.
LEMMA CheckPasswordInv ==
  ASSUME Inv, NEW r \in Requests, CheckPassword(r)
  PROVE  Inv'
  <1> DEFINE row == [email |-> Email(r), password |-> form[r].password]
  <1>1. PICK who \in Ids \cup {Nobody} :
           /\ Answer(r, who)
           /\ who # Nobody =>
                /\ who = id[r]
                /\ trader[who] # NoRow
                /\ trader[who].password = form[r].password
    BY TradersAssumption DEF Inv, TypeOK, CheckPassword
  <1>2. /\ UNCHANGED << index, trader, form, drawn, signUps, signIns, faults >>
        /\ pc[r] = "check"
    BY DEF CheckPassword, tables, counters, At
  <1>3. ASSUME who # Nobody PROVE trader[who] = row
    <2>1. who \in Ids /\ trader[who] \in Rows /\ index[trader[who].email] = who
      BY <1>1, <1>3 DEF Inv, TypeOK, TraderInv
    <2>2. index[form[r].email] = who /\ form[r].email \in Addresses
      BY <1>1, <1>2, <1>3 DEF Inv, TypeOK, SignInInv, Forms
    <2>3. trader[who].email = form[r].email /\ ToLower(form[r].email) = form[r].email
      BY <2>1, <2>2, <1>3 DEF Inv, IndexInv, Rows
    <2> QED
      BY <1>1, <1>3, <2>1, <2>3 DEF Rows, Email
  <1>4. signUps' \in 0..MaxSignUps /\ signIns' \in 0..MaxSignIns /\ faults' \in 0..MaxFaults
    BY <1>2 DEF Inv, TypeOK
  <1> QED
    BY <1>1, <1>2, <1>3, <1>4, AnswerInv

\* Every step keeps the invariant.
LEMMA StepInv == Inv /\ [Next]_vars => Inv'
  <1> SUFFICES ASSUME Inv, [Next]_vars PROVE Inv'
    OBVIOUS
  <1>1. CASE UNCHANGED vars
    BY <1>1 DEF vars, tables, counters, Inv, TypeOK, IndexInv, TraderInv, SignUpInv, SignInInv,
                RightUser, At, Email
  <1>2. ASSUME NEW r \in Requests, Step(r) \/ Fail(r) PROVE Inv'
    <2>1. CASE Refuse(r) \/ IndexConflict(r) \/ (Find(r) /\ index[form[r].email] = Nobody)
      <3>1. Answer(r, Nobody) /\ UNCHANGED << index, trader, form, drawn, signUps, signIns, faults >>
        BY <2>1 DEF Refuse, IndexConflict, Find, tables, counters
      <3>2. signUps' \in 0..MaxSignUps /\ signIns' \in 0..MaxSignIns /\ faults' \in 0..MaxFaults
        BY <3>1 DEF Inv, TypeOK
      <3> QED
        BY <3>1, <3>2, AnswerInv
    <2>2. CASE Fail(r)
      <3>1. Answer(r, Nobody) /\ UNCHANGED << index, trader, form, drawn, signUps, signIns >>
        BY <2>2 DEF Fail, tables
      <3>2. signUps' \in 0..MaxSignUps /\ signIns' \in 0..MaxSignIns /\ faults' \in 0..MaxFaults
        BY <2>2, <3>1, TradersAssumption DEF Inv, TypeOK, Fail
      <3> QED
        BY <3>1, <3>2, AnswerInv
    <2> QED
      BY <1>2, <2>1, <2>2, CreateNewInv, InsertIndexInv, InsertTraderInv, FindInv, CheckPasswordInv
      DEF Step
  <1>3. ASSUME NEW r \in Requests, NEW f \in Forms, SignUp(r, f) \/ SignIn(r, f) PROVE Inv'
    BY <1>3, AskInv
  <1> QED
    BY <1>1, <1>2, <1>3 DEF Next, Wait

\* Hence it always holds.
LEMMA Invariance == Spec => []Inv
  BY InitInv, StepInv, PTL DEF Spec

-----------------------------------------------------------------------------

\* RegisterAsync: however sign-ups race, no two traders have one address, and each is the
\* one his address leads to.
THEOREM AddressesUnique == Spec => []OneTraderPerAddress
  <1>1. Inv => OneTraderPerAddress
    BY DEF Inv, TraderInv, OneTraderPerAddress
  <1> QED
    BY <1>1, Invariance, PTL

\* AuthenticateAsync and SignUp: who is signed in has given that trader's address and
\* password.
THEOREM SignedInAsOneself == Spec => []RightUser
  <1>1. Inv => RightUser
    BY DEF Inv
  <1> QED
    BY <1>1, Invariance, PTL

\* RegisterAsync: a trader's password is never replaced by another sign-up.
THEOREM PasswordsStay == Spec => PasswordKept
  <1>1. Inv /\ [Next]_vars => [\A i \in Ids : trader[i] # NoRow => trader'[i] = trader[i]]_vars
    <2> SUFFICES ASSUME Inv, Next, NEW i \in Ids, trader[i] # NoRow PROVE trader'[i] = trader[i]
      OBVIOUS
    <2>1. ASSUME NEW r \in Requests, InsertTrader(r) PROVE trader'[i] = trader[i]
      <3>1. trader[id[r]] = NoRow
        BY <2>1 DEF Inv, SignUpInv, InsertTrader, At
      <3> QED
        BY <2>1, <3>1 DEF Inv, TypeOK, InsertTrader
    <2>2. ASSUME NEW r \in Requests,
                 \/ Refuse(r) \/ CreateNew(r) \/ InsertIndex(r) \/ IndexConflict(r)
                 \/ Find(r) \/ CheckPassword(r) \/ Fail(r)
                 \/ \E f \in Forms : SignUp(r, f) \/ SignIn(r, f)
          PROVE  UNCHANGED trader
      BY <2>2 DEF Refuse, CreateNew, InsertIndex, IndexConflict, Find, CheckPassword, Fail,
                  SignUp, SignIn, tables
    <2> QED
      BY <2>1, <2>2 DEF Next, Wait, Step, vars, tables
  <1> QED
    BY <1>1, Invariance, PTL DEF Spec, PasswordKept

=============================================================================
