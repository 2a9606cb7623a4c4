------------------------------ MODULE PageProofs ------------------------------
(***************************************************************************)
(* What the user of the page sees is what was asked for last, for any      *)
(* number of selections, dialogs and deposits and fades queued ever so     *)
(* deep.                                                                   *)
(*                                                                         *)
(* A handler may end many fades at once, each with its callback.  Hence    *)
(* the invariant is stated of a state on the way through a handler: the    *)
(* panel and the dialogs each have a part of it, the parts share nothing,  *)
(* and each is kept by the end of every fade.                              *)
(***************************************************************************)
EXTENDS Page, SequenceTheorems, WellFoundedInduction, TLAPS

Selection == [currency : Currencies, at : {"waiting", "asked", "shown", "thrown", "failed"}]
DialogCall == [dialog : Dialogs, at : {"waiting", "asked", "shown", "failed"}]
Fades == [to : {"in", "out"}, n : Nat,
          then : {"initFocus", "peformRequest", "loadModalContent", "dialogHidden"}]

\* What a handler works on.
States ==
    [selections : Seq(Selection), dialogs : Seq(DialogCall),
     element : [Elements -> [shown : BOOLEAN, fades : Seq(Fades)]],
     html : [Elements -> Contents],
     page : [currentAsset : Contents, currentCurrency : Contents,
             dialogIsShown : BOOLEAN, blocked : BOOLEAN]]

Panel(s) == s.element["content"]
Desk(s) == s.element["modalBackground"]

-----------------------------------------------------------------------------
(* The panel.                                                              *)

\* A fadeOut that is queued is that of a selection nothing has been asked for yet, nor
\* for any after it.
SelectionFades(s) ==
    \A i \in DOMAIN Panel(s).fades :
        LET fade == Panel(s).fades[i]
        IN  \/ fade.to = "in" /\ fade.then = "initFocus"
            \/ /\ fade.to = "out" /\ fade.then = "peformRequest"
               /\ fade.n \in 1..Len(s.selections)
               /\ \A m \in fade.n..Len(s.selections) : s.selections[m].at = "waiting"

\* They are queued in the order of their selections.
SelectionsInOrder(s) ==
    \A i, j \in DOMAIN Panel(s).fades :
        i < j /\ Panel(s).fades[i].to = "out" /\ Panel(s).fades[j].to = "out" =>
            Panel(s).fades[i].n < Panel(s).fades[j].n

\* The selection made last was answered last, and its panel is to be seen.
Seen(s, l) ==
    /\ Len(s.selections) > 0
    /\ l["content"] = Len(s.selections)
    /\ s.selections[Len(s.selections)].at = "shown"

RightPanel(s, l) ==
    /\ Len(s.selections) > 0 => s.page.currentAsset = s.selections[Len(s.selections)].currency
    /\ Seen(s, l) => /\ s.html["content"] = s.page.currentAsset
                     /\ s.page.currentCurrency = s.page.currentAsset

\* It is shown, or will be: by a fadeIn that has not begun, behind the fade that runs.
Returns(s, l) == Seen(s, l) => Panel(s).shown \/ Len(Panel(s).fades) >= 2

\* On the way through a handler: by a fadeIn that is next.
Returning(s, l) == Seen(s, l) => Panel(s).shown \/ Panel(s).fades # << >>

PanelInv(s, l) == SelectionFades(s) /\ SelectionsInOrder(s) /\ RightPanel(s, l) /\ Returning(s, l)

-----------------------------------------------------------------------------
(* The dialogs.                                                            *)

\* A fadeIn that is queued is that of a dialog nothing has been asked for yet, nor for
\* any after it.
DialogFades(s) ==
    \A i \in DOMAIN Desk(s).fades :
        LET fade == Desk(s).fades[i]
        IN  \/ fade.to = "out" /\ fade.then = "dialogHidden"
            \/ /\ fade.to = "in" /\ fade.then = "loadModalContent"
               /\ fade.n \in 1..Len(s.dialogs)
               /\ \A m \in fade.n..Len(s.dialogs) : s.dialogs[m].at = "waiting"

\* They are queued in the order of their dialogs.
DialogsInOrder(s) ==
    \A i, j \in DOMAIN Desk(s).fades :
        i < j /\ Desk(s).fades[i].to = "in" /\ Desk(s).fades[j].to = "in" =>
            Desk(s).fades[i].n < Desk(s).fades[j].n

\* Unless a dialog was opened while another was closing, closing comes after opening,
\* what is opening is shown, and dialogIsShown says what is shown.
Noted(s, x) ==
    ~ x => /\ Desk(s).shown <=> s.page.dialogIsShown
           /\ \A i \in DOMAIN Desk(s).fades : Desk(s).fades[i].to = "in" => Desk(s).shown
           /\ \A i, j \in DOMAIN Desk(s).fades :
                 i < j /\ Desk(s).fades[i].to = "out" => Desk(s).fades[j].to = "out"

\* The dialog opened last, once it is loaded and if its answer came last, is the one seen.
RightDialog(s, l) ==
    LET n == Len(s.dialogs)
    IN  n > 0 /\ Desk(s).shown /\ l["modalBackground"] = n /\ s.dialogs[n].at = "shown" =>
            s.html["modalBackground"] = s.dialogs[n].dialog

\* Between two handlers: whatever fades is shown.
FadesShown(s) == Desk(s).fades # << >> => Desk(s).shown

DeskInv(s, l, x) == DialogFades(s) /\ DialogsInOrder(s) /\ Noted(s, x) /\ RightDialog(s, l)

-----------------------------------------------------------------------------

\* A selection is under way.
Selecting(s) == \E n \in 1..Len(s.selections) : s.selections[n].at \in Waiting

\* A form is blocked only by a selection or a deposit that is under way.
BlockedBySome(s, d) == s.page.blocked => Selecting(s) \/ \E n \in 1..Len(d) : d[n] = "asked"

Types ==
    /\ State \in States
    /\ deposits \in Seq({"asked", "ended"})
    /\ last \in [Elements -> Nat]
    /\ crossed \in BOOLEAN

Inv ==
    /\ Types
    /\ PanelInv(State, last) /\ Returns(State, last)
    /\ DeskInv(State, last, crossed) /\ FadesShown(State)
    /\ BlockedBySome(State, deposits)

-----------------------------------------------------------------------------
(* Many fades may end at once.                                             *)

LEMMA LeastNatural ==
    ASSUME NEW S, S \subseteq Nat, S # {}
    PROVE  \E i \in S : \A j \in S : i =< j
<1> DEFINE R == {p \in Nat \X Nat : p[1] < p[2]}
<1>1. IsWellFoundedOn(R, Nat)
  BY NatLessThanWellFounded DEF OpToRel
<1>2. PICK i \in S : \A j \in S : ~ (<< j, i >> \in R)
  <2> HIDE DEF R
  <2> QED
    BY <1>1, WFMin
<1>3. \A j \in S : j < i => << j, i >> \in R
  OBVIOUS
<1> HIDE DEF R
<1>4. \A j \in S : ~ (j < i)
  BY <1>2, <1>3
<1> QED
  BY <1>4

\* What fades that end at once leave, one after the other.
After(h, s, e, n) ==
    /\ h = [k \in 0..n |-> h[k]]
    /\ h[0] = s
    /\ \A k \in 1..n : h[k] = IF EndsAtOnce(h[k - 1], e) THEN End(h[k - 1], e) ELSE h[k - 1]

\* There is such a run of any length: no least length is without one.
LEMMA AfterExists ==
    ASSUME NEW s, NEW e, NEW n \in Nat
    PROVE  \E h : After(h, s, e, n)
<1> DEFINE Bad == {m \in Nat : ~ \E h : After(h, s, e, m)}
<1>1. 0 \notin Bad
  <2> DEFINE h == [k \in 0..0 |-> s]
  <2>1. After(h, s, e, 0)
    BY DEF After
  <2> QED
    BY <2>1
<1>2. ASSUME NEW m \in Nat, m \notin Bad PROVE m + 1 \notin Bad
  <2>1. PICK h : After(h, s, e, m)
    BY <1>2
  <2> DEFINE next == IF EndsAtOnce(h[m], e) THEN End(h[m], e) ELSE h[m]
             g == [k \in 0..(m + 1) |-> IF k =< m THEN h[k] ELSE next]
  <2>2. /\ \A k \in 0..m : g[k] = h[k]
        /\ g[m + 1] = next
        /\ g = [k \in 0..(m + 1) |-> g[k]]
    OBVIOUS
  <2>3. After(g, s, e, m + 1)
    <3> HIDE DEF g
    <3>1. g[0] = s
      BY <2>1, <2>2 DEF After
    <3>2. ASSUME NEW k \in 1..(m + 1)
          PROVE  g[k] = IF EndsAtOnce(g[k - 1], e) THEN End(g[k - 1], e) ELSE g[k - 1]
      <4>1. k - 1 \in 0..m /\ g[k - 1] = h[k - 1]
        BY <2>2
      <4>2. CASE k = m + 1
        BY <2>2, <4>1, <4>2
      <4>3. CASE k \in 1..m
        <5>1. k \in 0..m
          BY <4>3
        <5>2. g[k] = h[k]
          BY <2>2, <5>1
        <5> QED
          BY <2>1, <4>1, <4>3, <5>2 DEF After
      <4> QED
        BY <4>2, <4>3
    <3> QED
      BY <2>2, <3>1, <3>2, Zenon DEF After
  <2> HIDE DEF g
  <2> QED
    BY <2>2, <2>3
<1>3. Bad = {}
  <2> SUFFICES ASSUME Bad # {} PROVE FALSE
    OBVIOUS
  <2>1. PICK m \in Bad : \A k \in Bad : m =< k
    <3>1. Bad \subseteq Nat
      OBVIOUS
    <3> HIDE DEF Bad
    <3> QED
      BY <3>1, LeastNatural
  <2>2. m \in Nat /\ m # 0
    BY <1>1, <2>1
  <2>3. m - 1 \in Nat /\ m - 1 \notin Bad
    <3>1. m - 1 \in Bad => m =< m - 1
      BY <2>1
    <3> HIDE DEF Bad
    <3> QED
      BY <2>2, <3>1
  <2>4. m - 1 + 1 \notin Bad
    BY <1>2, <2>3
  <2> HIDE DEF Bad
  <2> QED
    BY <2>1, <2>2, <2>4
<1> QED
  BY <1>3

\* EndThose is the end of such a run, as long as the queue.
LEMMA EndThoseIsLast ==
    ASSUME NEW s, NEW e, NEW n \in Nat, n = Len(s.element[e].fades)
    PROVE  \E h : After(h, s, e, n) /\ EndThose(s, e) = h[n]
<1> DEFINE Equation(h) == h = [k \in 0..n |->
               IF k = 0 THEN s
               ELSE IF EndsAtOnce(h[k - 1], e) THEN End(h[k - 1], e) ELSE h[k - 1]]
<1>1. \E h : Equation(h)
  <2>1. PICK h : After(h, s, e, n)
    BY AfterExists
  <2>2. \A k \in 0..n : h[k] = IF k = 0 THEN s
                               ELSE IF EndsAtOnce(h[k - 1], e) THEN End(h[k - 1], e) ELSE h[k - 1]
    BY <2>1 DEF After
  <2> QED
    <3>1. h = [k \in 0..n |-> h[k]]
      BY <2>1 DEF After
    <3> QED
      BY <2>2, <3>1, Zenon
<1>2. PICK h : Equation(h) /\ EndThose(s, e) = h[n]
  BY <1>1 DEF EndThose
<1>3. \A k \in 0..n : h[k] = IF k = 0 THEN s
                             ELSE IF EndsAtOnce(h[k - 1], e) THEN End(h[k - 1], e) ELSE h[k - 1]
  BY <1>2, Zenon
<1>4. h = [k \in 0..n |-> h[k]]
  BY <1>2, <1>3, Zenon
<1>5. After(h, s, e, n)
  <2>1. h[0] = s
    BY <1>3
  <2>2. \A k \in 1..n : h[k] = IF EndsAtOnce(h[k - 1], e) THEN End(h[k - 1], e) ELSE h[k - 1]
    BY <1>3
  <2> QED
    BY <1>4, <2>1, <2>2, Zenon DEF After
<1> QED
  BY <1>2, <1>5

-----------------------------------------------------------------------------
(* What the changes a handler is made of leave, field by field.            *)

\* Two states that differ in one element at most.
ElementChanged(s, t, e) ==
    /\ t \in States
    /\ t.selections = s.selections /\ t.dialogs = s.dialogs /\ t.html = s.html /\ t.page = s.page
    /\ \A f \in Elements \ {e} : t.element[f] = s.element[f]

LEMMA Shows ==
    ASSUME NEW s \in States, NEW e \in Elements
    PROVE  LET t == Show(s, e)
           IN  /\ ElementChanged(s, t, e)
               /\ t.element[e].shown /\ t.element[e].fades = s.element[e].fades
  BY DEF Show, States, ElementChanged

LEMMA Hides ==
    ASSUME NEW s \in States, NEW e \in Elements
    PROVE  LET t == Hide(s, e)
           IN  /\ ElementChanged(s, t, e)
               /\ ~ t.element[e].shown /\ t.element[e].fades = s.element[e].fades
  BY DEF Hide, States, ElementChanged

LEMMA Queues ==
    ASSUME NEW s \in States, NEW e \in Elements, NEW q \in Seq(Fades)
    PROVE  LET t == Queue(s, e, q)
           IN  /\ ElementChanged(s, t, e)
               /\ t.element[e].shown = s.element[e].shown /\ t.element[e].fades = q
  BY DEF Queue, States, ElementChanged

LEMMA Fills ==
    ASSUME NEW s \in States, NEW e \in Elements, NEW c \in Contents
    PROVE  LET t == Html(s, e, c)
           IN  /\ t \in States
               /\ t.selections = s.selections /\ t.dialogs = s.dialogs
               /\ t.element = s.element /\ t.page = s.page
               /\ t.html = [s.html EXCEPT ![e] = c]
  BY DEF Html, States

LEMMA Selects ==
    ASSUME NEW s \in States, NEW r \in Seq(Selection)
    PROVE  LET t == [s EXCEPT !.selections = r]
           IN  /\ t \in States
               /\ t.selections = r /\ t.dialogs = s.dialogs
               /\ t.element = s.element /\ t.page = s.page /\ t.html = s.html
  BY DEF States

LEMMA CallsDialog ==
    ASSUME NEW s \in States, NEW r \in Seq(DialogCall)
    PROVE  LET t == [s EXCEPT !.dialogs = r]
           IN  /\ t \in States
               /\ t.selections = s.selections /\ t.dialogs = r
               /\ t.element = s.element /\ t.page = s.page /\ t.html = s.html
  BY DEF States

LEMMA Notes ==
    ASSUME NEW s \in States, NEW b \in BOOLEAN
    PROVE  LET t == [s EXCEPT !.page.dialogIsShown = b]
           IN  /\ t \in States
               /\ t.selections = s.selections /\ t.dialogs = s.dialogs
               /\ t.element = s.element /\ t.html = s.html
               /\ t.page = [s.page EXCEPT !.dialogIsShown = b]
  BY DEF States

\* A selection, or a dialog, whose request has moved on.
Moved(q, n, at) == [q EXCEPT ![n].at = at]

LEMMA SelectionGoes ==
    ASSUME NEW q \in Seq(Selection), NEW n \in 1..Len(q),
           NEW at \in {"waiting", "asked", "shown", "thrown", "failed"}
    PROVE  /\ Moved(q, n, at) \in Seq(Selection) /\ Len(Moved(q, n, at)) = Len(q)
           /\ Moved(q, n, at)[n].at = at
           /\ \A m \in 1..Len(q) : /\ Moved(q, n, at)[m].currency = q[m].currency
                                   /\ m # n => Moved(q, n, at)[m] = q[m]
<1>1. q[n] \in Selection
  OBVIOUS
<1>2. [q[n] EXCEPT !.at = at] \in Selection
  BY <1>1 DEF Selection
<1>3. /\ [q[n] EXCEPT !.at = at].at = at
      /\ [q[n] EXCEPT !.at = at].currency = q[n].currency
  BY <1>1 DEF Selection
<1> QED
  BY <1>2, <1>3, ExceptSeq DEF Moved

LEMMA DialogGoes ==
    ASSUME NEW q \in Seq(DialogCall), NEW n \in 1..Len(q),
           NEW at \in {"waiting", "asked", "shown", "failed"}
    PROVE  /\ Moved(q, n, at) \in Seq(DialogCall) /\ Len(Moved(q, n, at)) = Len(q)
           /\ Moved(q, n, at)[n].at = at
           /\ \A m \in 1..Len(q) : /\ Moved(q, n, at)[m].dialog = q[m].dialog
                                   /\ m # n => Moved(q, n, at)[m] = q[m]
<1>1. q[n] \in DialogCall
  OBVIOUS
<1>2. [q[n] EXCEPT !.at = at] \in DialogCall
  BY <1>1 DEF DialogCall
<1>3. /\ [q[n] EXCEPT !.at = at].at = at
      /\ [q[n] EXCEPT !.at = at].dialog = q[n].dialog
  BY <1>1 DEF DialogCall
<1> QED
  BY <1>2, <1>3, ExceptSeq DEF Moved

-----------------------------------------------------------------------------
(* The end of one fade.                                                    *)

\* What the end of the panel's first fade leaves.
PanelFadeEnded(s, t) ==
    LET fade == Head(Panel(s).fades)
    IN  /\ t \in States
        /\ t.dialogs = s.dialogs /\ t.page = s.page
        /\ Desk(t) = Desk(s) /\ t.html["modalBackground"] = s.html["modalBackground"]
        /\ Panel(t).fades = Tail(Panel(s).fades)
        /\ fade.to = "in" => /\ t.selections = s.selections
                             /\ t.html = s.html
                             /\ Panel(t).shown = Panel(s).shown
        /\ fade.to = "out" => /\ t.selections = Moved(s.selections, fade.n, "asked")
                              /\ t.html["content"] = "spinner"
                              /\ Panel(t).shown

\* What the end of the dialogs' first fade leaves.
DeskFadeEnded(s, t) ==
    LET fade == Head(Desk(s).fades)
    IN  /\ t \in States
        /\ t.selections = s.selections /\ t.page = [s.page EXCEPT !.dialogIsShown = t.page.dialogIsShown]
        /\ Panel(t) = Panel(s) /\ t.html["content"] = s.html["content"]
        /\ Desk(t).fades = Tail(Desk(s).fades)
        /\ fade.to = "in" => /\ t.dialogs = Moved(s.dialogs, fade.n, "asked")
                             /\ t.page = s.page
                             /\ Desk(t).shown = Desk(s).shown
        /\ fade.to = "out" => /\ t.dialogs = s.dialogs
                              /\ ~ t.page.dialogIsShown
                              /\ ~ Desk(t).shown

\* The first fade, and the others.
LEMMA FirstFade ==
    ASSUME NEW q \in Seq(Fades), q # << >>
    PROVE  /\ Head(q) = q[1] /\ 1 \in DOMAIN q /\ q[1] \in Fades
           /\ Tail(q) \in Seq(Fades) /\ Len(Tail(q)) = Len(q) - 1 /\ Len(q) \in Nat
           /\ \A i \in DOMAIN Tail(q) : i \in Nat /\ i + 1 \in DOMAIN q /\ Tail(q)[i] = q[i + 1]
           /\ \A i \in DOMAIN q : i \in Nat /\ q[i].n \in Nat
<1>1. \A i \in DOMAIN q : i \in Nat /\ q[i] \in Fades
  OBVIOUS
<1>2. \A f \in Fades : f.n \in Nat
  BY DEF Fades
<1> QED
  BY <1>1, <1>2, HeadTailProperties

LEMMA PanelFadeEnds ==
    ASSUME NEW s \in States, SelectionFades(s), Panel(s).fades # << >>
    PROVE  PanelFadeEnded(s, End(s, "content"))
<1> DEFINE fade == Head(Panel(s).fades)
           rest == Tail(Panel(s).fades)
           t == End(s, "content")
<1>1. /\ fade = Panel(s).fades[1] /\ 1 \in DOMAIN Panel(s).fades
      /\ fade \in Fades /\ rest \in Seq(Fades)
  <2>1. Panel(s).fades \in Seq(Fades)
    BY DEF States, Panel, Elements
  <2> QED
    BY <2>1, FirstFade
<1> HIDE DEF rest
<1>2. CASE fade.to = "in" /\ fade.then = "initFocus"
  <2>1. t = Queue(s, "content", rest)
    BY <1>2 DEF End, Callback, rest, Panel
  <2> HIDE DEF t
  <2>2. /\ ElementChanged(s, t, "content")
        /\ t.element["content"].shown = s.element["content"].shown
        /\ t.element["content"].fades = rest
    BY <1>1, <2>1, Queues DEF Elements
  <2>3. t.element["modalBackground"] = s.element["modalBackground"]
    BY <2>2 DEF ElementChanged, Elements
  <2> QED
    BY <1>1, <1>2, <2>2, <2>3 DEF PanelFadeEnded, ElementChanged, Panel, Desk, rest, t
<1>3. CASE fade.to = "out" /\ fade.then = "peformRequest" /\ fade.n \in 1..Len(s.selections)
  <2> DEFINE asked == Moved(s.selections, fade.n, "asked")
             s1 == Hide(s, "content")
             s2 == [s1 EXCEPT !.selections[fade.n].at = "asked"]
             s3 == Html(s2, "content", "spinner")
             s4 == Show(s3, "content")
  <2>1. t = Queue(s4, "content", Tail(s4.element["content"].fades))
    BY <1>3 DEF End, Callback, PeformRequest, Panel
  <2>2. s1 \in States /\ ElementChanged(s, s1, "content")
    BY Hides DEF ElementChanged, Elements
  <2>3. asked \in Seq(Selection)
    BY <1>3, SelectionGoes DEF States
  <2>4. /\ s2 \in States /\ s2.selections = asked
        /\ s2.dialogs = s1.dialogs /\ s2.element = s1.element
        /\ s2.page = s1.page /\ s2.html = s1.html
    <3>1. s1.selections = s.selections
      BY <2>2 DEF ElementChanged
    <3>2. s2 = [s1 EXCEPT !.selections = asked]
      BY <3>1 DEF Moved
    <3> HIDE DEF asked, s1, s2
    <3> QED
      BY <2>2, <2>3, <3>2, Selects
  <2> HIDE DEF s1, s2
  <2>5. /\ s3 \in States /\ s3.selections = s2.selections /\ s3.dialogs = s2.dialogs
        /\ s3.element = s2.element /\ s3.page = s2.page
        /\ s3.html = [s2.html EXCEPT !["content"] = "spinner"]
    BY <2>4, Fills DEF Elements, Contents
  <2> HIDE DEF s3
  <2>6. s4 \in States /\ ElementChanged(s3, s4, "content") /\ s4.element["content"].shown
    BY <2>5, Shows DEF ElementChanged, Elements
  <2>10. s4.element["content"].fades = Panel(s).fades
    <3>1. s1.element["content"].fades = s.element["content"].fades
      BY Hides DEF Elements, s1
    <3>2. s4.element["content"].fades = s3.element["content"].fades
      BY <2>5, Shows DEF Elements
    <3> QED
      BY <2>4, <2>5, <3>1, <3>2 DEF Panel
  <2> HIDE DEF s4
  <2>7. /\ ElementChanged(s4, t, "content")
        /\ t.element["content"].shown = s4.element["content"].shown
        /\ t.element["content"].fades = rest
    <3>1. t = Queue(s4, "content", rest)
      BY <2>1, <2>10 DEF rest
    <3> HIDE DEF t
    <3> QED
      BY <1>1, <2>6, <3>1, Queues DEF Elements
  <2>8. s.html \in [Elements -> Contents]
    BY DEF States
  <2> HIDE DEF t, asked
  <2>9. /\ t \in States /\ t.selections = asked /\ t.dialogs = s.dialogs /\ t.page = s.page
        /\ t.element["modalBackground"] = s.element["modalBackground"]
        /\ t.html["content"] = "spinner" /\ t.html["modalBackground"] = s.html["modalBackground"]
    BY <2>2, <2>4, <2>5, <2>6, <2>7, <2>8 DEF ElementChanged, Elements
  <2> QED
    BY <1>1, <1>3, <2>6, <2>7, <2>9 DEF PanelFadeEnded, Panel, Desk, rest, t, asked
<1> QED
  BY <1>1, <1>2, <1>3 DEF SelectionFades

LEMMA DeskFadeEnds ==
    ASSUME NEW s \in States, DialogFades(s), Desk(s).fades # << >>
    PROVE  DeskFadeEnded(s, End(s, "modalBackground"))
<1> DEFINE fade == Head(Desk(s).fades)
           rest == Tail(Desk(s).fades)
           t == End(s, "modalBackground")
<1>1. /\ fade = Desk(s).fades[1] /\ 1 \in DOMAIN Desk(s).fades
      /\ fade \in Fades /\ rest \in Seq(Fades)
  <2>1. Desk(s).fades \in Seq(Fades)
    BY DEF States, Desk, Elements
  <2> QED
    BY <2>1, FirstFade
<1> HIDE DEF rest
<1>2. CASE fade.to = "out" /\ fade.then = "dialogHidden"
  <2> DEFINE s1 == Hide(s, "modalBackground")
             s2 == [s1 EXCEPT !.page.dialogIsShown = FALSE]
             s3 == Html(s2, "modalBackground", "nothing")
  <2>1. t = Queue(s3, "modalBackground", Tail(s3.element["modalBackground"].fades))
    BY <1>2 DEF End, Callback, DialogHidden, rest, Desk
  <2>2. /\ ElementChanged(s, s1, "modalBackground") /\ ~ s1.element["modalBackground"].shown
        /\ s1.element["modalBackground"].fades = Desk(s).fades
    BY Hides DEF Elements, Desk
  <2> HIDE DEF s1
  <2>3. /\ s2 \in States /\ s2.selections = s1.selections /\ s2.dialogs = s1.dialogs
        /\ s2.element = s1.element /\ s2.html = s1.html
        /\ s2.page = [s1.page EXCEPT !.dialogIsShown = FALSE]
    BY <2>2, Notes DEF ElementChanged
  <2> HIDE DEF s2
  <2>4. /\ s3 \in States /\ s3.selections = s2.selections /\ s3.dialogs = s2.dialogs
        /\ s3.element = s2.element /\ s3.page = s2.page
        /\ s3.html = [s2.html EXCEPT !["modalBackground"] = "nothing"]
    BY <2>3, Fills DEF Elements, Contents
  <2> HIDE DEF s3
  <2>5. /\ ElementChanged(s3, t, "modalBackground")
        /\ t.element["modalBackground"].shown = s3.element["modalBackground"].shown
        /\ t.element["modalBackground"].fades = rest
    <3>1. t = Queue(s3, "modalBackground", rest)
      BY <2>1, <2>2, <2>3, <2>4 DEF rest
    <3> HIDE DEF t
    <3> QED
      BY <1>1, <2>4, <3>1, Queues DEF Elements
  <2>6. s.html \in [Elements -> Contents] /\ t.page = [s.page EXCEPT !.dialogIsShown = FALSE]
    BY <2>2, <2>3, <2>4, <2>5 DEF States, ElementChanged
  <2> HIDE DEF t
  <2>7. /\ t \in States /\ t.selections = s.selections /\ t.dialogs = s.dialogs
        /\ t.element["content"] = s.element["content"] /\ t.html["content"] = s.html["content"]
        /\ ~ t.element["modalBackground"].shown
    BY <2>2, <2>3, <2>4, <2>5, <2>6 DEF ElementChanged, Elements
  <2>8. ~ t.page.dialogIsShown /\ t.page = [s.page EXCEPT !.dialogIsShown = t.page.dialogIsShown]
    BY <2>6 DEF States
  <2> QED
    BY <1>1, <1>2, <2>5, <2>7, <2>8 DEF DeskFadeEnded, Panel, Desk, rest, t
<1>3. CASE fade.to = "in" /\ fade.then = "loadModalContent" /\ fade.n \in 1..Len(s.dialogs)
  <2> DEFINE asked == Moved(s.dialogs, fade.n, "asked")
             s1 == [s EXCEPT !.dialogs[fade.n].at = "asked"]
             s2 == Html(s1, "modalBackground", "spinner")
  <2>1. t = Queue(s2, "modalBackground", Tail(s2.element["modalBackground"].fades))
    BY <1>3 DEF End, Callback, LoadModalContent, rest, Desk
  <2>2. asked \in Seq(DialogCall)
    BY <1>3, DialogGoes DEF States
  <2>3. /\ s1 \in States /\ s1.selections = s.selections /\ s1.dialogs = asked
        /\ s1.element = s.element /\ s1.page = s.page /\ s1.html = s.html
    <3>1. s1 = [s EXCEPT !.dialogs = asked]
      BY DEF Moved
    <3> HIDE DEF s1, asked
    <3> QED
      BY <2>2, <3>1, CallsDialog
  <2> HIDE DEF s1
  <2>4. /\ s2 \in States /\ s2.selections = s1.selections /\ s2.dialogs = s1.dialogs
        /\ s2.element = s1.element /\ s2.page = s1.page
        /\ s2.html = [s1.html EXCEPT !["modalBackground"] = "spinner"]
    BY <2>3, Fills DEF Elements, Contents
  <2> HIDE DEF s2
  <2>5. /\ ElementChanged(s2, t, "modalBackground")
        /\ t.element["modalBackground"].shown = s2.element["modalBackground"].shown
        /\ t.element["modalBackground"].fades = rest
    <3>1. t = Queue(s2, "modalBackground", rest)
      BY <2>1, <2>3, <2>4 DEF Desk, rest
    <3> HIDE DEF t
    <3> QED
      BY <1>1, <2>4, <3>1, Queues DEF Elements
  <2>6. s.html \in [Elements -> Contents] /\ s.page = [s.page EXCEPT !.dialogIsShown = s.page.dialogIsShown]
    BY DEF States
  <2> HIDE DEF t, asked
  <2>7. /\ t \in States /\ t.selections = s.selections /\ t.dialogs = asked /\ t.page = s.page
        /\ t.element["content"] = s.element["content"] /\ t.html["content"] = s.html["content"]
        /\ t.element["modalBackground"].shown = s.element["modalBackground"].shown
    BY <2>3, <2>4, <2>5, <2>6 DEF ElementChanged, Elements
  <2> QED
    BY <1>1, <1>3, <2>5, <2>6, <2>7 DEF DeskFadeEnded, Panel, Desk, rest, t, asked
<1> QED
  BY <1>1, <1>2, <1>3 DEF DialogFades

-----------------------------------------------------------------------------
(* What the end of a fade keeps.                                           *)

LEMMA PanelFadeKeeps ==
    ASSUME NEW s \in States, NEW t, NEW l, PanelInv(s, l), Panel(s).fades # << >>,
           PanelFadeEnded(s, t),
           \/ Panel(s).shown \/ Len(Panel(s).fades) >= 2 \/ Head(Panel(s).fades).to = "out"
           \/ ~ Seen(s, l)
    PROVE  PanelInv(t, l) /\ (Selecting(s) => Selecting(t))
<1> DEFINE q == Panel(s).fades
           r == Panel(t).fades
           n == Len(s.selections)
<1>1. /\ q \in Seq(Fades) /\ Head(q) = q[1] /\ 1 \in DOMAIN q
      /\ r \in Seq(Fades) /\ Len(r) = Len(q) - 1 /\ Len(q) \in Nat
      /\ \A i \in DOMAIN r : i \in Nat /\ i + 1 \in DOMAIN q /\ r[i] = q[i + 1]
      /\ \A i \in DOMAIN q : i \in Nat /\ q[i].n \in Nat
  <2>1. q \in Seq(Fades) /\ q # << >> /\ r = Tail(q)
    BY DEF States, Panel, Elements, PanelFadeEnded
  <2> HIDE DEF q, r
  <2> QED
    BY <2>1, FirstFade
<1>2. n \in Nat /\ s.selections \in Seq(Selection)
  BY DEF States
<1>3. SelectionsInOrder(t)
  <2> SUFFICES ASSUME NEW i \in DOMAIN r, NEW j \in DOMAIN r, i < j, r[i].to = "out", r[j].to = "out"
               PROVE  r[i].n < r[j].n
    BY DEF SelectionsInOrder
  <2>1. i + 1 \in DOMAIN q /\ j + 1 \in DOMAIN q /\ i + 1 < j + 1 /\ r[i] = q[i + 1] /\ r[j] = q[j + 1]
    BY <1>1
  <2> HIDE DEF q, r
  <2> QED
    BY <2>1 DEF PanelInv, SelectionsInOrder, q
<1>4. CASE q[1].to = "in"
  <2>1. /\ t.selections = s.selections /\ t.html = s.html /\ t.page = s.page
        /\ Panel(t).shown = Panel(s).shown
    BY <1>1, <1>4 DEF PanelFadeEnded
  <2>2. SelectionFades(t)
    BY <1>1, <2>1 DEF PanelInv, SelectionFades
  <2>3. RightPanel(t, l)
    BY <2>1 DEF PanelInv, RightPanel, Seen
  <2>4. Returning(t, l)
    BY <1>1, <1>4, <2>1 DEF PanelInv, Returning, Seen
  <2> QED
    BY <1>3, <2>1, <2>2, <2>3, <2>4 DEF PanelInv, Selecting
<1>5. CASE q[1].to = "out"
  <2> DEFINE k == q[1].n
  <2>1. k \in 1..n /\ \A m \in k..n : s.selections[m].at = "waiting"
    BY <1>1, <1>5 DEF PanelInv, SelectionFades
  <2>2. t.selections = Moved(s.selections, k, "asked") /\ t.page = s.page
    BY <1>1, <1>5 DEF PanelFadeEnded
  <2>3. /\ Len(t.selections) = n /\ t.selections[k].at = "asked"
        /\ \A m \in 1..n : /\ t.selections[m].currency = s.selections[m].currency
                           /\ m # k => t.selections[m] = s.selections[m]
    <3> DEFINE moved == Moved(s.selections, k, "asked")
    <3>1. /\ Len(moved) = Len(s.selections) /\ moved[k].at = "asked"
          /\ \A m \in 1..Len(s.selections) :
                moved[m].currency = s.selections[m].currency /\ (m # k => moved[m] = s.selections[m])
      <4>1. k \in 1..Len(s.selections)
        BY <2>1
      <4> HIDE DEF k, n
      <4> QED
        BY <1>2, <4>1, SelectionGoes
    <3> QED
      BY <2>2, <3>1
  <2>4. SelectionFades(t)
    <3> SUFFICES ASSUME NEW i \in DOMAIN r
                 PROVE  \/ r[i].to = "in" /\ r[i].then = "initFocus"
                        \/ /\ r[i].to = "out" /\ r[i].then = "peformRequest"
                           /\ r[i].n \in 1..n
                           /\ \A m \in r[i].n..n : t.selections[m].at = "waiting"
      BY <2>3 DEF SelectionFades
    <3>1. i + 1 \in DOMAIN q /\ r[i] = q[i + 1] /\ i + 1 > 1
      BY <1>1
    <3>2. CASE q[i + 1].to = "in"
      BY <3>1, <3>2 DEF PanelInv, SelectionFades
    <3>3. CASE q[i + 1].to = "out"
      <4>1. k < q[i + 1].n
        BY <1>1, <1>5, <3>1, <3>3 DEF PanelInv, SelectionsInOrder
      <4>2. /\ q[i + 1].then = "peformRequest" /\ q[i + 1].n \in 1..n
            /\ \A m \in q[i + 1].n..n : s.selections[m].at = "waiting"
        BY <3>1, <3>3 DEF PanelInv, SelectionFades
      <4>3. \A m \in q[i + 1].n..n : m # k /\ m \in 1..n
        BY <1>2, <2>1, <4>1, <4>2
      <4> QED
        BY <2>3, <3>1, <3>3, <4>2, <4>3
    <3> QED
      BY <3>1, <3>2, <3>3 DEF PanelInv, SelectionFades
  <2>5. ~ Seen(t, l)
    <3>1. t.selections[n].at # "shown"
      BY <1>2, <2>1, <2>3
    <3> QED
      BY <2>3, <3>1 DEF Seen
  <2>6. RightPanel(t, l)
    BY <1>2, <2>2, <2>3, <2>5 DEF PanelInv, RightPanel
  <2>7. Selecting(t)
    BY <2>1, <2>3 DEF Selecting, Waiting
  <2> QED
    BY <1>3, <2>4, <2>5, <2>6, <2>7 DEF PanelInv, Returning
<1> QED
  BY <1>1, <1>4, <1>5 DEF PanelInv, SelectionFades

LEMMA DeskFadeKeeps ==
    ASSUME NEW s \in States, NEW t, NEW l, NEW x \in BOOLEAN, DeskInv(s, l, x), Desk(s).fades # << >>,
           DeskFadeEnded(s, t)
    PROVE  DeskInv(t, l, x)
<1> DEFINE q == Desk(s).fades
           r == Desk(t).fades
           n == Len(s.dialogs)
<1>1. /\ q \in Seq(Fades) /\ Head(q) = q[1] /\ 1 \in DOMAIN q
      /\ r \in Seq(Fades) /\ Len(r) = Len(q) - 1 /\ Len(q) \in Nat
      /\ \A i \in DOMAIN r : i \in Nat /\ i + 1 \in DOMAIN q /\ r[i] = q[i + 1]
      /\ \A i \in DOMAIN q : i \in Nat /\ q[i].n \in Nat
  <2>1. q \in Seq(Fades) /\ q # << >> /\ r = Tail(q)
    BY DEF States, Desk, Elements, DeskFadeEnded
  <2> HIDE DEF q, r
  <2> QED
    BY <2>1, FirstFade
<1>2. n \in Nat /\ s.dialogs \in Seq(DialogCall)
  BY DEF States
<1>3. DialogsInOrder(t)
  <2> SUFFICES ASSUME NEW i \in DOMAIN r, NEW j \in DOMAIN r, i < j, r[i].to = "in", r[j].to = "in"
               PROVE  r[i].n < r[j].n
    BY DEF DialogsInOrder
  <2>1. i + 1 \in DOMAIN q /\ j + 1 \in DOMAIN q /\ i + 1 < j + 1 /\ r[i] = q[i + 1] /\ r[j] = q[j + 1]
    BY <1>1
  <2> HIDE DEF q, r
  <2> QED
    BY <2>1 DEF DeskInv, DialogsInOrder, q
<1>4. ~ x => \A i, j \in DOMAIN r : i < j /\ r[i].to = "out" => r[j].to = "out"
  BY <1>1 DEF DeskInv, Noted
<1>5. CASE q[1].to = "out"
  <2>1. t.dialogs = s.dialogs /\ ~ t.page.dialogIsShown /\ ~ Desk(t).shown
    BY <1>1, <1>5 DEF DeskFadeEnded
  <2>2. DialogFades(t)
    BY <1>1, <2>1 DEF DeskInv, DialogFades
  <2>3. Noted(t, x)
    <3>1. ~ x => \A i \in DOMAIN r : r[i].to = "out"
      BY <1>1, <1>5 DEF DeskInv, Noted
    <3> QED
      BY <1>4, <2>1, <3>1 DEF Noted
  <2>4. RightDialog(t, l)
    BY <2>1 DEF RightDialog
  <2> QED
    BY <1>3, <2>2, <2>3, <2>4 DEF DeskInv
<1>6. CASE q[1].to = "in"
  <2> DEFINE k == q[1].n
  <2>1. k \in 1..n /\ \A m \in k..n : s.dialogs[m].at = "waiting"
    BY <1>1, <1>6 DEF DeskInv, DialogFades
  <2>2. /\ t.dialogs = Moved(s.dialogs, k, "asked") /\ t.page = s.page
        /\ Desk(t).shown = Desk(s).shown
    BY <1>1, <1>6 DEF DeskFadeEnded
  <2>3. /\ Len(t.dialogs) = n /\ t.dialogs[k].at = "asked"
        /\ \A m \in 1..n : /\ t.dialogs[m].dialog = s.dialogs[m].dialog
                           /\ m # k => t.dialogs[m] = s.dialogs[m]
    <3> DEFINE moved == Moved(s.dialogs, k, "asked")
    <3>1. /\ Len(moved) = Len(s.dialogs) /\ moved[k].at = "asked"
          /\ \A m \in 1..Len(s.dialogs) :
                moved[m].dialog = s.dialogs[m].dialog /\ (m # k => moved[m] = s.dialogs[m])
      BY <1>2, <2>1, DialogGoes
    <3> QED
      BY <2>2, <3>1
  <2>4. DialogFades(t)
    <3> SUFFICES ASSUME NEW i \in DOMAIN r
                 PROVE  \/ r[i].to = "out" /\ r[i].then = "dialogHidden"
                        \/ /\ r[i].to = "in" /\ r[i].then = "loadModalContent"
                           /\ r[i].n \in 1..n
                           /\ \A m \in r[i].n..n : t.dialogs[m].at = "waiting"
      BY <2>3 DEF DialogFades
    <3>1. i + 1 \in DOMAIN q /\ r[i] = q[i + 1] /\ i + 1 > 1
      BY <1>1
    <3>2. CASE q[i + 1].to = "out"
      BY <3>1, <3>2 DEF DeskInv, DialogFades
    <3>3. CASE q[i + 1].to = "in"
      <4>1. k < q[i + 1].n
        BY <1>1, <1>6, <3>1, <3>3 DEF DeskInv, DialogsInOrder
      <4>2. /\ q[i + 1].then = "loadModalContent" /\ q[i + 1].n \in 1..n
            /\ \A m \in q[i + 1].n..n : s.dialogs[m].at = "waiting"
        BY <3>1, <3>3 DEF DeskInv, DialogFades
      <4>3. \A m \in q[i + 1].n..n : m # k /\ m \in 1..n
        BY <1>2, <2>1, <4>1, <4>2
      <4> QED
        BY <2>3, <3>1, <3>3, <4>2, <4>3
    <3> QED
      BY <3>1, <3>2, <3>3 DEF DeskInv, DialogFades
  <2>5. t.dialogs[n].at # "shown"
    BY <1>2, <2>1, <2>3
  <2>6. RightDialog(t, l)
    BY <2>3, <2>5 DEF RightDialog
  <2>7. Noted(t, x)
    <3>1. ~ x => \A i \in DOMAIN r : r[i].to = "in" => Desk(s).shown
      BY <1>1 DEF DeskInv, Noted
    <3>2. ~ x => (Desk(s).shown <=> s.page.dialogIsShown)
      BY DEF DeskInv, Noted
    <3> QED
      BY <1>4, <2>2, <3>1, <3>2, Zenon DEF Noted
  <2> QED
    BY <1>3, <2>4, <2>6, <2>7 DEF DeskInv
<1> QED
  BY <1>1, <1>5, <1>6 DEF DeskInv, DialogFades

-----------------------------------------------------------------------------
(* The beginning of a fade, and the end of those that end at once.         *)

\* What a fade of the panel leaves alone; it may start the request of a selection.
PanelMoved(s, t) ==
    /\ t.dialogs = s.dialogs /\ t.page = s.page
    /\ Desk(t) = Desk(s) /\ t.html["modalBackground"] = s.html["modalBackground"]
    /\ Selecting(s) => Selecting(t)

\* What a fade of the dialogs leaves alone.
DeskMoved(s, t) ==
    /\ t.selections = s.selections
    /\ Panel(t) = Panel(s) /\ t.html["content"] = s.html["content"]
    /\ t.page = [s.page EXCEPT !.dialogIsShown = t.page.dialogIsShown]

\* A dialog is shown or about to be, and nothing is queued to hide it.
Opening(s) ==
    /\ \A i \in DOMAIN Desk(s).fades : Desk(s).fades[i].to = "in"
    /\ Desk(s).shown \/ Desk(s).fades # << >>

LEMMA PanelSettles ==
    ASSUME NEW s \in States, NEW l, PanelInv(s, l)
    PROVE  LET t == EndThose(s, "content")
           IN  t \in States /\ PanelInv(t, l) /\ PanelMoved(s, t) /\ ~ EndsAtOnce(t, "content")
<1> DEFINE n == Len(s.element["content"].fades)
           Kept(u) == u \in States /\ PanelInv(u, l) /\ PanelMoved(s, u)
           Stops(u, k) == Len(Panel(u).fades) = n - k \/ ~ EndsAtOnce(u, "content")
<1>1. n \in Nat
  BY DEF States, Elements
<1>2. PICK h : After(h, s, "content", n) /\ EndThose(s, "content") = h[n]
  BY <1>1, EndThoseIsLast
<1>3. Kept(h[0]) /\ Stops(h[0], 0)
  <2>1. h[0] = s
    BY <1>2 DEF After
  <2> QED
    BY <1>1, <2>1 DEF PanelMoved, Panel
<1>4. ASSUME NEW k \in 1..n, Kept(h[k - 1]), Stops(h[k - 1], k - 1)
      PROVE  Kept(h[k]) /\ Stops(h[k], k)
  <2> DEFINE u == h[k - 1]
  <2>1. h[k] = IF EndsAtOnce(u, "content") THEN End(u, "content") ELSE u
    BY <1>2 DEF After
  <2>2. CASE ~ EndsAtOnce(u, "content")
    BY <1>4, <2>1, <2>2
  <2>3. CASE EndsAtOnce(u, "content")
    <3> DEFINE t == h[k]
               q == Panel(u).fades
    <3>1. t = End(u, "content")
      BY <2>1, <2>3
    <3>2. q # << >> /\ (Head(q).to = "in" <=> Panel(u).shown)
      BY <2>3, Zenon DEF EndsAtOnce, Panel
    <3>3. SelectionFades(u) /\ u \in States /\ PanelInv(u, l) /\ PanelMoved(s, u)
      BY <1>4 DEF PanelInv
    <3>4. PanelFadeEnded(u, t)
      BY <3>1, <3>2, <3>3, PanelFadeEnds
    <3>5. q \in Seq(Fades)
      BY <3>3 DEF States, Panel, Elements
    <3>6. Head(q) = q[1] /\ 1 \in DOMAIN q /\ Len(Tail(q)) = Len(q) - 1 /\ Len(q) \in Nat
      BY <3>2, <3>5, FirstFade
    <3>7. Head(q).to = "in" \/ Head(q).to = "out"
      BY <3>3, <3>6 DEF SelectionFades
    <3> HIDE DEF t, u, q
    <3>8. PanelInv(t, l) /\ (Selecting(u) => Selecting(t))
      BY <3>2, <3>3, <3>4, <3>7, PanelFadeKeeps DEF q
    <3>9. t \in States /\ PanelMoved(s, t)
      BY <3>3, <3>4, <3>8 DEF PanelMoved, PanelFadeEnded
    <3>10. Len(Panel(t).fades) = n - k
      <4>1. Len(q) = n - (k - 1)
        BY <1>4, <2>3 DEF q, u
      <4>2. Panel(t).fades = Tail(q)
        BY <3>4 DEF PanelFadeEnded, q
      <4> QED
        BY <1>1, <3>6, <4>1, <4>2
    <3> QED
      BY <3>8, <3>9, <3>10 DEF t
  <2> QED
    BY <2>2, <2>3
<1>5. Kept(h[n]) /\ Stops(h[n], n)
  <2> DEFINE Bad == {k \in 0..n : ~ (Kept(h[k]) /\ Stops(h[k], k))}
  <2>1. Bad = {}
    <3> SUFFICES ASSUME Bad # {} PROVE FALSE
      OBVIOUS
    <3>1. PICK k \in Bad : \A j \in Bad : k =< j
      <4>1. Bad \subseteq Nat
        BY <1>1
      <4> HIDE DEF Bad
      <4> QED
        BY <4>1, LeastNatural
    <3> HIDE DEF Kept, Stops
    <3>2. k \in 1..n
      BY <1>1, <1>3, <3>1
    <3>3. k - 1 \in 0..n /\ k - 1 \notin Bad
      <4>1. k - 1 \in Bad => k =< k - 1
        BY <3>1
      <4> HIDE DEF Bad
      <4> QED
        BY <1>1, <3>2, <4>1
    <3> QED
      BY <1>4, <3>1, <3>2, <3>3
  <2> QED
    BY <1>1, <2>1
<1>6. ~ EndsAtOnce(h[n], "content")
  <2>1. SUFFICES ASSUME EndsAtOnce(h[n], "content") PROVE FALSE
    OBVIOUS
  <2>2. Len(Panel(h[n]).fades) = 0 /\ Panel(h[n]).fades \in Seq(Fades)
    BY <1>1, <1>5, <2>1 DEF States, Panel, Elements
  <2>3. Panel(h[n]).fades # << >>
    BY <2>1, Zenon DEF EndsAtOnce, Panel
  <2> QED
    BY <2>2, <2>3
<1> QED
  BY <1>2, <1>5, <1>6

LEMMA PanelBegins ==
    ASSUME NEW s \in States, NEW l, PanelInv(s, l)
    PROVE  LET t == Begin(s, "content")
           IN  t \in States /\ PanelInv(t, l) /\ Returns(t, l) /\ PanelMoved(s, t)
<1> DEFINE u == EndThose(s, "content")
           q == Panel(u).fades
           t == Begin(s, "content")
<1> SUFFICES t \in States /\ PanelInv(t, l) /\ Returns(t, l) /\ PanelMoved(s, t)
  OBVIOUS
<1>1. u \in States /\ PanelInv(u, l) /\ PanelMoved(s, u) /\ ~ EndsAtOnce(u, "content")
  BY PanelSettles
<1>2. t = IF q # << >> /\ Head(q).to = "in" THEN Show(u, "content") ELSE u
  BY DEF Begin, Panel
<1> HIDE DEF u, t
<1>3. ~ (q # << >> /\ (Head(q).to = "in" <=> Panel(u).shown))
  BY <1>1, Zenon DEF EndsAtOnce, Panel
<1>4. CASE q # << >> /\ Head(q).to = "in"
  <2>1. ElementChanged(u, t, "content") /\ Panel(t).shown /\ Panel(t).fades = q
    BY <1>1, <1>2, <1>4, Shows DEF Elements, Panel
  <2>2. t \in States /\ Desk(t) = Desk(u)
    BY <2>1 DEF ElementChanged, Desk, Elements
  <2>3. PanelInv(t, l)
    BY <1>1, <2>1 DEF ElementChanged, PanelInv, SelectionFades, SelectionsInOrder, RightPanel,
                      Returning, Seen
  <2> QED
    BY <1>1, <2>1, <2>2, <2>3 DEF ElementChanged, Returns, PanelMoved, Selecting
<1>5. CASE ~ (q # << >> /\ Head(q).to = "in")
  <2>1. t = u
    BY <1>2, <1>5
  <2>2. q # << >> => Panel(u).shown
    BY <1>3, <1>5
  <2> QED
    BY <1>1, <2>1, <2>2 DEF PanelInv, Returns, Returning
<1> QED
  BY <1>4, <1>5

LEMMA DeskSettles ==
    ASSUME NEW s \in States, NEW l, NEW x \in BOOLEAN, DeskInv(s, l, x)
    PROVE  LET t == EndThose(s, "modalBackground")
           IN  /\ t \in States /\ DeskInv(t, l, x) /\ DeskMoved(s, t)
               /\ ~ EndsAtOnce(t, "modalBackground")
               /\ Opening(s) => Opening(t)
<1> DEFINE n == Len(s.element["modalBackground"].fades)
           Kept(u) == /\ u \in States /\ DeskInv(u, l, x) /\ DeskMoved(s, u)
                      /\ Opening(s) => Opening(u)
           Stops(u, k) == Len(Desk(u).fades) = n - k \/ ~ EndsAtOnce(u, "modalBackground")
<1>1. n \in Nat
  BY DEF States, Elements
<1>2. PICK h : After(h, s, "modalBackground", n) /\ EndThose(s, "modalBackground") = h[n]
  BY <1>1, EndThoseIsLast
<1>3. Kept(h[0]) /\ Stops(h[0], 0)
  <2>1. h[0] = s
    BY <1>2 DEF After
  <2>2. s.page = [s.page EXCEPT !.dialogIsShown = s.page.dialogIsShown]
    BY DEF States
  <2> QED
    BY <1>1, <2>1, <2>2 DEF DeskMoved, Desk
<1>4. ASSUME NEW k \in 1..n, Kept(h[k - 1]), Stops(h[k - 1], k - 1)
      PROVE  Kept(h[k]) /\ Stops(h[k], k)
  <2> DEFINE u == h[k - 1]
  <2>1. h[k] = IF EndsAtOnce(u, "modalBackground") THEN End(u, "modalBackground") ELSE u
    BY <1>2 DEF After
  <2>2. CASE ~ EndsAtOnce(u, "modalBackground")
    BY <1>4, <2>1, <2>2
  <2>3. CASE EndsAtOnce(u, "modalBackground")
    <3> DEFINE t == h[k]
               q == Desk(u).fades
    <3>1. t = End(u, "modalBackground")
      BY <2>1, <2>3
    <3>2. q # << >> /\ (Head(q).to = "in" <=> Desk(u).shown)
      BY <2>3, Zenon DEF EndsAtOnce, Desk
    <3>3. DialogFades(u) /\ u \in States /\ DeskInv(u, l, x) /\ DeskMoved(s, u)
      BY <1>4 DEF DeskInv
    <3>4. DeskFadeEnded(u, t)
      BY <3>1, <3>2, <3>3, DeskFadeEnds
    <3>5. q \in Seq(Fades)
      BY <3>3 DEF States, Desk, Elements
    <3>6. /\ Head(q) = q[1] /\ 1 \in DOMAIN q /\ Len(Tail(q)) = Len(q) - 1 /\ Len(q) \in Nat
          /\ \A i \in DOMAIN Tail(q) : i + 1 \in DOMAIN q /\ Tail(q)[i] = q[i + 1]
      BY <3>2, <3>5, FirstFade
    <3>7. Opening(s) => Opening(u)
      BY <1>4
    <3> HIDE DEF t, u, q
    <3>8. DeskInv(t, l, x)
      BY <3>2, <3>3, <3>4, DeskFadeKeeps DEF q
    <3>9. t \in States /\ DeskMoved(s, t)
      <4>1. \A a, b : [[s.page EXCEPT !.dialogIsShown = a] EXCEPT !.dialogIsShown = b] =
                      [s.page EXCEPT !.dialogIsShown = b]
        BY DEF States
      <4>2. /\ u.page = [s.page EXCEPT !.dialogIsShown = u.page.dialogIsShown]
            /\ t.page = [u.page EXCEPT !.dialogIsShown = t.page.dialogIsShown]
        BY <3>3, <3>4 DEF DeskMoved, DeskFadeEnded
      <4>3. t.page = [s.page EXCEPT !.dialogIsShown = t.page.dialogIsShown]
        BY <4>1, <4>2
      <4> QED
        BY <3>3, <3>4, <4>3 DEF DeskMoved, DeskFadeEnded
    <3>10. Panel(t) = Panel(u) /\ Desk(t).fades = Tail(q)
      BY <3>4 DEF DeskFadeEnded, q
    <3>11. Len(Desk(t).fades) = n - k
      <4>1. Len(q) = n - (k - 1)
        BY <1>4, <2>3 DEF q, u
      <4> QED
        BY <1>1, <3>6, <3>10, <4>1
    <3>12. Opening(u) => Opening(t)
      <4> SUFFICES ASSUME Opening(u) PROVE Opening(t)
        OBVIOUS
      <4>1. Head(q).to = "in"
        BY <3>6 DEF Opening, q
      <4>2. Desk(t).shown
        BY <3>2, <3>4, <4>1 DEF DeskFadeEnded, q
      <4> QED
        BY <3>6, <3>10, <4>2 DEF Opening, q
    <3> QED
      BY <3>7, <3>8, <3>9, <3>11, <3>12 DEF t
  <2> QED
    BY <2>2, <2>3
<1>5. Kept(h[n]) /\ Stops(h[n], n)
  <2> DEFINE Bad == {k \in 0..n : ~ (Kept(h[k]) /\ Stops(h[k], k))}
  <2>1. Bad = {}
    <3> SUFFICES ASSUME Bad # {} PROVE FALSE
      OBVIOUS
    <3>1. PICK k \in Bad : \A j \in Bad : k =< j
      <4>1. Bad \subseteq Nat
        BY <1>1
      <4> HIDE DEF Bad
      <4> QED
        BY <4>1, LeastNatural
    <3> HIDE DEF Kept, Stops
    <3>2. k \in 1..n
      BY <1>1, <1>3, <3>1
    <3>3. k - 1 \in 0..n /\ k - 1 \notin Bad
      <4>1. k - 1 \in Bad => k =< k - 1
        BY <3>1
      <4> HIDE DEF Bad
      <4> QED
        BY <1>1, <3>2, <4>1
    <3> QED
      BY <1>4, <3>1, <3>2, <3>3
  <2> QED
    BY <1>1, <2>1
<1>6. ~ EndsAtOnce(h[n], "modalBackground")
  <2>1. SUFFICES ASSUME EndsAtOnce(h[n], "modalBackground") PROVE FALSE
    OBVIOUS
  <2>2. Len(Desk(h[n]).fades) = 0 /\ Desk(h[n]).fades \in Seq(Fades)
    BY <1>1, <1>5, <2>1 DEF States, Desk, Elements
  <2>3. Desk(h[n]).fades # << >>
    BY <2>1, Zenon DEF EndsAtOnce, Desk
  <2> QED
    BY <2>2, <2>3
<1> QED
  BY <1>2, <1>5, <1>6

LEMMA DeskBegins ==
    ASSUME NEW s \in States, NEW l, NEW x \in BOOLEAN, DeskInv(s, l, x)
    PROVE  LET t == Begin(s, "modalBackground")
           IN  /\ t \in States /\ DeskInv(t, l, x) /\ FadesShown(t) /\ DeskMoved(s, t)
               /\ Opening(s) => Opening(t) /\ Desk(t).shown
<1> DEFINE u == EndThose(s, "modalBackground")
           q == Desk(u).fades
           t == Begin(s, "modalBackground")
<1> SUFFICES /\ t \in States /\ DeskInv(t, l, x) /\ FadesShown(t) /\ DeskMoved(s, t)
             /\ Opening(s) => Opening(t) /\ Desk(t).shown
  OBVIOUS
<1>1. /\ u \in States /\ DeskInv(u, l, x) /\ DeskMoved(s, u) /\ ~ EndsAtOnce(u, "modalBackground")
      /\ Opening(s) => Opening(u)
  BY DeskSettles
<1>2. t = IF q # << >> /\ Head(q).to = "in" THEN Show(u, "modalBackground") ELSE u
  BY DEF Begin, Desk
<1> HIDE DEF u, t
<1>3. ~ (q # << >> /\ (Head(q).to = "in" <=> Desk(u).shown))
  BY <1>1, Zenon DEF EndsAtOnce, Desk
<1>4. q # << >> => Head(q) = q[1] /\ 1 \in DOMAIN q
  <2>1. q \in Seq(Fades)
    BY <1>1 DEF States, Desk, Elements
  <2> QED
    BY <2>1, FirstFade
<1>5. CASE q # << >> /\ Head(q).to = "in"
  <2>1. ElementChanged(u, t, "modalBackground") /\ Desk(t).shown /\ Desk(t).fades = q
    BY <1>1, <1>2, <1>5, Shows DEF Elements, Desk
  <2>2. t \in States /\ Panel(t) = Panel(u)
    BY <2>1 DEF ElementChanged, Panel, Elements
  <2>3. DialogFades(t) /\ DialogsInOrder(t)
    BY <1>1, <2>1 DEF ElementChanged, DeskInv, DialogFades, DialogsInOrder
  <2>4. Noted(t, x)
    <3>1. ~ Desk(u).shown /\ q[1].to = "in"
      BY <1>3, <1>4, <1>5
    <3>2. x
      BY <1>1, <1>4, <1>5, <3>1 DEF DeskInv, Noted
    <3> QED
      BY <3>2 DEF Noted
  <2>5. RightDialog(t, l)
    <3>1. q[1].n \in 1..Len(u.dialogs) /\ \A m \in q[1].n..Len(u.dialogs) : u.dialogs[m].at = "waiting"
      BY <1>1, <1>4, <1>5 DEF DeskInv, DialogFades
    <3>2. Len(u.dialogs) \in Nat
      BY <1>1 DEF States
    <3>3. u.dialogs[Len(u.dialogs)].at # "shown"
      BY <3>1, <3>2
    <3> QED
      BY <2>1, <3>3 DEF ElementChanged, RightDialog
  <2> QED
    BY <1>1, <2>1, <2>2, <2>3, <2>4, <2>5 DEF ElementChanged, DeskInv, FadesShown, DeskMoved, Opening
<1>6. CASE ~ (q # << >> /\ Head(q).to = "in")
  <2>1. t = u
    BY <1>2, <1>6
  <2>2. q # << >> => Desk(u).shown
    BY <1>3, <1>6
  <2> QED
    BY <1>1, <1>4, <1>6, <2>1, <2>2 DEF FadesShown, Opening
<1> QED
  BY <1>5, <1>6

-----------------------------------------------------------------------------
(* Queueing one more fade.                                                 *)

LEMMA PanelEnqueues ==
    ASSUME NEW s \in States, NEW l, NEW fade \in Fades, NEW t1, NEW t,
           t1 = Queue(s, "content", Append(Panel(s).fades, fade)),
           t = Enqueue(s, "content", fade),
           PanelInv(t1, l), Panel(s).fades # << >> => Returns(t1, l)
    PROVE  t \in States /\ PanelInv(t, l) /\ Returns(t, l) /\ PanelMoved(s, t)
<1>1. Panel(s).fades \in Seq(Fades) /\ Append(Panel(s).fades, fade) \in Seq(Fades)
  BY DEF States, Panel, Elements
<1>2. ElementChanged(s, t1, "content")
  BY <1>1, Queues DEF Elements
<1>3. t1 \in States /\ PanelMoved(s, t1)
  BY <1>2 DEF ElementChanged, PanelMoved, Selecting, Desk, Elements
<1>4. CASE Panel(s).fades = << >>
  <2>1. t = Begin(t1, "content")
    BY <1>4 DEF Enqueue, Panel
  <2>2. PanelInv(t, l) /\ Returns(t, l) /\ t \in States /\ PanelMoved(t1, t)
    BY <1>3, <2>1, PanelBegins
  <2> QED
    BY <1>3, <2>2 DEF PanelMoved
<1>5. CASE Panel(s).fades # << >>
  <2>1. t = t1
    BY <1>5 DEF Enqueue, Panel
  <2> QED
    BY <1>3, <1>5, <2>1
<1> QED
  BY <1>4, <1>5

LEMMA DeskEnqueues ==
    ASSUME NEW s \in States, NEW l, NEW x \in BOOLEAN, NEW fade \in Fades, NEW t1, NEW t,
           t1 = Queue(s, "modalBackground", Append(Desk(s).fades, fade)),
           t = Enqueue(s, "modalBackground", fade),
           DeskInv(t1, l, x), FadesShown(s)
    PROVE  /\ t \in States /\ DeskInv(t, l, x) /\ FadesShown(t) /\ DeskMoved(s, t)
           /\ Opening(t1) => Opening(t) /\ Desk(t).shown
<1>1. Desk(s).fades \in Seq(Fades) /\ Append(Desk(s).fades, fade) \in Seq(Fades)
  BY DEF States, Desk, Elements
<1>2. /\ ElementChanged(s, t1, "modalBackground")
      /\ t1.element["modalBackground"].shown = s.element["modalBackground"].shown
  BY <1>1, Queues DEF Elements
<1>3. t1 \in States /\ DeskMoved(s, t1)
  <2>1. s.page = [s.page EXCEPT !.dialogIsShown = s.page.dialogIsShown]
    BY DEF States
  <2> QED
    BY <1>2, <2>1 DEF ElementChanged, DeskMoved, Panel, Elements
<1>4. CASE Desk(s).fades = << >>
  <2>1. t = Begin(t1, "modalBackground")
    BY <1>4 DEF Enqueue, Desk
  <2>2. /\ t \in States /\ DeskInv(t, l, x) /\ FadesShown(t) /\ DeskMoved(t1, t)
        /\ Opening(t1) => Opening(t) /\ Desk(t).shown
    BY <1>3, <2>1, DeskBegins
  <2>3. t1.page = s.page
    BY <1>2 DEF ElementChanged
  <2> QED
    BY <1>3, <2>2, <2>3 DEF DeskMoved
<1>5. CASE Desk(s).fades # << >>
  <2>1. t = t1
    BY <1>5 DEF Enqueue, Desk
  <2>2. Desk(t).shown
    BY <1>2, <1>5, <2>1, Zenon DEF FadesShown, Desk
  <2> QED
    BY <1>3, <2>1, <2>2 DEF FadesShown
<1> QED
  BY <1>4, <1>5

-----------------------------------------------------------------------------
(* What is of the panel is not of the dialogs.                             *)

PanelSame(s, t) ==
    /\ t.selections = s.selections /\ Panel(t) = Panel(s)
    /\ t.html["content"] = s.html["content"]
    /\ t.page.currentAsset = s.page.currentAsset
    /\ t.page.currentCurrency = s.page.currentCurrency

DeskSame(s, t) ==
    /\ t.dialogs = s.dialogs /\ Desk(t) = Desk(s)
    /\ t.html["modalBackground"] = s.html["modalBackground"]
    /\ t.page.dialogIsShown = s.page.dialogIsShown

LEMMA PanelStays ==
    ASSUME NEW s, NEW t, NEW l, NEW m, PanelSame(s, t), m["content"] = l["content"],
           PanelInv(s, l), Returns(s, l)
    PROVE  PanelInv(t, m) /\ Returns(t, m)
  BY DEF PanelSame, PanelInv, Returns, Returning, SelectionFades, SelectionsInOrder, RightPanel, Seen

LEMMA DeskStays ==
    ASSUME NEW s, NEW t, NEW l, NEW m, NEW x, DeskSame(s, t),
           m["modalBackground"] = l["modalBackground"], DeskInv(s, l, x), FadesShown(s)
    PROVE  DeskInv(t, m, x) /\ FadesShown(t)
<1>1. Noted(t, x)
  BY Zenon DEF DeskSame, DeskInv, Noted
<1> QED
  BY <1>1 DEF DeskSame, DeskInv, DialogFades, DialogsInOrder, RightDialog, FadesShown

\* What a handler makes of the variables is their next state.
LEMMA Becomes ==
    ASSUME NEW s \in States, Become(s)
    PROVE  State' = s
  BY DEF Become, State, States

-----------------------------------------------------------------------------
(* Each action keeps the invariant.                                        *)

\* What a handler works on, as the variables it is made of.
LEMMA Parts ==
    /\ State.selections = selections /\ State.dialogs = dialogs /\ State.html = html
    /\ State.page = page /\ State.element = element
    /\ Panel(State) = element["content"] /\ Desk(State) = element["modalBackground"]
  BY DEF State, Panel, Desk

LEMMA PanelFadeEndsInv ==
    ASSUME Inv, FadeEnds("content")
    PROVE  Inv'
<1> DEFINE s == State
           u == End(s, "content")
           t == Begin(u, "content")
<1>1. /\ s \in States /\ PanelInv(s, last) /\ Returns(s, last) /\ Panel(s).fades # << >>
      /\ DeskInv(s, last, crossed) /\ FadesShown(s) /\ BlockedBySome(s, deposits)
  BY Parts DEF Inv, Types, FadeEnds
<1>2. Become(t) /\ UNCHANGED << deposits, last, crossed >>
  BY DEF FadeEnds, Dequeue
<1> HIDE DEF s
<1>3. PanelFadeEnded(s, u)
  BY <1>1, PanelFadeEnds DEF PanelInv
<1> HIDE DEF u
<1>4. PanelInv(u, last) /\ (Selecting(s) => Selecting(u))
  <2>1. \/ Panel(s).shown \/ Len(Panel(s).fades) >= 2 \/ Head(Panel(s).fades).to = "out"
        \/ ~ Seen(s, last)
    BY <1>1 DEF Returns
  <2> QED
    BY <1>1, <1>3, <2>1, PanelFadeKeeps
<1>5. u \in States
  BY <1>3 DEF PanelFadeEnded
<1>6. t \in States /\ PanelInv(t, last) /\ Returns(t, last) /\ PanelMoved(u, t)
  BY <1>4, <1>5, PanelBegins
<1> HIDE DEF t
<1>7. DeskSame(s, t) /\ t.page = s.page /\ (Selecting(s) => Selecting(t))
  BY <1>3, <1>4, <1>6 DEF DeskSame, PanelMoved, PanelFadeEnded
<1>8. DeskInv(t, last, crossed) /\ FadesShown(t)
  BY <1>1, <1>7, DeskStays
<1>9. BlockedBySome(t, deposits)
  BY <1>1, <1>7 DEF BlockedBySome
<1>10. State' = t
  BY <1>2, <1>6, Becomes
<1> QED
  BY <1>2, <1>6, <1>8, <1>9, <1>10 DEF Inv, Types

LEMMA DeskFadeEndsInv ==
    ASSUME Inv, FadeEnds("modalBackground")
    PROVE  Inv'
<1> DEFINE s == State
           u == End(s, "modalBackground")
           t == Begin(u, "modalBackground")
<1>1. /\ s \in States /\ PanelInv(s, last) /\ Returns(s, last) /\ Desk(s).fades # << >>
      /\ DeskInv(s, last, crossed) /\ BlockedBySome(s, deposits) /\ crossed \in BOOLEAN
  BY Parts DEF Inv, Types, FadeEnds
<1>2. Become(t) /\ UNCHANGED << deposits, last, crossed >>
  BY DEF FadeEnds, Dequeue
<1> HIDE DEF s
<1>3. DeskFadeEnded(s, u)
  BY <1>1, DeskFadeEnds DEF DeskInv
<1> HIDE DEF u
<1>4. DeskInv(u, last, crossed) /\ u \in States
  BY <1>1, <1>3, DeskFadeKeeps DEF DeskFadeEnded
<1>5. t \in States /\ DeskInv(t, last, crossed) /\ FadesShown(t) /\ DeskMoved(u, t)
  BY <1>1, <1>4, DeskBegins
<1> HIDE DEF t
<1>6. PanelSame(s, t) /\ t.page.blocked = s.page.blocked
  BY <1>1, <1>3, <1>4, <1>5 DEF PanelSame, DeskMoved, DeskFadeEnded, States
<1>7. PanelInv(t, last) /\ Returns(t, last)
  BY <1>1, <1>6, PanelStays
<1>8. BlockedBySome(t, deposits)
  BY <1>1, <1>6 DEF BlockedBySome, PanelSame, Selecting
<1>9. State' = t
  BY <1>2, <1>5, Becomes
<1> QED
  BY <1>2, <1>5, <1>7, <1>8, <1>9 DEF Inv, Types

LEMMA SelectAssetInv ==
    ASSUME Inv, NEW currency \in Currencies, SelectAsset(currency)
    PROVE  Inv'
<1> DEFINE s == State
           new == [currency |-> currency, at |-> "waiting"]
           r == Append(selections, new)
           n == Len(selections) + 1
           fade == Fade("out", "peformRequest", n)
           s0 == [s EXCEPT !.selections = r, !.page.currentAsset = currency, !.page.blocked = TRUE]
           q == Panel(s0).fades
           t1 == Queue(s0, "content", Append(q, fade))
           t == Enqueue(s0, "content", fade)
<1>1. /\ s \in States /\ PanelInv(s, last) /\ DeskInv(s, last, crossed) /\ FadesShown(s)
      /\ s.selections = selections
  BY Parts DEF Inv, Types
<1>2. selections \in Seq(Selection) /\ new \in Selection
  BY <1>1 DEF States, Selection
<1>3. /\ r \in Seq(Selection) /\ Len(r) = n /\ n \in Nat /\ n > 0 /\ r[n] = new
      /\ \A i \in 1..Len(selections) : r[i] = selections[i]
      /\ n - 1 = Len(selections)
  BY <1>2
<1>4. Become(Enqueue(s0, "content", Fade("out", "peformRequest", Len(s0.selections))))
  BY <1>1 DEF SelectAsset
<1>5. UNCHANGED << deposits, last, crossed >>
  BY DEF SelectAsset
<1>6. /\ s0 \in States /\ s0.selections = r /\ s0.dialogs = s.dialogs /\ s0.element = s.element
      /\ s0.html = s.html /\ s0.page.currentAsset = currency /\ s0.page.blocked
      /\ s0.page.dialogIsShown = s.page.dialogIsShown
  BY <1>1, <1>3 DEF States, Contents
<1>7. new.currency = currency /\ new.at = "waiting"
  OBVIOUS
<1> HIDE DEF new, r
<1>8. Become(t)
  BY <1>3, <1>4, <1>6
<1>9. q = Panel(s).fades /\ q \in Seq(Fades) /\ fade \in Fades
  BY <1>1, <1>3, <1>6 DEF Panel, States, Elements, Fade, Fades
<1> HIDE DEF s, s0
<1>10. /\ ElementChanged(s0, t1, "content")
       /\ Panel(t1).fades = Append(q, fade) /\ Panel(t1).shown = Panel(s0).shown
  <2> HIDE DEF q, fade
  <2>1. Append(q, fade) \in Seq(Fades)
    BY <1>9
  <2> HIDE DEF t1
  <2>2. /\ ElementChanged(s0, t1, "content")
        /\ t1.element["content"].fades = Append(q, fade)
        /\ t1.element["content"].shown = s0.element["content"].shown
    BY <1>6, <2>1, Queues DEF Elements, t1
  <2> QED
    BY <2>2 DEF Panel
<1>11. fade.to = "out" /\ fade.then = "peformRequest" /\ fade.n = n
  BY DEF Fade
<1> HIDE DEF t1, t, fade
<1>12. /\ \A i \in DOMAIN q : i \in Nat /\ i < Len(q) + 1 /\ Append(q, fade)[i] = q[i]
       /\ Append(q, fade)[Len(q) + 1] = fade
       /\ \A i \in DOMAIN Append(q, fade) : i \in DOMAIN q \/ i = Len(q) + 1
       /\ Len(q) \in Nat
  BY <1>9
<1>13. \A i \in DOMAIN q :
          \/ q[i].to = "in" /\ q[i].then = "initFocus"
          \/ /\ q[i].to = "out" /\ q[i].then = "peformRequest"
             /\ q[i].n \in 1..Len(selections)
             /\ \A m \in q[i].n..Len(selections) : selections[m].at = "waiting"
  BY <1>1, <1>9 DEF PanelInv, SelectionFades
<1>14. t1.selections = r /\ t1.page = s0.page
  BY <1>6, <1>10 DEF ElementChanged
<1>15. PanelInv(t1, last)
  <2>1. SelectionFades(t1)
    <3> SUFFICES ASSUME NEW i \in DOMAIN Append(q, fade)
                 PROVE  LET f == Append(q, fade)[i]
                        IN  \/ f.to = "in" /\ f.then = "initFocus"
                            \/ /\ f.to = "out" /\ f.then = "peformRequest"
                               /\ f.n \in 1..n
                               /\ \A m \in f.n..n : r[m].at = "waiting"
      BY <1>3, <1>10, <1>14 DEF SelectionFades
    <3>1. CASE i \in DOMAIN q /\ q[i].to = "in"
      BY <1>12, <1>13, <3>1
    <3>2. CASE i \in DOMAIN q /\ q[i].to = "out"
      <4>1. /\ q[i].n \in 1..n
            /\ \A m \in q[i].n..n : m = n \/ (m \in 1..Len(selections) /\ m \in q[i].n..Len(selections))
        BY <1>2, <1>3, <1>13, <3>2
      <4>2. \A m \in q[i].n..n : r[m].at = "waiting"
        BY <1>3, <1>7, <1>13, <3>2, <4>1
      <4> QED
        BY <1>12, <1>13, <3>2, <4>1, <4>2
    <3>3. CASE i = Len(q) + 1
      BY <1>3, <1>7, <1>11, <1>12, <3>3
    <3> QED
      BY <1>12, <1>13, <3>1, <3>2, <3>3
  <2>2. SelectionsInOrder(t1)
    <3>1. \A i, j \in DOMAIN q : i < j /\ q[i].to = "out" /\ q[j].to = "out" => q[i].n < q[j].n
      BY <1>1, <1>9 DEF PanelInv, SelectionsInOrder
    <3>2. \A i \in DOMAIN q : q[i].to = "out" => q[i].n < n
      BY <1>2, <1>3, <1>13
    <3> QED
      BY <1>10, <1>11, <1>12, <3>1, <3>2 DEF SelectionsInOrder
  <2>3. ~ Seen(t1, last)
    BY <1>3, <1>7, <1>14 DEF Seen
  <2>4. RightPanel(t1, last)
    BY <1>3, <1>6, <1>7, <1>14, <2>3 DEF RightPanel
  <2> QED
    BY <2>1, <2>2, <2>3, <2>4 DEF PanelInv, Returning
<1>16. Returns(t1, last)
  BY <1>3, <1>7, <1>14 DEF Returns, Seen
<1>17. t \in States /\ PanelInv(t, last) /\ Returns(t, last) /\ PanelMoved(s0, t)
  <2>1. t1 = Queue(s0, "content", Append(Panel(s0).fades, fade)) /\ t = Enqueue(s0, "content", fade)
    BY DEF t1, t
  <2> HIDE DEF q
  <2> QED
    BY <1>6, <1>9, <1>15, <1>16, <2>1, PanelEnqueues
<1>18. DeskInv(t, last, crossed) /\ FadesShown(t)
  <2>1. DeskSame(s, t)
    BY <1>6, <1>17 DEF PanelMoved, DeskSame, Desk
  <2> QED
    BY <1>1, <2>1, DeskStays
<1>19. BlockedBySome(t, deposits)
  <2>1. Selecting(s0)
    BY <1>3, <1>6, <1>7 DEF Selecting, Waiting
  <2> QED
    BY <1>17, <2>1 DEF BlockedBySome, PanelMoved
<1>20. State' = t
  BY <1>8, <1>17, Becomes
<1> QED
  BY <1>5, <1>17, <1>18, <1>19, <1>20 DEF Inv, Types

\* The end of a selection's request, by an answer or a failure.
SelectionEnded(s, t, n, at) ==
    /\ n \in 1..Len(s.selections) /\ s.selections[n].at = "asked"
    /\ at \in {"shown", "thrown", "failed"}
    /\ t.selections = Moved(s.selections, n, at)
    /\ t.page.currentAsset = s.page.currentAsset
    /\ Panel(t).fades = Panel(s).fades

LEMMA SelectionEnds ==
    ASSUME NEW s \in States, NEW t, NEW l, NEW n, NEW at, SelectionEnded(s, t, n, at), PanelInv(s, l)
    PROVE  /\ t.selections \in Seq(Selection) /\ Len(t.selections) = Len(s.selections)
           /\ t.selections[n].at = at /\ t.selections[n].currency = s.selections[n].currency
           /\ SelectionFades(t) /\ SelectionsInOrder(t)
           /\ Len(s.selections) \in Nat
           /\ t.page.currentAsset = t.selections[Len(s.selections)].currency
<1> DEFINE was == s.selections
           moved == Moved(was, n, at)
           q == Panel(s).fades
<1>1. was \in Seq(Selection) /\ Len(was) \in Nat
  BY DEF States
<1>2. /\ n \in 1..Len(was) /\ was[n].at = "asked" /\ at \in {"shown", "thrown", "failed"}
      /\ t.page.currentAsset = s.page.currentAsset /\ Panel(t).fades = Panel(s).fades
  BY DEF SelectionEnded
<1>3. /\ moved \in Seq(Selection) /\ Len(moved) = Len(was) /\ moved[n].at = at
      /\ \A m \in 1..Len(was) : moved[m].currency = was[m].currency /\ (m # n => moved[m] = was[m])
  <2>1. at \in {"waiting", "asked", "shown", "thrown", "failed"}
    BY <1>2
  <2> HIDE DEF was
  <2> QED
    BY <1>1, <1>2, <2>1, SelectionGoes
<1>4. t.selections = moved
  BY DEF SelectionEnded
<1> HIDE DEF moved
<1>5. SelectionFades(t)
  <2> SUFFICES ASSUME NEW i \in DOMAIN q
               PROVE  \/ q[i].to = "in" /\ q[i].then = "initFocus"
                      \/ /\ q[i].to = "out" /\ q[i].then = "peformRequest"
                         /\ q[i].n \in 1..Len(s.selections)
                         /\ \A m \in q[i].n..Len(s.selections) : moved[m].at = "waiting"
    BY <1>3, <1>4, <1>2 DEF SelectionFades
  <2>1. \/ q[i].to = "in" /\ q[i].then = "initFocus"
        \/ /\ q[i].to = "out" /\ q[i].then = "peformRequest"
           /\ q[i].n \in 1..Len(s.selections)
           /\ \A m \in q[i].n..Len(s.selections) : s.selections[m].at = "waiting"
    BY DEF PanelInv, SelectionFades
  <2>2. CASE /\ q[i].n \in 1..Len(s.selections)
             /\ \A m \in q[i].n..Len(s.selections) : s.selections[m].at = "waiting"
    <3>1. \A m \in q[i].n..Len(s.selections) : m # n /\ m \in 1..Len(s.selections)
      BY <1>1, <1>2, <2>2
    <3>2. \A m \in q[i].n..Len(s.selections) : moved[m].at = "waiting"
      BY <1>3, <2>2, <3>1
    <3> QED
      BY <2>1, <2>2, <3>2
  <2> QED
    BY <2>1, <2>2
<1>6. SelectionsInOrder(t)
  BY <1>2 DEF PanelInv, SelectionsInOrder
<1>7. t.page.currentAsset = t.selections[Len(s.selections)].currency
  BY <1>1, <1>3, <1>4, <1>2 DEF PanelInv, RightPanel
<1> QED
  BY <1>1, <1>3, <1>4, <1>5, <1>6, <1>7, <1>2

LEMMA AnsweredInv ==
    ASSUME Inv, NEW n \in DOMAIN selections, Answered(n)
    PROVE  Inv'
<1> DEFINE s == State
           at == IF connected THEN "shown" ELSE "thrown"
           s0 == Answer(s, n)
           q == Panel(s0).fades
           fade == Fade("in", "initFocus", n)
           t1 == Queue(s0, "content", Append(q, fade))
           t == IF connected THEN Enqueue(s0, "content", fade) ELSE s0
           l == [last EXCEPT !["content"] = n]
           top == Len(s.selections)
<1>1. /\ s \in States /\ PanelInv(s, last) /\ DeskInv(s, last, crossed) /\ FadesShown(s)
      /\ last \in [Elements -> Nat] /\ s.selections = selections
  BY Parts DEF Inv, Types
<1>2. /\ n \in 1..top /\ n \in Nat /\ top \in Nat
      /\ s.selections[n].at = "asked" /\ s.selections \in Seq(Selection)
  <2>1. selections \in Seq(Selection)
    BY <1>1 DEF States
  <2> QED
    BY <1>1, <2>1 DEF Answered
<1>3. Become(t) /\ last' = l /\ UNCHANGED << deposits, crossed >>
  BY Zenon DEF Answered
<1>4. /\ l \in [Elements -> Nat] /\ l["content"] = n
      /\ l["modalBackground"] = last["modalBackground"]
  BY <1>1, <1>2 DEF Elements
<1> HIDE DEF l, s
<1>5. at \in {"shown", "thrown"}
  OBVIOUS
<1>6. /\ s0 \in States /\ s0.selections = Moved(s.selections, n, at)
      /\ s0.dialogs = s.dialogs /\ Desk(s0) = Desk(s)
      /\ s0.html["content"] = s.selections[n].currency
      /\ s0.html["modalBackground"] = s.html["modalBackground"]
      /\ Panel(s0).fades = Panel(s).fades
      /\ s0.page.currentAsset = s.page.currentAsset
      /\ s0.page.currentCurrency = s.selections[n].currency
      /\ s0.page.dialogIsShown = s.page.dialogIsShown
      /\ ~ s0.page.blocked
  <2> DEFINE h == Hide(s, "content")
             r == Moved(s.selections, n, at)
             c == s.selections[n].currency
  <2>1. ElementChanged(s, h, "content") /\ h.element["content"].fades = s.element["content"].fades
    BY <1>1, Hides DEF Elements
  <2>2. r \in Seq(Selection) /\ c \in Contents
    <3>1. s.selections[n] \in Selection
      BY <1>2
    <3>2. c \in Currencies
      BY <3>1 DEF Selection
    <3>3. r \in Seq(Selection)
      BY <1>2, <1>5, SelectionGoes
    <3> QED
      BY <3>2, <3>3 DEF Contents
  <2>3. s0 = [h EXCEPT !.selections = r, !.html["content"] = c,
                       !.page.currentCurrency = c, !.page.blocked = FALSE]
    <3>1. h.selections = s.selections
      BY <2>1 DEF ElementChanged
    <3> QED
      BY <3>1 DEF Answer, Moved
  <2> HIDE DEF h, r, c, s0
  <2>4. h \in States
    BY <2>1 DEF ElementChanged
  <2>5. /\ s0 \in States /\ s0.selections = r /\ s0.dialogs = h.dialogs /\ s0.element = h.element
        /\ s0.html["content"] = c /\ s0.html["modalBackground"] = h.html["modalBackground"]
        /\ s0.page.currentAsset = h.page.currentAsset /\ s0.page.currentCurrency = c
        /\ s0.page.dialogIsShown = h.page.dialogIsShown /\ ~ s0.page.blocked
    BY <2>2, <2>3, <2>4 DEF States, Elements
  <2> QED
    BY <2>1, <2>5 DEF ElementChanged, Panel, Desk, Elements, r, c
<1> HIDE DEF s0
<1>7. /\ Len(s0.selections) = top /\ s0.selections[n].at = at
      /\ s0.selections[n].currency = s.selections[n].currency
      /\ SelectionFades(s0) /\ SelectionsInOrder(s0)
      /\ s0.page.currentAsset = s0.selections[top].currency
  <2> HIDE DEF at
  <2>1. SelectionEnded(s, s0, n, at)
    BY <1>2, <1>5, <1>6 DEF SelectionEnded
  <2> QED
    BY <1>1, <2>1, SelectionEnds
<1>8. DeskInv(s0, l, crossed) /\ FadesShown(s0)
  <2>1. DeskSame(s, s0)
    BY <1>6 DEF DeskSame
  <2> QED
    BY <1>1, <1>4, <2>1, DeskStays
<1>9. RightPanel(s0, l)
  <2>1. Seen(s0, l) => top = n
    BY <1>4, <1>7 DEF Seen
  <2> QED
    BY <1>6, <1>7, <2>1 DEF RightPanel
<1>10. CASE connected
  <2>1. t = Enqueue(s0, "content", fade)
    BY <1>10
  <2>2. q \in Seq(Fades) /\ fade \in Fades /\ fade.to = "in" /\ fade.then = "initFocus"
    BY <1>2, <1>6 DEF Panel, States, Elements, Fade, Fades
  <2> HIDE DEF t, q, fade
  <2>3. /\ ElementChanged(s0, t1, "content")
        /\ Panel(t1).fades = Append(q, fade)
    <3>1. Append(q, fade) \in Seq(Fades)
      BY <2>2
    <3> QED
      BY <1>6, <3>1, Queues DEF Elements, Panel
  <2>4. /\ \A i \in DOMAIN q : i \in Nat /\ i < Len(q) + 1 /\ Append(q, fade)[i] = q[i]
        /\ Append(q, fade)[Len(q) + 1] = fade
        /\ \A i \in DOMAIN Append(q, fade) : i \in DOMAIN q \/ i = Len(q) + 1
        /\ Len(q) \in Nat /\ Len(Append(q, fade)) = Len(q) + 1
        /\ Append(q, fade) # << >>
        /\ q # << >> => Len(q) >= 1
    BY <2>2
  <2> HIDE DEF t1
  <2>5. /\ t1.selections = s0.selections /\ t1.page = s0.page /\ t1.html = s0.html
    BY <2>3 DEF ElementChanged
  <2>6. SelectionFades(t1)
    BY <1>7, <2>2, <2>3, <2>4, <2>5 DEF SelectionFades, q
  <2>7. SelectionsInOrder(t1)
    BY <1>7, <2>2, <2>3, <2>4 DEF SelectionsInOrder, q
  <2>8. RightPanel(t1, l) /\ Returning(t1, l)
    BY <1>9, <2>3, <2>4, <2>5 DEF RightPanel, Returning, Seen
  <2>9. q # << >> => Returns(t1, l)
    BY <2>3, <2>4 DEF Returns
  <2>10. t \in States /\ PanelInv(t, l) /\ Returns(t, l) /\ PanelMoved(s0, t)
    <3>1. t1 = Queue(s0, "content", Append(Panel(s0).fades, fade))
      BY DEF t1, q
    <3>2. PanelInv(t1, l)
      BY <2>6, <2>7, <2>8 DEF PanelInv
    <3> QED
      BY <1>6, <2>1, <2>2, <2>9, <3>1, <3>2, PanelEnqueues DEF q
  <2>11. DeskInv(t, l, crossed) /\ FadesShown(t)
    <3>1. DeskSame(s0, t)
      BY <2>10 DEF PanelMoved, DeskSame
    <3> QED
      BY <1>8, <3>1, DeskStays
  <2>12. BlockedBySome(t, deposits)
    BY <1>6, <2>10 DEF BlockedBySome, PanelMoved
  <2>13. State' = t
    BY <1>3, <2>10, Becomes
  <2> QED
    BY <1>1, <1>3, <1>4, <2>10, <2>11, <2>12, <2>13 DEF Inv, Types
<1>11. CASE ~ connected
  <2>1. t = s0 /\ at = "thrown"
    BY <1>11
  <2>2. ~ Seen(s0, l)
    BY <1>4, <1>7, <2>1 DEF Seen
  <2>3. PanelInv(s0, l) /\ Returns(s0, l)
    BY <1>7, <1>9, <2>2 DEF PanelInv, Returning, Returns
  <2>4. State' = s0
    BY <1>3, <1>6, <2>1, Becomes
  <2> QED
    BY <1>1, <1>3, <1>4, <1>6, <1>8, <2>3, <2>4 DEF Inv, Types, BlockedBySome
<1> QED
  BY <1>10, <1>11

LEMMA FailedInv ==
    ASSUME Inv, NEW n \in DOMAIN selections, Failed(n)
    PROVE  Inv'
<1> DEFINE s == State
           r == Moved(s.selections, n, "failed")
           t == [s EXCEPT !.selections = r, !.page.blocked = FALSE]
           l == [last EXCEPT !["content"] = n]
           top == Len(s.selections)
<1>1. /\ s \in States /\ PanelInv(s, last) /\ DeskInv(s, last, crossed) /\ FadesShown(s)
      /\ last \in [Elements -> Nat] /\ s.selections = selections
  BY Parts DEF Inv, Types
<1>2. /\ n \in 1..top /\ n \in Nat /\ top \in Nat
      /\ s.selections[n].at = "asked" /\ s.selections \in Seq(Selection)
  <2>1. selections \in Seq(Selection)
    BY <1>1 DEF States
  <2> QED
    BY <1>1, <2>1 DEF Failed
<1>3. Become(t) /\ last' = l /\ UNCHANGED << deposits, crossed >>
  BY DEF Failed, Moved
<1>4. /\ l \in [Elements -> Nat] /\ l["content"] = n
      /\ l["modalBackground"] = last["modalBackground"]
  BY <1>1, <1>2 DEF Elements
<1>5. r \in Seq(Selection)
  BY <1>2, SelectionGoes
<1> HIDE DEF l, s, r
<1>6. /\ t \in States /\ t.selections = r /\ t.dialogs = s.dialogs /\ t.element = s.element
      /\ t.html = s.html /\ t.page.currentAsset = s.page.currentAsset
      /\ t.page.dialogIsShown = s.page.dialogIsShown /\ ~ t.page.blocked
  BY <1>1, <1>5 DEF States
<1> HIDE DEF t
<1>7. /\ Len(t.selections) = top /\ t.selections[n].at = "failed"
      /\ SelectionFades(t) /\ SelectionsInOrder(t)
      /\ t.page.currentAsset = t.selections[top].currency
  <2>1. SelectionEnded(s, t, n, "failed")
    BY <1>2, <1>6 DEF SelectionEnded, r, Panel
  <2> QED
    BY <1>1, <2>1, SelectionEnds
<1>8. DeskInv(t, l, crossed) /\ FadesShown(t)
  <2>1. DeskSame(s, t)
    BY <1>6 DEF DeskSame, Desk
  <2> QED
    BY <1>1, <1>4, <2>1, DeskStays
<1>9. ~ Seen(t, l)
  BY <1>4, <1>7 DEF Seen
<1>10. PanelInv(t, l) /\ Returns(t, l)
  BY <1>7, <1>9 DEF PanelInv, RightPanel, Returning, Returns
<1>11. State' = t
  BY <1>3, <1>6, Becomes
<1> QED
  BY <1>1, <1>3, <1>4, <1>6, <1>8, <1>10, <1>11 DEF Inv, Types, BlockedBySome

LEMMA StaysInv ==
    ASSUME Inv, HubChanges \/ UNCHANGED vars
    PROVE  Inv'
<1>1. State' = State /\ UNCHANGED << deposits, last, crossed >>
  BY DEF HubChanges, vars, State
<1> QED
  BY <1>1 DEF Inv, Types

LEMMA ShowDialogInv ==
    ASSUME Inv, NEW dialog \in Dialogs, ShowDialog(dialog)
    PROVE  Inv'
<1> DEFINE s == State
           new == [dialog |-> dialog, at |-> "waiting"]
           r == Append(dialogs, new)
           n == Len(dialogs) + 1
           fade == Fade("in", "loadModalContent", n)
           s0 == [s EXCEPT !.dialogs = r]
           q == Desk(s0).fades
           t1 == Queue(s0, "modalBackground", Append(q, fade))
           t2 == Enqueue(s0, "modalBackground", fade)
           t == [t2 EXCEPT !.page.dialogIsShown = TRUE]
<1>0. PICK x \in BOOLEAN : x = TRUE
  OBVIOUS
<1>1. /\ s \in States /\ PanelInv(s, last) /\ Returns(s, last)
      /\ DeskInv(s, last, crossed) /\ FadesShown(s)
      /\ s.dialogs = dialogs /\ Hiding = \E i \in DOMAIN Desk(s).fades : Desk(s).fades[i].to = "out"
  BY Parts DEF Inv, Types, Hiding
<1>2. dialogs \in Seq(DialogCall) /\ new \in DialogCall
  BY <1>1 DEF States, DialogCall
<1>3. /\ r \in Seq(DialogCall) /\ Len(r) = n /\ n \in Nat /\ n > 0 /\ r[n] = new
      /\ \A i \in 1..Len(dialogs) : r[i] = dialogs[i]
      /\ n - 1 = Len(dialogs)
  BY <1>2
<1>4. Become(t) /\ crossed' = Hiding /\ UNCHANGED << deposits, last >>
  BY <1>1 DEF ShowDialog
<1>5. new.at = "waiting"
  OBVIOUS
<1> HIDE DEF new, r, s
<1>6. /\ s0 \in States /\ s0.selections = s.selections /\ s0.dialogs = r /\ s0.element = s.element
      /\ s0.page = s.page /\ s0.html = s.html
  BY <1>1, <1>3, CallsDialog
<1> HIDE DEF s0
<1>7. q = Desk(s).fades /\ q \in Seq(Fades) /\ fade \in Fades /\ FadesShown(s0)
  <2>1. q = Desk(s).fades /\ Desk(s0) = Desk(s)
    BY <1>6 DEF Desk
  <2> QED
    BY <1>1, <1>3, <1>6, <2>1 DEF Desk, States, Elements, Fade, Fades, FadesShown
<1>8. fade.to = "in" /\ fade.then = "loadModalContent" /\ fade.n = n
  BY DEF Fade
<1> HIDE DEF q, fade
<1>9. /\ \A i \in DOMAIN q : i \in Nat /\ i < Len(q) + 1 /\ Append(q, fade)[i] = q[i]
      /\ Append(q, fade)[Len(q) + 1] = fade
      /\ \A i \in DOMAIN Append(q, fade) : i \in DOMAIN q \/ i = Len(q) + 1
      /\ Len(q) \in Nat /\ Append(q, fade) # << >>
      /\ Append(q, fade) \in Seq(Fades)
  BY <1>7
<1> HIDE DEF t1, t2
<1>10. ElementChanged(s0, t1, "modalBackground") /\ Desk(t1).fades = Append(q, fade)
  BY <1>6, <1>9, Queues DEF Elements, Desk, t1
<1>11. t1.dialogs = r
  BY <1>6, <1>10 DEF ElementChanged
<1>12. \A i \in DOMAIN q :
          \/ q[i].to = "out" /\ q[i].then = "dialogHidden"
          \/ /\ q[i].to = "in" /\ q[i].then = "loadModalContent"
             /\ q[i].n \in 1..Len(dialogs)
             /\ \A m \in q[i].n..Len(dialogs) : dialogs[m].at = "waiting"
  BY <1>1, <1>7 DEF DeskInv, DialogFades
<1>13. DeskInv(t1, last, x)
  <2>1. DialogFades(t1)
    <3> SUFFICES ASSUME NEW i \in DOMAIN Append(q, fade)
                 PROVE  LET f == Append(q, fade)[i]
                        IN  \/ f.to = "out" /\ f.then = "dialogHidden"
                            \/ /\ f.to = "in" /\ f.then = "loadModalContent"
                               /\ f.n \in 1..n
                               /\ \A m \in f.n..n : r[m].at = "waiting"
      BY <1>3, <1>10, <1>11 DEF DialogFades
    <3>1. CASE i \in DOMAIN q /\ q[i].to = "out"
      BY <1>9, <1>12, <3>1
    <3>2. CASE i \in DOMAIN q /\ q[i].to = "in"
      <4>1. /\ q[i].n \in 1..n
            /\ \A m \in q[i].n..n : m = n \/ (m \in 1..Len(dialogs) /\ m \in q[i].n..Len(dialogs))
        BY <1>2, <1>3, <1>12, <3>2
      <4>2. \A m \in q[i].n..n : r[m].at = "waiting"
        BY <1>3, <1>5, <1>12, <3>2, <4>1
      <4> QED
        BY <1>9, <1>12, <3>2, <4>1, <4>2
    <3>3. CASE i = Len(q) + 1
      BY <1>3, <1>5, <1>8, <1>9, <3>3
    <3> QED
      BY <1>9, <1>12, <3>1, <3>2, <3>3
  <2>2. DialogsInOrder(t1)
    <3>1. \A i, j \in DOMAIN q : i < j /\ q[i].to = "in" /\ q[j].to = "in" => q[i].n < q[j].n
      BY <1>1, <1>7 DEF DeskInv, DialogsInOrder
    <3>2. \A i \in DOMAIN q : q[i].to = "in" => q[i].n < n
      BY <1>2, <1>3, <1>12
    <3> QED
      BY <1>8, <1>9, <1>10, <3>1, <3>2 DEF DialogsInOrder
  <2>3. RightDialog(t1, last)
    BY <1>3, <1>5, <1>11 DEF RightDialog
  <2> QED
    BY <1>0, <2>1, <2>2, <2>3 DEF DeskInv, Noted
<1>14. /\ t2 \in States /\ DeskInv(t2, last, x) /\ FadesShown(t2) /\ DeskMoved(s0, t2)
       /\ Opening(t1) => Opening(t2) /\ Desk(t2).shown
  <2>1. t1 = Queue(s0, "modalBackground", Append(Desk(s0).fades, fade))
        /\ t2 = Enqueue(s0, "modalBackground", fade)
    BY DEF t1, t2, q
  <2> QED
    <3>1. x \in BOOLEAN /\ fade \in Fades /\ s0 \in States /\ FadesShown(s0)
      BY <1>0, <1>6, <1>7
    <3> QED
      BY <1>13, <2>1, <3>1, DeskEnqueues
<1>15. /\ t \in States /\ t.selections = t2.selections /\ t.dialogs = t2.dialogs
       /\ t.element = t2.element /\ t.html = t2.html
       /\ t.page = [t2.page EXCEPT !.dialogIsShown = TRUE]
  BY <1>14, Notes
<1>16. t.page.dialogIsShown /\ t2.page \in [currentAsset : Contents, currentCurrency : Contents,
                                            dialogIsShown : BOOLEAN, blocked : BOOLEAN]
  BY <1>14, <1>15 DEF States
<1> HIDE DEF t
<1>17. ~ Hiding => Opening(t1)
  <2>1. ~ Hiding => \A i \in DOMAIN q : q[i].to = "in"
    BY <1>1, <1>7, <1>12
  <2> QED
    BY <1>8, <1>9, <1>10, <2>1 DEF Opening
<1>18. DeskInv(t, last, Hiding) /\ FadesShown(t)
  <2>1. Desk(t) = Desk(t2)
    BY <1>15 DEF Desk
  <2>2. Noted(t, Hiding)
    <3> SUFFICES ASSUME ~ Hiding PROVE Noted(t, Hiding)
      BY DEF Noted
    <3>1. Opening(t2) /\ Desk(t2).shown
      BY <1>14, <1>17
    <3> QED
      BY <1>16, <2>1, <3>1 DEF Opening, Noted
  <2> QED
    BY <1>14, <1>15, <2>1, <2>2 DEF DeskInv, DialogFades, DialogsInOrder, RightDialog, FadesShown
<1>19. PanelSame(s, t) /\ t.page.blocked = s.page.blocked
  <2>1. s.page \in [currentAsset : Contents, currentCurrency : Contents,
                    dialogIsShown : BOOLEAN, blocked : BOOLEAN]
    BY <1>1 DEF States
  <2>2. /\ t2.page.currentAsset = s.page.currentAsset
        /\ t2.page.currentCurrency = s.page.currentCurrency
        /\ t2.page.blocked = s.page.blocked
    BY <1>6, <1>14, <2>1 DEF DeskMoved
  <2>3. /\ t.page.currentAsset = s.page.currentAsset
        /\ t.page.currentCurrency = s.page.currentCurrency
        /\ t.page.blocked = s.page.blocked
    BY <1>15, <1>16, <2>2
  <2> QED
    BY <1>6, <1>14, <1>15, <2>3 DEF DeskMoved, PanelSame, Panel
<1>20. PanelInv(t, last) /\ Returns(t, last)
  BY <1>1, <1>19, PanelStays
<1>21. BlockedBySome(t, deposits)
  BY <1>19 DEF Inv, BlockedBySome, PanelSame, Selecting, s
<1>22. State' = t
  BY <1>4, <1>15, Becomes
<1> QED
  BY <1>1, <1>4, <1>15, <1>18, <1>20, <1>21, <1>22 DEF Inv, Types, Hiding

LEMMA HideDialogKeeps ==
    ASSUME NEW s \in States, NEW l, NEW x \in BOOLEAN, NEW t, t = HideDialog(s),
           DeskInv(s, l, x), FadesShown(s)
    PROVE  t \in States /\ DeskInv(t, l, x) /\ FadesShown(t) /\ DeskMoved(s, t)
<1> DEFINE q == Desk(s).fades
           fade == Fade("out", "dialogHidden", 0)
           t1 == Queue(s, "modalBackground", Append(q, fade))
<1>1. CASE ~ s.page.dialogIsShown
  <2>1. t = s
    BY <1>1 DEF HideDialog
  <2>2. s.page = [s.page EXCEPT !.dialogIsShown = s.page.dialogIsShown]
    BY DEF States
  <2> QED
    BY <2>1, <2>2 DEF DeskMoved
<1>2. CASE s.page.dialogIsShown
  <2>1. t = Enqueue(s, "modalBackground", fade)
    BY <1>2 DEF HideDialog
  <2>2. q \in Seq(Fades) /\ fade \in Fades /\ fade.to = "out" /\ fade.then = "dialogHidden"
    BY DEF Desk, States, Elements, Fade, Fades
  <2> HIDE DEF q, fade
  <2>3. /\ \A i \in DOMAIN q : i \in Nat /\ i < Len(q) + 1 /\ Append(q, fade)[i] = q[i]
        /\ Append(q, fade)[Len(q) + 1] = fade
        /\ \A i \in DOMAIN Append(q, fade) : i \in DOMAIN q \/ i = Len(q) + 1
        /\ Len(q) \in Nat
        /\ Append(q, fade) \in Seq(Fades)
    BY <2>2
  <2>4. /\ ElementChanged(s, t1, "modalBackground")
        /\ Desk(t1).fades = Append(q, fade) /\ Desk(t1).shown = Desk(s).shown
    BY <2>3, Queues DEF Elements, Desk
  <2> HIDE DEF t1
  <2>5. t1.dialogs = s.dialogs /\ t1.page = s.page /\ t1.html = s.html
    BY <2>4 DEF ElementChanged
  <2>6. DialogFades(t1)
    BY <2>2, <2>3, <2>4, <2>5 DEF DeskInv, DialogFades, q
  <2>7. DialogsInOrder(t1)
    BY <2>2, <2>3, <2>4, <2>5 DEF DeskInv, DialogsInOrder, q
  <2>8. Noted(t1, x)
    <3> SUFFICES ASSUME ~ x PROVE Noted(t1, x)
      BY DEF Noted
    <3>1. Desk(t1).shown /\ t1.page.dialogIsShown
      BY <1>2, <2>4, <2>5, Zenon DEF DeskInv, Noted
    <3>2. \A i, j \in DOMAIN q : i < j /\ q[i].to = "out" => q[j].to = "out"
      BY DEF DeskInv, Noted, q
    <3>3. \A i, j \in DOMAIN Append(q, fade) :
             i < j /\ Append(q, fade)[i].to = "out" => Append(q, fade)[j].to = "out"
      BY <2>2, <2>3, <3>2
    <3> QED
      BY <2>4, <3>1, <3>3 DEF Noted
  <2>9. RightDialog(t1, l)
    BY <2>4, <2>5 DEF DeskInv, RightDialog
  <2>10. DeskInv(t1, l, x)
    BY <2>6, <2>7, <2>8, <2>9 DEF DeskInv
  <2>11. t1 = Queue(s, "modalBackground", Append(Desk(s).fades, fade))
    BY DEF t1, q
  <2> QED
    BY <2>1, <2>2, <2>10, <2>11, DeskEnqueues
<1> QED
  BY <1>1, <1>2

LEMMA CloseInv ==
    ASSUME Inv, Close
    PROVE  Inv'
<1> DEFINE s == State
           t == HideDialog(s)
<1>1. /\ s \in States /\ PanelInv(s, last) /\ Returns(s, last)
      /\ DeskInv(s, last, crossed) /\ FadesShown(s) /\ crossed \in BOOLEAN
  BY DEF Inv, Types
<1>2. Become(t) /\ UNCHANGED << deposits, last, crossed >>
  BY DEF Close
<1> HIDE DEF s
<1>3. t \in States /\ DeskInv(t, last, crossed) /\ FadesShown(t) /\ DeskMoved(s, t)
  BY <1>1, HideDialogKeeps
<1> HIDE DEF t
<1>4. PanelSame(s, t) /\ t.page.blocked = s.page.blocked
  BY <1>1, <1>3 DEF PanelSame, DeskMoved, States
<1>5. PanelInv(t, last) /\ Returns(t, last)
  BY <1>1, <1>4, PanelStays
<1>6. BlockedBySome(t, deposits)
  BY <1>4 DEF Inv, BlockedBySome, PanelSame, Selecting, s
<1>7. State' = t
  BY <1>2, <1>3, Becomes
<1> QED
  BY <1>2, <1>3, <1>5, <1>6, <1>7 DEF Inv, Types

\* The end of a dialog's request, by an answer or a failure.
DialogEnded(s, t, n, at) ==
    /\ n \in 1..Len(s.dialogs) /\ s.dialogs[n].at = "asked"
    /\ at \in {"shown", "failed"}
    /\ t.dialogs = Moved(s.dialogs, n, at)
    /\ t.page.dialogIsShown = s.page.dialogIsShown
    /\ Desk(t) = Desk(s)

LEMMA DialogEnds ==
    ASSUME NEW s \in States, NEW t, NEW l, NEW x, NEW n, NEW at, DialogEnded(s, t, n, at),
           DeskInv(s, l, x)
    PROVE  /\ Len(t.dialogs) = Len(s.dialogs)
           /\ t.dialogs[n].at = at /\ t.dialogs[n].dialog = s.dialogs[n].dialog
           /\ DialogFades(t) /\ DialogsInOrder(t) /\ Noted(t, x)
<1> DEFINE was == s.dialogs
           moved == Moved(was, n, at)
           q == Desk(s).fades
<1>1. was \in Seq(DialogCall) /\ Len(was) \in Nat
  BY DEF States
<1>2. /\ n \in 1..Len(was) /\ was[n].at = "asked" /\ at \in {"shown", "failed"}
      /\ t.dialogs = moved /\ t.page.dialogIsShown = s.page.dialogIsShown /\ Desk(t) = Desk(s)
  BY DEF DialogEnded
<1>3. /\ moved \in Seq(DialogCall) /\ Len(moved) = Len(was) /\ moved[n].at = at
      /\ \A m \in 1..Len(was) : moved[m].dialog = was[m].dialog /\ (m # n => moved[m] = was[m])
  <2>1. n \in 1..Len(was) /\ at \in {"waiting", "asked", "shown", "failed"}
    BY <1>2
  <2> HIDE DEF was
  <2> QED
    BY <1>1, <2>1, DialogGoes
<1> HIDE DEF moved
<1>4. DialogFades(t)
  <2> SUFFICES ASSUME NEW i \in DOMAIN q
               PROVE  \/ q[i].to = "out" /\ q[i].then = "dialogHidden"
                      \/ /\ q[i].to = "in" /\ q[i].then = "loadModalContent"
                         /\ q[i].n \in 1..Len(was)
                         /\ \A m \in q[i].n..Len(was) : moved[m].at = "waiting"
    BY <1>2, <1>3 DEF DialogFades
  <2>1. \/ q[i].to = "out" /\ q[i].then = "dialogHidden"
        \/ /\ q[i].to = "in" /\ q[i].then = "loadModalContent"
           /\ q[i].n \in 1..Len(was)
           /\ \A m \in q[i].n..Len(was) : was[m].at = "waiting"
    BY DEF DeskInv, DialogFades
  <2>2. CASE q[i].n \in 1..Len(was) /\ \A m \in q[i].n..Len(was) : was[m].at = "waiting"
    <3>1. \A m \in q[i].n..Len(was) : m # n /\ m \in 1..Len(was)
      BY <1>1, <1>2, <2>2
    <3>2. \A m \in q[i].n..Len(was) : moved[m].at = "waiting"
      BY <1>3, <2>2, <3>1
    <3> QED
      BY <2>1, <2>2, <3>2
  <2> QED
    BY <2>1, <2>2
<1>5. DialogsInOrder(t)
  BY <1>2 DEF DeskInv, DialogsInOrder
<1>6. Noted(t, x)
  BY <1>2, Zenon DEF DeskInv, Noted
<1> QED
  BY <1>2, <1>3, <1>4, <1>5, <1>6

LEMMA DialogLoadedInv ==
    ASSUME Inv, NEW n \in DOMAIN dialogs, DialogLoaded(n)
    PROVE  Inv'
<1> DEFINE s == State
           r == Moved(s.dialogs, n, "shown")
           c == dialogs[n].dialog
           t == [s EXCEPT !.dialogs = r, !.html["modalBackground"] = c]
           l == [last EXCEPT !["modalBackground"] = n]
           top == Len(s.dialogs)
<1>1. /\ s \in States /\ PanelInv(s, last) /\ Returns(s, last)
      /\ DeskInv(s, last, crossed) /\ FadesShown(s)
      /\ last \in [Elements -> Nat] /\ s.dialogs = dialogs
  BY Parts DEF Inv, Types
<1>2. /\ n \in 1..top /\ n \in Nat /\ top \in Nat
      /\ s.dialogs[n].at = "asked" /\ s.dialogs \in Seq(DialogCall)
  <2>1. dialogs \in Seq(DialogCall)
    BY <1>1 DEF States
  <2> QED
    BY <1>1, <2>1 DEF DialogLoaded
<1>3. Become(t) /\ last' = l /\ UNCHANGED << deposits, crossed >>
  BY DEF DialogLoaded, Moved
<1>4. /\ l \in [Elements -> Nat] /\ l["modalBackground"] = n
      /\ l["content"] = last["content"]
  BY <1>1, <1>2 DEF Elements
<1>5. r \in Seq(DialogCall) /\ c \in Contents /\ c = s.dialogs[n].dialog
  <2>1. s.dialogs[n] \in DialogCall
    BY <1>2
  <2>2. c \in Dialogs /\ c = s.dialogs[n].dialog
    BY <1>1, <2>1 DEF DialogCall
  <2>3. r \in Seq(DialogCall)
    BY <1>2, DialogGoes
  <2> QED
    BY <2>2, <2>3 DEF Contents
<1> HIDE DEF l, s, r, c
<1>6. /\ t \in States /\ t.selections = s.selections /\ t.dialogs = r /\ t.element = s.element
      /\ t.html["modalBackground"] = c /\ t.html["content"] = s.html["content"] /\ t.page = s.page
  BY <1>1, <1>5 DEF States, Elements
<1> HIDE DEF t
<1>7. /\ Len(t.dialogs) = top /\ t.dialogs[n].at = "shown" /\ t.dialogs[n].dialog = c
      /\ DialogFades(t) /\ DialogsInOrder(t) /\ Noted(t, crossed)
  <2>1. t.dialogs = Moved(s.dialogs, n, "shown") /\ Desk(t) = Desk(s)
    BY <1>6 DEF r, Desk
  <2>2. DialogEnded(s, t, n, "shown")
    BY <1>2, <1>6, <2>1 DEF DialogEnded
  <2> QED
    BY <1>1, <1>5, <2>2, DialogEnds
<1>8. RightDialog(t, l)
  BY <1>4, <1>6, <1>7 DEF RightDialog
<1>9. DeskInv(t, l, crossed) /\ FadesShown(t)
  BY <1>1, <1>6, <1>7, <1>8 DEF DeskInv, FadesShown, Desk
<1>10. PanelInv(t, l) /\ Returns(t, l)
  <2>1. PanelSame(s, t)
    BY <1>6 DEF PanelSame, Panel
  <2> QED
    BY <1>1, <1>4, <2>1, PanelStays
<1>11. BlockedBySome(t, deposits)
  BY <1>6 DEF Inv, BlockedBySome, Selecting, s
<1>12. State' = t
  BY <1>3, <1>6, Becomes
<1> QED
  BY <1>1, <1>3, <1>4, <1>6, <1>9, <1>10, <1>11, <1>12 DEF Inv, Types

LEMMA DialogFailedInv ==
    ASSUME Inv, NEW n \in DOMAIN dialogs, DialogFailed(n)
    PROVE  Inv'
<1> DEFINE s == State
           r == Moved(s.dialogs, n, "failed")
           t == [s EXCEPT !.dialogs = r]
           l == [last EXCEPT !["modalBackground"] = n]
           top == Len(s.dialogs)
<1>1. /\ s \in States /\ PanelInv(s, last) /\ Returns(s, last)
      /\ DeskInv(s, last, crossed) /\ FadesShown(s)
      /\ last \in [Elements -> Nat] /\ s.dialogs = dialogs
  BY Parts DEF Inv, Types
<1>2. /\ n \in 1..top /\ n \in Nat /\ top \in Nat
      /\ s.dialogs[n].at = "asked" /\ s.dialogs \in Seq(DialogCall)
  <2>1. dialogs \in Seq(DialogCall)
    BY <1>1 DEF States
  <2> QED
    BY <1>1, <2>1 DEF DialogFailed
<1>3. Become(t) /\ last' = l /\ UNCHANGED << deposits, crossed >>
  BY DEF DialogFailed, Moved
<1>4. /\ l \in [Elements -> Nat] /\ l["modalBackground"] = n
      /\ l["content"] = last["content"]
  BY <1>1, <1>2 DEF Elements
<1>5. r \in Seq(DialogCall)
  BY <1>2, DialogGoes
<1> HIDE DEF l, s, r
<1>6. /\ t \in States /\ t.selections = s.selections /\ t.dialogs = r /\ t.element = s.element
      /\ t.html = s.html /\ t.page = s.page
  BY <1>1, <1>5, CallsDialog
<1> HIDE DEF t
<1>7. /\ Len(t.dialogs) = top /\ t.dialogs[n].at = "failed"
      /\ DialogFades(t) /\ DialogsInOrder(t) /\ Noted(t, crossed)
  <2>1. t.dialogs = Moved(s.dialogs, n, "failed") /\ Desk(t) = Desk(s)
    BY <1>6 DEF r, Desk
  <2>2. DialogEnded(s, t, n, "failed")
    BY <1>2, <1>6, <2>1 DEF DialogEnded
  <2> QED
    <3>1. /\ Len(t.dialogs) = Len(s.dialogs)
          /\ t.dialogs[n].at = "failed" /\ t.dialogs[n].dialog = s.dialogs[n].dialog
          /\ DialogFades(t) /\ DialogsInOrder(t) /\ Noted(t, crossed)
      BY <1>1, <2>2, DialogEnds, Zenon
    <3> QED
      BY <3>1
<1>8. RightDialog(t, l)
  BY <1>4, <1>7 DEF RightDialog
<1>9. DeskInv(t, l, crossed) /\ FadesShown(t)
  BY <1>1, <1>6, <1>7, <1>8 DEF DeskInv, FadesShown, Desk
<1>10. PanelInv(t, l) /\ Returns(t, l)
  <2>1. PanelSame(s, t)
    BY <1>6 DEF PanelSame, Panel
  <2> QED
    BY <1>1, <1>4, <2>1, PanelStays
<1>11. BlockedBySome(t, deposits)
  BY <1>6 DEF Inv, BlockedBySome, Selecting, s
<1>12. State' = t
  BY <1>3, <1>6, Becomes
<1> QED
  BY <1>1, <1>3, <1>4, <1>6, <1>9, <1>10, <1>11, <1>12 DEF Inv, Types

LEMMA DepositInv ==
    ASSUME Inv, Deposit
    PROVE  Inv'
<1> DEFINE s == State
           t == [s EXCEPT !.page.blocked = TRUE]
           d == Append(deposits, "asked")
<1>1. /\ s \in States /\ PanelInv(s, last) /\ Returns(s, last)
      /\ DeskInv(s, last, crossed) /\ FadesShown(s)
      /\ deposits \in Seq({"asked", "ended"})
  BY DEF Inv, Types
<1>2. Become(t) /\ deposits' = d /\ UNCHANGED << last, crossed >>
  BY DEF Deposit
<1> HIDE DEF s
<1>3. /\ t \in States /\ t.selections = s.selections /\ t.dialogs = s.dialogs
      /\ t.element = s.element /\ t.html = s.html
      /\ t.page.currentAsset = s.page.currentAsset
      /\ t.page.currentCurrency = s.page.currentCurrency
      /\ t.page.dialogIsShown = s.page.dialogIsShown
  BY <1>1 DEF States
<1> HIDE DEF t
<1>4. PanelInv(t, last) /\ Returns(t, last)
  <2>1. PanelSame(s, t)
    BY <1>3 DEF PanelSame, Panel
  <2> QED
    BY <1>1, <2>1, PanelStays
<1>5. DeskInv(t, last, crossed) /\ FadesShown(t)
  <2>1. DeskSame(s, t)
    BY <1>3 DEF DeskSame, Desk
  <2> QED
    BY <1>1, <2>1, DeskStays
<1>6. /\ d \in Seq({"asked", "ended"}) /\ Len(d) \in 1..Len(d)
      /\ d[Len(d)] = "asked"
  BY <1>1
<1> HIDE DEF d
<1>7. BlockedBySome(t, d)
  BY <1>6 DEF BlockedBySome
<1>8. State' = t
  BY <1>2, <1>3, Becomes
<1> QED
  BY <1>2, <1>3, <1>4, <1>5, <1>6, <1>7, <1>8 DEF Inv, Types

LEMMA DepositEndsInv ==
    ASSUME Inv, NEW n \in DOMAIN deposits, NEW hides \in BOOLEAN, DepositEnds(n, hides)
    PROVE  Inv'
<1> DEFINE s == State
           s0 == [s EXCEPT !.page.blocked = FALSE]
           t == IF hides THEN HideDialog(s0) ELSE s0
           d == [deposits EXCEPT ![n] = "ended"]
<1>1. /\ s \in States /\ PanelInv(s, last) /\ Returns(s, last)
      /\ DeskInv(s, last, crossed) /\ FadesShown(s) /\ crossed \in BOOLEAN
      /\ deposits \in Seq({"asked", "ended"})
  BY DEF Inv, Types
<1>2. Become(t) /\ deposits' = d /\ UNCHANGED << last, crossed >>
  BY DEF DepositEnds
<1>3. d \in Seq({"asked", "ended"})
  BY <1>1
<1> HIDE DEF s, d
<1>4. /\ s0 \in States /\ s0.selections = s.selections /\ s0.dialogs = s.dialogs
      /\ s0.element = s.element /\ s0.html = s.html
      /\ s0.page.currentAsset = s.page.currentAsset
      /\ s0.page.currentCurrency = s.page.currentCurrency
      /\ s0.page.dialogIsShown = s.page.dialogIsShown /\ ~ s0.page.blocked
  BY <1>1 DEF States
<1> HIDE DEF s0
<1>5. DeskInv(s0, last, crossed) /\ FadesShown(s0)
  <2>1. DeskSame(s, s0)
    BY <1>4 DEF DeskSame, Desk
  <2> QED
    BY <1>1, <2>1, DeskStays
<1>6. /\ t \in States /\ DeskInv(t, last, crossed) /\ FadesShown(t) /\ DeskMoved(s0, t)
  <2>1. CASE hides
    BY <1>1, <1>4, <1>5, <2>1, HideDialogKeeps
  <2>2. CASE ~ hides
    <3>1. s0.page = [s0.page EXCEPT !.dialogIsShown = s0.page.dialogIsShown]
      BY <1>4 DEF States
    <3> QED
      BY <1>4, <1>5, <2>2, <3>1 DEF DeskMoved
  <2> QED
    BY <2>1, <2>2
<1> HIDE DEF t
<1>7. PanelSame(s, t) /\ ~ t.page.blocked
  <2>1. /\ t.page.currentAsset = s0.page.currentAsset
        /\ t.page.currentCurrency = s0.page.currentCurrency
        /\ t.page.blocked = s0.page.blocked
    BY <1>4, <1>6 DEF DeskMoved, States
  <2> QED
    BY <1>4, <1>6, <2>1 DEF DeskMoved, PanelSame, Panel
<1>8. PanelInv(t, last) /\ Returns(t, last)
  BY <1>1, <1>7, PanelStays
<1>9. BlockedBySome(t, d)
  BY <1>7 DEF BlockedBySome
<1>10. State' = t
  BY <1>2, <1>6, Becomes
<1> QED
  BY <1>1, <1>2, <1>3, <1>6, <1>8, <1>9, <1>10 DEF Inv, Types

-----------------------------------------------------------------------------
(* The theorems.                                                           *)

LEMMA InitInv == Init => Inv
<1> SUFFICES ASSUME Init PROVE Inv
  OBVIOUS
<1>1. /\ State.selections = << >> /\ State.dialogs = << >>
      /\ Panel(State).shown /\ Panel(State).fades = << >>
      /\ ~ Desk(State).shown /\ Desk(State).fades = << >>
      /\ ~ State.page.dialogIsShown /\ ~ State.page.blocked
  BY Parts DEF Init
<1>2. Types
  <2>1. << >> \in Seq(Selection) /\ << >> \in Seq(DialogCall) /\ << >> \in Seq({"asked", "ended"})
        /\ << >> \in Seq(Fades)
    OBVIOUS
  <2>2. element \in [Elements -> [shown : BOOLEAN, fades : Seq(Fades)]]
    <3>1. element \in [content : [shown : BOOLEAN, fades : Seq(Fades)],
                        modalBackground : [shown : BOOLEAN, fades : Seq(Fades)]]
      BY <2>1 DEF Init
    <3>2. DOMAIN element = Elements /\ element = [e \in DOMAIN element |-> element[e]]
      BY DEF Init, Elements
    <3> QED
      BY <3>1, <3>2 DEF Elements
  <2>3. /\ html \in [Elements -> Contents]
        /\ page \in [currentAsset : Contents, currentCurrency : Contents,
                     dialogIsShown : BOOLEAN, blocked : BOOLEAN]
        /\ last \in [Elements -> Nat]
    BY DEF Init, Elements, Contents
  <2>4. selections = << >> /\ dialogs = << >> /\ deposits = << >> /\ crossed = FALSE
    BY DEF Init
  <2> QED
    BY <2>1, <2>2, <2>3, <2>4 DEF Types, State, States
<1>3. ~ Seen(State, last)
  BY <1>1 DEF Seen
<1>4. PanelInv(State, last) /\ Returns(State, last)
  BY <1>1, <1>3 DEF PanelInv, SelectionFades, SelectionsInOrder, RightPanel, Returning, Returns
<1>5. DeskInv(State, last, crossed) /\ FadesShown(State)
  BY <1>1 DEF DeskInv, DialogFades, DialogsInOrder, Noted, RightDialog, FadesShown
<1>6. BlockedBySome(State, deposits)
  BY <1>1 DEF BlockedBySome
<1> QED
  BY <1>2, <1>4, <1>5, <1>6 DEF Inv

LEMMA StepInv == Inv /\ [Next]_vars => Inv'
<1> SUFFICES ASSUME Inv, [Next]_vars PROVE Inv'
  OBVIOUS
<1>1. ASSUME NEW e \in Elements, FadeEnds(e) PROVE Inv'
  BY <1>1, PanelFadeEndsInv, DeskFadeEndsInv DEF Elements
<1>2. ASSUME NEW currency \in Currencies, SelectAsset(currency) PROVE Inv'
  BY <1>2, SelectAssetInv
<1>3. ASSUME NEW n \in DOMAIN selections, Answered(n) \/ Failed(n) PROVE Inv'
  BY <1>3, AnsweredInv, FailedInv
<1>4. ASSUME HubChanges \/ UNCHANGED vars PROVE Inv'
  BY <1>4, StaysInv
<1>5. ASSUME NEW dialog \in Dialogs, ShowDialog(dialog) PROVE Inv'
  BY <1>5, ShowDialogInv
<1>6. ASSUME Close PROVE Inv'
  BY <1>6, CloseInv
<1>7. ASSUME NEW n \in DOMAIN dialogs, DialogLoaded(n) \/ DialogFailed(n) PROVE Inv'
  BY <1>7, DialogLoadedInv, DialogFailedInv
<1>8. ASSUME Deposit PROVE Inv'
  BY <1>8, DepositInv
<1>9. ASSUME NEW n \in DOMAIN deposits, NEW hides \in BOOLEAN, DepositEnds(n, hides) PROVE Inv'
  BY <1>9, DepositEndsInv
<1> QED
  BY <1>1, <1>2, <1>3, <1>4, <1>5, <1>6, <1>7, <1>8, <1>9 DEF Next

\* The panel's part and the dialogs' part of the invariant hold between any two handlers
\* of the page, whichever clicks, answers and ends of fades have come before.
THEOREM PageInvariant == Spec => []Inv
<1>1. Init => Inv
  BY InitInv
<1>2. Inv /\ [Next]_vars => Inv'
  BY StepInv
<1> QED
  BY <1>1, <1>2, PTL DEF Spec

\* However clicks, fades and answers overlap, once no fade of the panel is left the panel
\* of the currency selected last is what is seen, if its answer came last and the hub took
\* its call; and the orders made in it are sent with its currency.
THEOREM LastSelectionIsSeen == Spec => []LastSelectionSeen
<1>1. Inv => LastSelectionSeen
  <2> SUFFICES ASSUME Inv, Len(selections) > 0, Idle("content"), last["content"] = Len(selections),
                      selections[Len(selections)].at = "shown"
               PROVE  /\ element["content"].shown
                      /\ html["content"] = page.currentAsset
                      /\ page.currentCurrency = page.currentAsset
    BY DEF LastSelectionSeen
  <2>1. Seen(State, last)
    BY Parts DEF Seen
  <2>2. Panel(State).fades = << >> /\ Len(<< >>) = 0
    BY Parts DEF Idle
  <2>3. Panel(State).shown
    BY <2>1, <2>2 DEF Inv, Returns
  <2> QED
    BY <2>1, <2>3, Parts DEF Inv, PanelInv, RightPanel
<1> QED
  BY <1>1, PageInvariant, PTL

\* Once no request of a selection or a deposit is under way, no form is left blocked: each
\* answer and each failure releases it, and selectAsset's request always follows its fade.
THEOREM NothingIsLeftBlocked == Spec => []NothingLeftBlocked
<1>1. Inv => NothingLeftBlocked
  <2>1. Inv => (page.blocked => \/ \E n \in 1..Len(selections) : selections[n].at \in Waiting
                                \/ \E n \in 1..Len(deposits) : deposits[n] = "asked")
    BY Parts DEF Inv, BlockedBySome, Selecting
  <2>2. Inv => DOMAIN selections = 1..Len(selections) /\ DOMAIN deposits = 1..Len(deposits)
    BY Parts DEF Inv, Types, States
  <2> QED
    BY <2>1, <2>2 DEF NothingLeftBlocked
<1> QED
  BY <1>1, PageInvariant, PTL

\* Once no fade of the dialogs is left, a dialog that is seen can be closed and one that is
\* not is taken to be closed, unless it was opened while another was closing.
THEOREM DialogsClose == Spec => []DialogCloses
<1>1. Inv => DialogCloses
  <2>1. Inv => (~ crossed => (Desk(State).shown <=> State.page.dialogIsShown))
    BY Zenon DEF Inv, DeskInv, Noted
  <2> QED
    BY <2>1, Parts, Zenon DEF DialogCloses
<1> QED
  BY <1>1, PageInvariant, PTL

\* A dialog that is seen, once no fade is left, is the one opened last, if its answer came
\* last: the answers to those before it do not stay in its place.
THEOREM LastDialogIsSeen == Spec => []LastDialogSeen
<1>1. Inv => LastDialogSeen
  BY Parts DEF Inv, DeskInv, RightDialog, LastDialogSeen
<1> QED
  BY <1>1, PageInvariant, PTL

=============================================================================
