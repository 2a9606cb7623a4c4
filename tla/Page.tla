-------------------------------- MODULE Page --------------------------------
(***************************************************************************)
(* The marketplace page: the panel a currency's instruments are loaded     *)
(* into (selectAsset, Requests), the dialogs over it (UiDesktop), and the  *)
(* queue of fades jQuery keeps for each of the two elements.               *)
(*                                                                         *)
(* A browser runs one handler at a time: a click, an answer or the end of  *)
(* a fade is one action, with everything that it calls.                    *)
(***************************************************************************)
EXTENDS Integers, Sequences

CONSTANTS
    Currencies,     \* of the side bar's items
    Dialogs,        \* its other items, among them "Settings"
    MaxSelections,  \* bound: clicks on a currency
    MaxDialogs,     \* bound: clicks on a dialog's item
    MaxDeposits,    \* bound: clicks on Deposit
    MaxFades        \* bound: fades queued for one element

ASSUME PageAssumption ==
    /\ "Settings" \in Dialogs
    /\ MaxSelections \in Nat /\ MaxDialogs \in Nat /\ MaxDeposits \in Nat
    /\ MaxFades \in Nat \ {0}
    /\ Currencies \cap {"nothing", "spinner"} = {}
    /\ Dialogs \cap {"nothing", "spinner"} = {}

VARIABLES
    selections,  \* each click on a currency: the currency, and where its request is
    dialogs,     \* the same for the dialogs shown
    deposits,    \* the same for the deposits: "asked" or "ended"
    last,        \* the selection and the dialog whose request has ended last
    element,     \* "content" and "modalBackground": shown or not, and the queue of fades
    html,        \* what #content and #modalData hold
    page,        \* currentAsset, lk.currentCurrency, ui.dialogIsShown, and blockOnRequest
    connected,   \* the hub takes calls
    crossed      \* the dialog was shown while another was still being hidden

vars == << selections, dialogs, deposits, last, element, html, page, connected, crossed >>

Elements == {"content", "modalBackground"}
Contents == Currencies \cup Dialogs \cup {"nothing", "spinner"}

\* A fade and the callback at its end: `n' is the request the callback makes.
Fade(to, then, n) == [to |-> to, then |-> then, n |-> n]

Init ==
    /\ selections = << >> /\ dialogs = << >> /\ deposits = << >>
    /\ last = [content |-> 0, modalBackground |-> 0]
    /\ element = [content         |-> [shown |-> TRUE,  fades |-> << >>],
                  modalBackground |-> [shown |-> FALSE, fades |-> << >>]]
    /\ html = [e \in Elements |-> "nothing"]
    /\ page = [currentAsset |-> "nothing", currentCurrency |-> "nothing",
               dialogIsShown |-> FALSE, blocked |-> FALSE]
    /\ connected = FALSE
    /\ crossed = FALSE

-----------------------------------------------------------------------------
(* jQuery's effects, on what a handler has changed so far.                 *)

State ==
    [selections |-> selections, dialogs |-> dialogs, element |-> element,
     html |-> html, page |-> page]

\* The primed variables, from what a handler has made of them.
Become(s) ==
    /\ selections' = s.selections /\ dialogs' = s.dialogs
    /\ element' = s.element /\ html' = s.html /\ page' = s.page

Show(s, e) == [s EXCEPT !.element[e].shown = TRUE]
Hide(s, e) == [s EXCEPT !.element[e].shown = FALSE]
Html(s, e, content) == [s EXCEPT !.html[e] = content]
Queue(s, e, fades) == [s EXCEPT !.element[e].fades = fades]

\* peformRequest: the loading picture, and the request.
PeformRequest(s, n) ==
    Show(Html([s EXCEPT !.selections[n].at = "asked"], "content", "spinner"), "content")

\* loadModalContent.
LoadModalContent(s, n) ==
    Html([s EXCEPT !.dialogs[n].at = "asked"], "modalBackground", "spinner")

\* The callback of hideDialogLaptop's fade; onClose is never set on this page.
DialogHidden(s) ==
    Html([s EXCEPT !.page.dialogIsShown = FALSE], "modalBackground", "nothing")

Callback(s, fade) ==
    CASE fade.then = "peformRequest"    -> PeformRequest(s, fade.n)
      [] fade.then = "loadModalContent" -> LoadModalContent(s, fade.n)
      [] fade.then = "dialogHidden"     -> DialogHidden(s)
      [] fade.then = "initFocus"        -> s

\* The end of the first fade: a fadeOut hides the element, then the callback is called.
End(s, e) ==
    LET fade == Head(s.element[e].fades)
        done == Callback(IF fade.to = "out" THEN Hide(s, e) ELSE s, fade)
    IN  Queue(done, e, Tail(done.element[e].fades))

\* A fade to what the element is already ends as soon as it begins, ...
EndsAtOnce(s, e) ==
    LET fades == s.element[e].fades
    IN  fades # << >> /\ (Head(fades).to = "in" <=> s.element[e].shown)

\* ... and the next one begins, until there is none or one takes its time.
EndThose(s, e) ==
    LET after[k \in 0..Len(s.element[e].fades)] ==
            IF k = 0 THEN s
            ELSE IF EndsAtOnce(after[k - 1], e) THEN End(after[k - 1], e) ELSE after[k - 1]
    IN  after[Len(s.element[e].fades)]

\* A fadeIn shows the element when it begins.
Begin(s, e) ==
    LET t == EndThose(s, e)
        fades == t.element[e].fades
    IN  IF fades # << >> /\ Head(fades).to = "in" THEN Show(t, e) ELSE t

Dequeue(s, e) == Begin(End(s, e), e)

\* fadeIn and fadeOut: queued behind those that run already.
Enqueue(s, e, fade) ==
    LET t == Queue(s, e, Append(s.element[e].fades, fade))
    IN  IF s.element[e].fades = << >> THEN Begin(t, e) ELSE t

FadeEnds(e) ==
    /\ element[e].fades # << >>
    /\ Become(Dequeue(State, e))
    /\ UNCHANGED << deposits, last, connected, crossed >>

-----------------------------------------------------------------------------
(* The panel.                                                              *)

\* selectAsset, and doRequest up to its fade.
SelectAsset(currency) ==
    /\ Len(selections) < MaxSelections
    /\ Len(element["content"].fades) < MaxFades
    /\ LET s == [State EXCEPT
                    !.selections = Append(@, [currency |-> currency, at |-> "waiting"]),
                    !.page.currentAsset = currency,
                    !.page.blocked = TRUE]
       IN  Become(Enqueue(s, "content", Fade("out", "peformRequest", Len(s.selections))))
    /\ UNCHANGED << deposits, last, connected, crossed >>

Answer(s, n) ==
    [Hide(s, "content") EXCEPT
        !.selections[n].at = IF connected THEN "shown" ELSE "thrown",
        !.html["content"] = s.selections[n].currency,
        !.page.currentCurrency = s.selections[n].currency,
        !.page.blocked = FALSE]

\* Faulty variant: the panel is hidden after its fade has begun.
AnsweredHidden(n) ==
    /\ selections[n].at = "asked"
    /\ LET s == Answer(State, n)
       IN  Become(IF connected
                  THEN Hide(Enqueue(s, "content", Fade("in", "initFocus", n)), "content")
                  ELSE s)
    /\ last' = [last EXCEPT !["content"] = n]
    /\ UNCHANGED << deposits, connected, crossed >>

\* Faulty variant: the form is released after the answer has been handled.
AnsweredBlocked(n) ==
    /\ selections[n].at = "asked"
    /\ LET s == Answer(State, n)
       IN  Become(IF connected THEN Enqueue(s, "content", Fade("in", "initFocus", n))
                  ELSE [s EXCEPT !.page.blocked = page.blocked])
    /\ last' = [last EXCEPT !["content"] = n]
    /\ UNCHANGED << deposits, connected, crossed >>

\* The answer to a selection.  Its script calls setCurrentCurrency, which throws while
\* the hub takes no calls; the panel is not faded in then.
Answered(n) ==
    /\ selections[n].at = "asked"
    /\ LET s == Answer(State, n)
       IN  Become(IF connected THEN Enqueue(s, "content", Fade("in", "initFocus", n)) ELSE s)
    /\ last' = [last EXCEPT !["content"] = n]
    /\ UNCHANGED << deposits, connected, crossed >>

\* Its failure, other than by a lost sign-in, which reloads the page: the loading
\* picture stays.
Failed(n) ==
    /\ selections[n].at = "asked"
    /\ Become([State EXCEPT !.selections[n].at = "failed", !.page.blocked = FALSE])
    /\ last' = [last EXCEPT !["content"] = n]
    /\ UNCHANGED << deposits, connected, crossed >>

\* The hub's connection is made or lost.
HubChanges ==
    /\ connected' = ~ connected
    /\ UNCHANGED << selections, dialogs, deposits, last, element, html, page, crossed >>

-----------------------------------------------------------------------------
(* Dialogs.                                                                *)

Hiding == \E i \in DOMAIN element["modalBackground"].fades :
              element["modalBackground"].fades[i].to = "out"

\* Faulty variant: the dialog is loaded at once, beside its fade.
ShowDialogAtOnce(dialog) ==
    /\ Len(dialogs) < MaxDialogs
    /\ Len(element["modalBackground"].fades) < MaxFades
    /\ LET s == Enqueue([State EXCEPT !.dialogs = Append(@, [dialog |-> dialog, at |-> "asked"])],
                        "modalBackground", Fade("in", "initFocus", 0))
       IN  Become([s EXCEPT !.page.dialogIsShown = TRUE, !.html["modalBackground"] = "spinner"])
    /\ crossed' = Hiding
    /\ UNCHANGED << deposits, last, connected >>

\* Faulty variant: dialogIsShown is left as it is.
ShowDialogUnnoted(dialog) ==
    /\ Len(dialogs) < MaxDialogs
    /\ Len(element["modalBackground"].fades) < MaxFades
    /\ Become(Enqueue([State EXCEPT !.dialogs = Append(@, [dialog |-> dialog, at |-> "waiting"])],
                      "modalBackground", Fade("in", "loadModalContent", Len(dialogs) + 1)))
    /\ crossed' = Hiding
    /\ UNCHANGED << deposits, last, connected >>

\* showDialog: the side bar is not covered, so a dialog may be open or closing.
ShowDialog(dialog) ==
    /\ Len(dialogs) < MaxDialogs
    /\ Len(element["modalBackground"].fades) < MaxFades
    /\ LET s == Enqueue([State EXCEPT !.dialogs = Append(@, [dialog |-> dialog, at |-> "waiting"])],
                        "modalBackground", Fade("in", "loadModalContent", Len(dialogs) + 1))
       IN  Become([s EXCEPT !.page.dialogIsShown = TRUE])
    /\ crossed' = Hiding
    /\ UNCHANGED << deposits, last, connected >>

\* hideDialog.
HideDialog(s) ==
    IF s.page.dialogIsShown
    THEN Enqueue(s, "modalBackground", Fade("out", "dialogHidden", 0))
    ELSE s

\* A click beside the dialog, on its cross or on Cancel.
Close ==
    /\ element["modalBackground"].shown
    /\ Len(element["modalBackground"].fades) < MaxFades
    /\ Become(HideDialog(State))
    /\ UNCHANGED << deposits, last, connected, crossed >>

\* The answer to loadModalContent, whenever it comes, and its failure.
DialogLoaded(n) ==
    /\ dialogs[n].at = "asked"
    /\ Become([State EXCEPT !.dialogs[n].at = "shown",
                            !.html["modalBackground"] = dialogs[n].dialog])
    /\ last' = [last EXCEPT !["modalBackground"] = n]
    /\ UNCHANGED << deposits, connected, crossed >>

DialogFailed(n) ==
    /\ dialogs[n].at = "asked"
    /\ Become([State EXCEPT !.dialogs[n].at = "failed"])
    /\ last' = [last EXCEPT !["modalBackground"] = n]
    /\ UNCHANGED << deposits, connected, crossed >>

\* The Deposit button, which stays enabled while a deposit is under way.
Deposit ==
    /\ element["modalBackground"].shown /\ html["modalBackground"] = "Settings"
    /\ Len(deposits) < MaxDeposits
    /\ deposits' = Append(deposits, "asked")
    /\ Become([State EXCEPT !.page.blocked = TRUE])
    /\ UNCHANGED << last, connected, crossed >>

\* Its answer closes whatever dialog is shown then; a wrong amount and a failure do not.
DepositEnds(n, hides) ==
    /\ deposits[n] = "asked"
    /\ Len(element["modalBackground"].fades) < MaxFades
    /\ deposits' = [deposits EXCEPT ![n] = "ended"]
    /\ LET s == [State EXCEPT !.page.blocked = FALSE]
       IN  Become(IF hides THEN HideDialog(s) ELSE s)
    /\ UNCHANGED << last, connected, crossed >>

-----------------------------------------------------------------------------

Next ==
    \/ \E e \in Elements : FadeEnds(e)
    \/ \E currency \in Currencies : SelectAsset(currency)
    \/ \E n \in DOMAIN selections : Answered(n) \/ Failed(n)
    \/ HubChanges
    \/ \E dialog \in Dialogs : ShowDialog(dialog)
    \/ Close
    \/ \E n \in DOMAIN dialogs : DialogLoaded(n) \/ DialogFailed(n)
    \/ Deposit
    \/ \E n \in DOMAIN deposits, hides \in BOOLEAN : DepositEnds(n, hides)

Spec == Init /\ [][Next]_vars

-----------------------------------------------------------------------------
(* Correctness.                                                            *)

Idle(e) == element[e].fades = << >>
Waiting == {"waiting", "asked"}

\* However clicks, fades and answers overlap, the panel of the currency selected last is
\* what is seen in the end, if its answer came last and the hub took its call; and the
\* orders made in it are sent with its currency.
LastSelectionSeen ==
    LET n == Len(selections)
    IN  n > 0 /\ Idle("content") /\ last["content"] = n /\ selections[n].at = "shown" =>
            /\ element["content"].shown
            /\ html["content"] = page.currentAsset
            /\ page.currentCurrency = page.currentAsset

\* Once no request is under way, no form is left blocked.
NothingLeftBlocked ==
    /\ \A n \in DOMAIN selections : selections[n].at \notin Waiting
    /\ \A n \in DOMAIN deposits : deposits[n] # "asked"
    => ~ page.blocked

\* A dialog that is seen can be closed, and one that is not is taken to be closed, unless
\* it was opened while another was closing.
DialogCloses ==
    Idle("modalBackground") /\ ~ crossed => (element["modalBackground"].shown <=> page.dialogIsShown)

\* A dialog that is seen is the one opened last, if its answer came last.
LastDialogSeen ==
    LET n == Len(dialogs)
    IN  n > 0 /\ Idle("modalBackground") /\ element["modalBackground"].shown
        /\ last["modalBackground"] = n /\ dialogs[n].at = "shown" =>
            html["modalBackground"] = dialogs[n].dialog

=============================================================================
