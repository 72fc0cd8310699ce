--------------------------- MODULE UnobtrusiveForm ---------------------------
(***************************************************************************)
(* A form on a page that uses jquery.validate.unobtrusive.js: the handlers *)
(* that library gives to the jQuery validator, the validator's run of      *)
(* rules, its table of remote requests, and the submit that waits for      *)
(* them.                                                                   *)
(*                                                                         *)
(* JavaScript runs one event at a time, so an action is one event with     *)
(* everything its handlers call, written as operators from one state of    *)
(* the page's script to the next.  Rules that need no server are a set of  *)
(* rejected values per field.  The server is asked by a request per field; *)
(* an answer may be late or lost, and depends on the data sent alone.      *)
(***************************************************************************)
EXTENDS Naturals, FiniteSets

CONSTANTS
  Field,       \* the fields with rules
  Remote,      \* those with a remote rule
  Data,        \* Remote -> the fields whose values it sends to the server
  Replace,     \* fields whose message container has data-valmsg-replace=true
  Value, Blank,
  Rejected,    \* Field -> the values a rule rejects without the server
  Accepts,     \* Remote -> the data the server says yes to
  Default,     \* the filling the form is served with
  None,        \* no data, no request, nothing sent
  MaxEdits,    \* bound: changes of a field and resets
  MaxLost      \* bound: requests that get no usable answer

ASSUME FormAssumption ==
  /\ IsFiniteSet(Field) /\ Remote \subseteq Field /\ Replace \subseteq Field
  /\ Blank \in Value /\ Default \in [Field -> Value]
  /\ \A f \in Field : Rejected[f] \subseteq Value
  /\ \A f \in Remote : f \in Data[f] /\ Data[f] \subseteq Field
  /\ \A f \in Remote : None \notin [Data[f] -> Value]
  /\ None \notin [Field -> Value]
  /\ {MaxEdits, MaxLost} \subseteq Nat

VARIABLES
  value,    \* what is filled in
  page,     \* the state of the page's scripts, see Page
  edits, lost

vars == <<value, page, edits, lost>>

Filling == [Field -> Value]
Datum(f) == [Data[f] -> Value]

\* A request: its data, and whether the previousValue record it will write
\* its answer to is still the one of the element.
Request(f) == [data: Datum(f), live: BOOLEAN]

Page ==
  [submitted: SUBSET Field,      \* names, as keys of the object
   invalid: SUBSET Field,        \* names that are keys, whatever the value
   errors: SUBSET Field,         \* errorList and errorMap
   success: SUBSET Field,        \* successList
   pending: SUBSET Field, pendingRequest: Nat,
   formSubmitted: BOOLEAN,
   old: [Remote -> {None} \cup UNION {Datum(f) : f \in Remote}],
   valid: [Remote -> BOOLEAN],   \* previousValue: data asked, last answer
   request: [Remote -> {None} \cup UNION {Request(f) : f \in Remote}],
   container: [Field -> {"valid", "error"}],
   message: SUBSET Field,        \* containers that hold a message
   summary: {"valid", "error"}, listed: SUBSET Field,
   sent: {None} \cup Filling]    \* what the browser has sent last

--------------------------------------------------------------------------
\* The handlers that unobtrusive gives to the validator.

\* onError: the container of a field in error.
OnError(p, fs) ==
  [p EXCEPT !.container = [f \in Field |-> IF f \in fs THEN "error" ELSE @[f]],
            !.message = @ \cup (fs \cap Replace)]

\* onSuccess, called after onError with an empty label has found the container.
OnSuccess(p, fs) ==
  [p EXCEPT !.container = [f \in Field |-> IF f \in fs THEN "valid" ELSE @[f]],
            !.message = @ \ fs]

\* onErrors: the summary, left as it is when there is nothing to list.
OnErrors(p) ==
  IF p.errors = {} THEN p
  ELSE [p EXCEPT !.summary = "error", !.listed = p.errors]

\* onReset with the validator's resetForm.  The messages stay in their
\* containers; requests on their way are not called back.
OnReset(p) ==
  [p EXCEPT
     !.invalid = {}, !.submitted = {}, !.errors = {}, !.success = {},
     !.old = [f \in Remote |-> None], !.valid = [f \in Remote |-> TRUE],
     !.request = [f \in Remote |-> IF p.request[f] = None THEN None
                                   ELSE [p.request[f] EXCEPT !.live = FALSE]],
     !.container = [f \in Field |-> "valid"], !.summary = "valid"]

--------------------------------------------------------------------------
\* The validator.

\* The data of a remote rule: read from the fields when the rule is run.
DataOf(f) == [g \in Data[f] |-> value[g]]

\* Mutant: the errors of fields that are right again stay.
ShowErrorsMutant(p) == OnError(p, p.errors)

ShowErrors(p) == OnSuccess(OnError(p, p.errors), p.success \ p.errors)

\* The remote rule is reached, after the local ones, and has something to ask.
AsksServer(f) == f \in Remote /\ value[f] \notin Rejected[f] \cup {Blank}

\* Mutant: a field is counted again for every request.
CheckMutant(p, fs) ==
  LET asked == {f \in fs : AsksServer(f) /\ p.old[f] # DataOf(f)}
      wrong == {f \in fs : \/ value[f] \in Rejected[f]
                           \/ /\ AsksServer(f) /\ p.old[f] = DataOf(f)
                              /\ ~p.valid[f]}
  IN [p EXCEPT
        !.errors = wrong, !.success = fs \ (asked \cup wrong),
        !.submitted = @ \cup wrong,
        !.old = [f \in Remote |-> IF f \in asked THEN DataOf(f) ELSE @[f]],
        !.request = [f \in Remote |->
                       IF f \in asked THEN [data |-> DataOf(f), live |-> TRUE]
                       ELSE @[f]],
        !.pendingRequest = @ + Cardinality(asked),
        !.pending = @ \cup asked]

\* check, for every field of fs, after the lists are reset: a local rule, the
\* last answer if the data are the same, or a new request.  A new request
\* replaces the one on its way for the field, and counts once per field.
Check(p, fs) ==
  LET asked == {f \in fs : AsksServer(f) /\ p.old[f] # DataOf(f)}
      wrong == {f \in fs : \/ value[f] \in Rejected[f]
                           \/ /\ AsksServer(f) /\ p.old[f] = DataOf(f)
                              /\ ~p.valid[f]}
  IN [p EXCEPT
        !.errors = wrong, !.success = fs \ (asked \cup wrong),
        !.submitted = @ \cup wrong,
        !.old = [f \in Remote |-> IF f \in asked THEN DataOf(f) ELSE @[f]],
        !.request = [f \in Remote |->
                       IF f \in asked THEN [data |-> DataOf(f), live |-> TRUE]
                       ELSE @[f]],
        !.pendingRequest = @ + Cardinality(asked \ p.pending),
        !.pending = @ \cup asked]

\* form: every field.  A field that waits for its answer is not an error.
Form(p) ==
  LET q == Check(p, Field)
  IN ShowErrors(OnErrors([q EXCEPT !.invalid = q.errors]))

\* element: one field.
Element(p, f) ==
  LET q == Check(p, {f}) IN ShowErrors([q EXCEPT !.invalid = @ \cup {f}])

\* Mutant: awaited answers do not hold the form back.
HandleSubmitMutant(p) ==
  LET q == Form(p) IN IF q.errors # {} THEN q ELSE [q EXCEPT !.sent = value]

\* The submit handler: the browser sends the form when nothing is wrong and
\* nothing is awaited.
HandleSubmit(p) ==
  LET q == Form(p)
  IN IF q.errors # {} THEN q
     ELSE IF q.pendingRequest > 0 THEN [q EXCEPT !.formSubmitted = TRUE]
     ELSE [q EXCEPT !.sent = value]

\* Mutant: the field goes on waiting, and the count goes below zero.
StopRequestUncounted(p, f, yes) == [p EXCEPT !.pendingRequest = @ - 1]

\* Mutant: a submit that waited is not done again.
StopRequestForgets(p, f, yes) ==
  [p EXCEPT !.pending = @ \ {f},
            !.pendingRequest = IF @ = 0 THEN 0 ELSE @ - 1]

\* stopRequest: a submit that waited is done again when the last answer is a
\* yes and given up when it is a no.
StopRequest(p, f, yes) ==
  LET q == [p EXCEPT !.pending = @ \ {f},
                     !.pendingRequest = IF @ = 0 THEN 0 ELSE @ - 1]
      again == Form(q)
      last == q.pendingRequest = 0 /\ q.formSubmitted
  IN CASE last /\ yes /\ again.errors = {} ->
            [HandleSubmit(again) EXCEPT !.formSubmitted = FALSE]
       [] last /\ yes /\ again.errors # {} -> again
       [] last /\ ~yes -> [OnErrors(q) EXCEPT !.formSubmitted = FALSE]
       [] ~last -> q

\* Mutant: a yes leaves the verdict as it was.
TakeAnswerKeeps(p, f, yes) ==
  LET q == [p EXCEPT !.errors = IF yes THEN {} ELSE @ \cup {f},
                     !.success = IF yes THEN {f} ELSE @ \ {f},
                     !.invalid = @ \cup {f}]
      r == [ShowErrors(q) EXCEPT
              !.valid[f] = IF p.request[f].live THEN @ /\ yes ELSE @,
              !.request[f] = None]
  IN StopRequest(r, f, yes)

\* Mutant: the field of an answer is not noted.
TakeAnswerForgets(p, f, yes) ==
  LET q == [p EXCEPT !.errors = IF yes THEN {} ELSE @ \cup {f},
                     !.success = IF yes THEN {f} ELSE @ \ {f}]
      r == [ShowErrors(q) EXCEPT
              !.valid[f] = IF p.request[f].live THEN yes ELSE @,
              !.request[f] = None]
  IN StopRequest(r, f, yes)

\* The success callback of a remote request.
TakeAnswer(p, f, yes) ==
  LET q == [p EXCEPT !.errors = IF yes THEN {} ELSE @ \cup {f},
                     !.success = IF yes THEN {f} ELSE @ \ {f},
                     !.invalid = @ \cup {f}]
      r == [ShowErrors(q) EXCEPT
              !.valid[f] = IF p.request[f].live THEN yes ELSE @,
              !.request[f] = None]
  IN StopRequest(r, f, yes)

--------------------------------------------------------------------------
\* The events.

Init ==
  /\ value = Default
  /\ page = [submitted |-> {}, invalid |-> {}, errors |-> {}, success |-> {},
             pending |-> {}, pendingRequest |-> 0, formSubmitted |-> FALSE,
             old |-> [f \in Remote |-> None], valid |-> [f \in Remote |-> TRUE],
             request |-> [f \in Remote |-> None],
             container |-> [f \in Field |-> "valid"], message |-> {},
             summary |-> "valid", listed |-> {}, sent |-> None]
  /\ edits = 0 /\ lost = 0

\* A field gets a new value without a key: paste, autofill, a script.
Fill(f) ==
  /\ edits < MaxEdits
  /\ \E v \in Value \ {value[f]} : value' = [value EXCEPT ![f] = v]
  /\ edits' = edits + 1
  /\ UNCHANGED <<page, lost>>

\* keyup: a field that has been submitted or checked is checked again.
KeyUp(f) ==
  /\ f \in page.submitted \cup page.invalid
  /\ page' = Element(page, f)
  /\ UNCHANGED <<value, edits, lost>>

\* focusout: checked when it has a value or was in error at a submit.
FocusOut(f) ==
  /\ f \in page.submitted \/ value[f] # Blank
  /\ page' = Element(page, f)
  /\ UNCHANGED <<value, edits, lost>>

\* The submit event.  Nothing stops a second one after the form was sent, as a
\* double click makes, nor what happens to the page until it is replaced.
Submit ==
  /\ page' = HandleSubmit(page)
  /\ UNCHANGED <<value, edits, lost>>

\* validate, called by a script such as unobtrusive Ajax: no submit.
Validate ==
  /\ page' = Form(page)
  /\ UNCHANGED <<value, edits, lost>>

\* The reset event: the handlers, then the browser's defaults.
Reset ==
  /\ edits < MaxEdits
  /\ page' = OnReset(page)
  /\ value' = Default /\ edits' = edits + 1
  /\ UNCHANGED lost

\* The server's answer to the request of a field.
OnItsWay(f) == page.request[f] # None
Answer(f) ==
  /\ OnItsWay(f)
  /\ page' = TakeAnswer(page, f, page.request[f].data \in Accepts[f])
  /\ UNCHANGED <<value, edits, lost>>

\* The request fails, or a form with a field of the same name aborts it: the
\* rule has no error callback, so nothing stops waiting.
Lose(f) ==
  /\ OnItsWay(f) /\ lost < MaxLost
  /\ page' = [page EXCEPT !.request[f] = None]
  /\ lost' = lost + 1
  /\ UNCHANGED <<value, edits>>

Next ==
  \/ Submit \/ Validate \/ Reset
  \/ \E f \in Field : Fill(f) \/ KeyUp(f) \/ FocusOut(f)
  \/ \E f \in Remote : Answer(f) \/ Lose(f)

\* Requests that are not lost are answered; nothing makes the user act.  This
\* is weak fairness of Answer, with OnItsWay for when it is enabled: TLC would
\* compute the whole answer again to find that out.
Fairness ==
  \A f \in Remote : []<>~OnItsWay(f) \/ []<><<Answer(f)>>_vars

Spec == Init /\ [][Next]_vars /\ Fairness

--------------------------------------------------------------------------
\* Properties.

\* Every variable keeps its type.
TypeOK ==
  /\ value \in Filling
  /\ page \in Page
  /\ edits \in 0..MaxEdits /\ lost \in 0..MaxLost

\* A field breaks a rule when the browser rejects its value or the server
\* says no to its data, whether or not it has been asked.
Breaks(f) ==
  \/ value[f] \in Rejected[f]
  \/ AsksServer(f) /\ DataOf(f) \notin Accepts[f]

\* The fillings with which no field breaks a rule.
Acceptable ==
  {v \in Filling :
     \A f \in Field :
       /\ v[f] \notin Rejected[f]
       /\ f \in Remote /\ v[f] # Blank => [g \in Data[f] |-> v[g]] \in Accepts[f]}

\* However often the form is sent, it is sent only with values that no rule
\* rejects and whose data the server has said yes to: a verdict on other data, a
\* request on its way or one that was lost never lets it pass.
SubmittedConfirmed == page.sent # None => page.sent \in Acceptable

\* The count that holds a submit back is the number of fields that wait, and
\* every request on its way belongs to one of them: the repair of a negative
\* count in stopRequest is never needed.
RequestsCounted ==
  /\ page.pendingRequest = Cardinality(page.pending)
  /\ \A f \in Remote : page.request[f] # None => f \in page.pending

\* The verdict kept for a field that does not wait is the server's verdict on
\* exactly the data it is kept for, whatever was reset, replaced or lost.
VerdictExact ==
  \A f \in Remote \ page.pending :
    page.old[f] # None => (page.valid[f] <=> page.old[f] \in Accepts[f])

\* A container in error holds the message if it is to hold one, and its field
\* is one that a key checks again, or that waits for an answer.
ErrorsStayLive ==
  \A f \in Field : page.container[f] = "error" =>
    /\ f \in Replace => f \in page.message
    /\ f \in page.submitted \cup page.invalid \cup page.pending

\* After the whole form is checked, the containers of the fields that do not
\* wait show an error exactly where a rule is broken, old errors included.
ChecksShow ==
  [][Submit \/ Validate =>
       \A f \in Field \ page'.pending :
         page'.container[f] = "error" <=> Breaks(f)]_vars

\* A submit that waits for answers gets its outcome with the last of them: it
\* is sent, given up, or an error is shown, unless an answer was lost.  (The
\* wish to submit may outlive a shown error, so it alone promises nothing.)
SubmitSettles ==
  page.formSubmitted /\ page.pending # {} ~>
    \/ ~page.formSubmitted \/ lost > 0
    \/ \E f \in Field : page.container[f] = "error"
=============================================================================
