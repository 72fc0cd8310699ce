------------------------ MODULE UnobtrusiveFormProofs ------------------------
(***************************************************************************)
(* Proofs about UnobtrusiveForm for any fields, rules, data and server:    *)
(* types, the count of pending requests, the verdicts kept, and that the   *)
(* form is sent only with values every rule and the server accept.         *)
(*                                                                         *)
(* An event is a composition of the validator's operators, so the proofs   *)
(* go operator by operator: each keeps a page Coherent.                    *)
(***************************************************************************)
EXTENDS UnobtrusiveForm, FiniteSetTheorems, TLAPS

\* The count is that of the fields that wait; a request belongs to a field
\* that waits and to the data kept for it, or to data a reset has removed;
\* a verdict of a field that does not wait is the server's.
Coherent(p) ==
  /\ p \in Page
  /\ p.pendingRequest = Cardinality(p.pending)
  /\ \A f \in Remote : p.request[f] # None =>
       /\ f \in p.pending
       /\ p.old[f] = IF p.request[f].live THEN p.request[f].data ELSE None
  /\ \A f \in Remote \ p.pending :
       p.old[f] # None => (p.valid[f] <=> p.old[f] \in Accepts[f])

\* q is p with other things shown.
Repainted(p, q) ==
  /\ q \in Page
  /\ q.submitted = p.submitted /\ q.invalid = p.invalid
  /\ q.errors = p.errors /\ q.success = p.success
  /\ q.pending = p.pending /\ q.pendingRequest = p.pendingRequest
  /\ q.formSubmitted = p.formSubmitted /\ q.sent = p.sent
  /\ q.old = p.old /\ q.valid = p.valid /\ q.request = p.request

LEMMA RepaintedCoherent ==
  ASSUME NEW p, NEW q, Coherent(p), Repainted(p, q)
  PROVE  Coherent(q)
  BY DEF Coherent, Repainted

\* Showing errors and successes changes what is shown and nothing else.
LEMMA ShowErrorsRepaints ==
  ASSUME NEW p \in Page
  PROVE  Repainted(p, ShowErrors(p))
<1> DEFINE q == OnError(p, p.errors)
<1>1. p.errors \subseteq Field /\ p.success \subseteq Field  BY DEF Page
<1>2. Repainted(p, q)
  BY <1>1, FormAssumption DEF OnError, Repainted, Page
<1>3. Repainted(q, OnSuccess(q, p.success \ p.errors))
  BY <1>2 DEF OnSuccess, Repainted, Page
<1> QED BY <1>2, <1>3 DEF ShowErrors, Repainted

LEMMA OnErrorsRepaints ==
  ASSUME NEW p \in Page
  PROVE  Repainted(p, OnErrors(p))
  BY DEF OnErrors, Repainted, Page

\* The data of a rule have the type of its data.
LEMMA DataTyped ==
  ASSUME value \in Filling, NEW f \in Remote
  PROVE  DataOf(f) \in Datum(f) /\ DataOf(f) # None
  BY FormAssumption DEF DataOf, Datum, Filling

\* check keeps the page coherent, and says of every field it finds nothing
\* wrong with that the server accepts its data or is being asked.
LEMMA CheckCoherent ==
  ASSUME NEW p, Coherent(p), NEW fs \in SUBSET Field, value \in Filling
  PROVE  /\ Coherent(Check(p, fs))
         /\ Check(p, fs).sent = p.sent
         /\ Check(p, fs).formSubmitted = p.formSubmitted
         /\ \A f \in fs \ Check(p, fs).errors :
              /\ value[f] \notin Rejected[f]
              /\ f \in Remote /\ value[f] # Blank /\ f \notin Check(p, fs).pending
                   => DataOf(f) \in Accepts[f]
<1> DEFINE asked == {f \in fs : AsksServer(f) /\ p.old[f] # DataOf(f)}
           wrong == {f \in fs : \/ value[f] \in Rejected[f]
                                \/ /\ AsksServer(f) /\ p.old[f] = DataOf(f)
                                   /\ ~p.valid[f]}
           q == Check(p, fs)
<1>1. asked \subseteq Remote /\ asked \subseteq Field /\ wrong \subseteq Field
  BY FormAssumption DEF AsksServer
<1>2. p \in Page /\ p.pending \subseteq Field /\ p.pendingRequest \in Nat
  BY DEF Coherent, Page
<1>3. /\ q.pending = p.pending \cup asked
      /\ q.pendingRequest = p.pendingRequest + Cardinality(asked \ p.pending)
      /\ q.old = [f \in Remote |-> IF f \in asked THEN DataOf(f) ELSE p.old[f]]
      /\ q.request = [f \in Remote |->
                        IF f \in asked THEN [data |-> DataOf(f), live |-> TRUE]
                        ELSE p.request[f]]
      /\ q.valid = p.valid /\ q.errors = wrong
      /\ q.sent = p.sent /\ q.formSubmitted = p.formSubmitted
  BY <1>2 DEF Check, Page
<1>4. /\ q.pendingRequest = Cardinality(q.pending)
      /\ q.pendingRequest \in Nat
  <2> DEFINE S == p.pending
             T == asked \ p.pending
  <2>1. IsFiniteSet(S) /\ IsFiniteSet(T)
    BY <1>1, <1>2, FormAssumption, FS_Subset
  <2>2. S \cap T = {} /\ q.pending = S \cup T
    BY <1>3
  <2>3. p.pendingRequest = Cardinality(S)  BY DEF Coherent
  <2>4. q.pendingRequest = Cardinality(S) + Cardinality(T)
    BY <1>3, <2>3
  <2> HIDE DEF S, T
  <2>5. Cardinality(S \cup T) = Cardinality(S) + Cardinality(T)
    <3>1. Cardinality(S \cup T)
            = Cardinality(S) + Cardinality(T) - Cardinality(S \cap T)
      BY <2>1, FS_Union
    <3>2. Cardinality(S \cap T) = 0  BY <2>2, FS_EmptySet
    <3>3. Cardinality(S) \in Nat /\ Cardinality(T) \in Nat
      BY <2>1, FS_CardinalityType
    <3> QED BY <3>1, <3>2, <3>3
  <2> QED BY <2>1, <2>2, <2>4, <2>5, FS_CardinalityType
<1>5. q \in Page
  <2>1. q.old \in [Remote -> {None} \cup UNION {Datum(f) : f \in Remote}]
    BY <1>1, <1>2, <1>3, DataTyped DEF Page
  <2>2. q.request \in [Remote -> {None} \cup UNION {Request(f) : f \in Remote}]
    <3>1. \A f \in Remote : [data |-> DataOf(f), live |-> TRUE] \in Request(f)
      BY DataTyped DEF Request
    <3>2. p.request \in [Remote -> {None} \cup UNION {Request(f) : f \in Remote}]
      BY <1>2 DEF Page
    <3> QED BY <1>3, <3>1, <3>2
  <2>3. q.pending \in SUBSET Field  BY <1>1, <1>2, <1>3
  <2> HIDE DEF asked, wrong
  <2> QED BY <1>1, <1>2, <1>4, <2>1, <2>2, <2>3 DEF Check, Page, asked, wrong
<1>6. \A f \in Remote : q.request[f] # None =>
        /\ f \in q.pending
        /\ q.old[f] = IF q.request[f].live THEN q.request[f].data ELSE None
  BY <1>3 DEF Coherent
<1>7. \A f \in Remote \ q.pending :
        q.old[f] # None => (q.valid[f] <=> q.old[f] \in Accepts[f])
  BY <1>3 DEF Coherent
<1>8. ASSUME NEW f \in fs \ q.errors
      PROVE  /\ value[f] \notin Rejected[f]
             /\ f \in Remote /\ value[f] # Blank /\ f \notin q.pending
                  => DataOf(f) \in Accepts[f]
  BY <1>3, <1>7, <1>8, DataTyped DEF AsksServer
<1> QED BY <1>3, <1>4, <1>5, <1>6, <1>7, <1>8 DEF Coherent

\* form: the same, for every field, and when it finds nothing wrong and
\* nothing is awaited, the filling is acceptable.
LEMMA FormCoherent ==
  ASSUME NEW p, Coherent(p), value \in Filling
  PROVE  /\ Coherent(Form(p))
         /\ Form(p).sent = p.sent
         /\ Form(p).formSubmitted = p.formSubmitted
         /\ Form(p).errors = {} /\ Form(p).pendingRequest = 0
              => value \in Acceptable
<1> DEFINE c == Check(p, Field)
           i == [c EXCEPT !.invalid = c.errors]
           o == OnErrors(i)
<1>1. Coherent(c) /\ c.sent = p.sent /\ c.formSubmitted = p.formSubmitted
  BY CheckCoherent
<1>2. \A f \in Field \ c.errors :
        /\ value[f] \notin Rejected[f]
        /\ f \in Remote /\ value[f] # Blank /\ f \notin c.pending
             => DataOf(f) \in Accepts[f]
  BY CheckCoherent
<1> HIDE DEF c
<1>3. Coherent(i) /\ i.sent = c.sent /\ i.formSubmitted = c.formSubmitted
      /\ i.errors = c.errors /\ i.pending = c.pending
      /\ i.pendingRequest = c.pendingRequest
  BY <1>1 DEF Coherent, Page
<1> HIDE DEF i
<1>4. Repainted(i, o) /\ o \in Page  BY <1>3, OnErrorsRepaints DEF Coherent, Repainted
<1> HIDE DEF o
<1>5. Repainted(o, ShowErrors(o))  BY <1>4, ShowErrorsRepaints
<1>6. Repainted(i, ShowErrors(o))  BY <1>4, <1>5 DEF Repainted
<1>7. Form(p) = ShowErrors(o)  BY DEF Form, c, i, o
<1>8. Coherent(Form(p))  BY <1>3, <1>6, <1>7, RepaintedCoherent
<1>9. /\ Form(p).sent = p.sent /\ Form(p).formSubmitted = p.formSubmitted
      /\ Form(p).errors = c.errors /\ Form(p).pending = c.pending
      /\ Form(p).pendingRequest = c.pendingRequest
  BY <1>1, <1>3, <1>6, <1>7 DEF Repainted
<1>10. ASSUME Form(p).errors = {}, Form(p).pendingRequest = 0
       PROVE  value \in Acceptable
  <2>1. c.pending = {}
    <3>1. c.pending \subseteq Field /\ c.pendingRequest = Cardinality(c.pending)
      BY <1>1 DEF Coherent, Page
    <3>2. IsFiniteSet(c.pending)  BY <3>1, FormAssumption, FS_Subset
    <3> QED BY <3>1, <3>2, <1>9, <1>10, FS_EmptySet
  <2>2. ASSUME NEW f \in Field
        PROVE  /\ value[f] \notin Rejected[f]
               /\ f \in Remote /\ value[f] # Blank
                    => [g \in Data[f] |-> value[g]] \in Accepts[f]
    BY <1>2, <1>9, <1>10, <2>1 DEF DataOf
  <2> QED BY <2>2 DEF Acceptable
<1> QED BY <1>8, <1>9, <1>10

LEMMA ElementCoherent ==
  ASSUME NEW p, Coherent(p), NEW f \in Field, value \in Filling
  PROVE  /\ Coherent(Element(p, f))
         /\ Element(p, f).sent = p.sent
         /\ Element(p, f).formSubmitted = p.formSubmitted
<1> DEFINE c == Check(p, {f})
           i == [c EXCEPT !.invalid = @ \cup {f}]
<1>1. Coherent(c) /\ c.sent = p.sent /\ c.formSubmitted = p.formSubmitted
  BY CheckCoherent
<1> HIDE DEF c
<1>2. Coherent(i) /\ i.sent = c.sent /\ i.formSubmitted = c.formSubmitted
  BY <1>1 DEF Coherent, Page
<1> HIDE DEF i
<1>3. Repainted(i, ShowErrors(i))
  BY <1>2, ShowErrorsRepaints DEF Coherent
<1>4. Element(p, f) = ShowErrors(i)  BY DEF Element, c, i
<1> QED BY <1>1, <1>2, <1>3, <1>4, RepaintedCoherent DEF Repainted

\* What a handler may do to the sending of the form: send an acceptable one.
SendsAcceptable(p, q) == q.sent = p.sent \/ q.sent \in Acceptable

LEMMA HandleSubmitCoherent ==
  ASSUME NEW p, Coherent(p), value \in Filling
  PROVE  /\ Coherent(HandleSubmit(p))
         /\ SendsAcceptable(p, HandleSubmit(p))
<1> DEFINE q == Form(p)
<1>1. Coherent(q) /\ q.sent = p.sent
      /\ (q.errors = {} /\ q.pendingRequest = 0 => value \in Acceptable)
  BY FormCoherent
<1> HIDE DEF q
<1>2. q.pendingRequest \in Nat /\ q \in Page  BY <1>1 DEF Coherent, Page
<1>3. CASE q.errors # {}
  BY <1>1, <1>3 DEF HandleSubmit, q, SendsAcceptable
<1>4. CASE q.errors = {} /\ q.pendingRequest > 0
  <2> DEFINE r == [q EXCEPT !.formSubmitted = TRUE]
  <2>1. Coherent(r) /\ r.sent = q.sent  BY <1>1 DEF Coherent, Page
  <2>2. HandleSubmit(p) = r  BY <1>4 DEF HandleSubmit, q
  <2> QED BY <1>1, <2>1, <2>2 DEF SendsAcceptable
<1>5. CASE q.errors = {} /\ ~(q.pendingRequest > 0)
  <2> DEFINE r == [q EXCEPT !.sent = value]
  <2>1. Coherent(r) /\ r.sent = value  BY <1>1 DEF Coherent, Page
  <2>2. HandleSubmit(p) = r  BY <1>5 DEF HandleSubmit, q
  <2>3. value \in Acceptable  BY <1>1, <1>2, <1>5
  <2> QED BY <2>1, <2>2, <2>3 DEF SendsAcceptable
<1> QED BY <1>3, <1>4, <1>5

\* stopRequest is called when the answer of f has been written down, and first
\* ends the wait for it.
Answered(p, f) ==
  /\ f \in p.pending /\ p.request[f] = None
  /\ p.old[f] # None => (p.valid[f] <=> p.old[f] \in Accepts[f])
EndWait(p, f) ==
  [p EXCEPT !.pending = @ \ {f},
            !.pendingRequest = IF @ = 0 THEN 0 ELSE @ - 1]

LEMMA EndWaitCoherent ==
  ASSUME NEW p, Coherent(p), NEW f \in Remote, Answered(p, f)
  PROVE  Coherent(EndWait(p, f)) /\ EndWait(p, f).sent = p.sent
<1> DEFINE q == EndWait(p, f)
<1> USE DEF EndWait, Answered
<1>1. Coherent(q) /\ q.sent = p.sent
  <2>1. p \in Page /\ p.pending \subseteq Field /\ p.pendingRequest \in Nat
        /\ p.pendingRequest = Cardinality(p.pending)
    BY DEF Coherent, Page
  <2>2. IsFiniteSet(p.pending)  BY <2>1, FormAssumption, FS_Subset
  <2>3. Cardinality(p.pending \ {f}) = p.pendingRequest - 1
    <3> DEFINE S == p.pending
    <3>1. IsFiniteSet(S) /\ f \in S  BY <2>2
    <3> HIDE DEF S
    <3>2. Cardinality(S \ {f}) = Cardinality(S) - 1  BY <3>1, FS_RemoveElement
    <3> QED BY <2>1, <3>2 DEF S
  <2>4. Cardinality(p.pending \ {f}) \in Nat
    <3>1. IsFiniteSet(p.pending \ {f})  BY <2>2, FS_RemoveElement
    <3> QED BY <3>1, FS_CardinalityType
  <2>5. q.pendingRequest = p.pendingRequest - 1 /\ q.pendingRequest \in Nat
    BY <2>1, <2>3, <2>4 DEF Page
  <2>6. q.pending = p.pending \ {f}  BY <2>1 DEF Page
  <2>7. q.old = p.old /\ q.valid = p.valid /\ q.request = p.request
        /\ q.sent = p.sent
    BY <2>1 DEF Page
  <2>8. q \in Page  BY <2>1, <2>5, <2>6 DEF Page
  <2> HIDE DEF q
  <2>9. q.pendingRequest = Cardinality(q.pending)  BY <2>3, <2>5, <2>6
  <2> QED BY <2>6, <2>7, <2>8, <2>9 DEF Coherent
<1> QED BY <1>1

LEMMA StopRequestCoherent ==
  ASSUME NEW p, Coherent(p), value \in Filling, NEW f \in Remote,
         Answered(p, f), NEW yes \in BOOLEAN
  PROVE  /\ Coherent(StopRequest(p, f, yes))
         /\ SendsAcceptable(p, StopRequest(p, f, yes))
<1> DEFINE q == EndWait(p, f)
           again == Form(q)
           last == q.pendingRequest = 0 /\ q.formSubmitted
<1>1. Coherent(q) /\ q.sent = p.sent
  BY EndWaitCoherent
<1> HIDE DEF q
<1>2. Coherent(again) /\ again.sent = q.sent
  BY <1>1, FormCoherent
<1> HIDE DEF again
<1>3. CASE last /\ yes /\ again.errors = {}
  <2> DEFINE h == HandleSubmit(again)
             r == [h EXCEPT !.formSubmitted = FALSE]
  <2>1. Coherent(h) /\ SendsAcceptable(again, h)
    BY <1>2, HandleSubmitCoherent
  <2>2. StopRequest(p, f, yes) = r
    BY <1>3 DEF StopRequest, q, again, EndWait
  <2> HIDE DEF h
  <2>3. Coherent(r) /\ r.sent = h.sent  BY <2>1 DEF Coherent, Page
  <2> QED BY <1>1, <1>2, <2>1, <2>2, <2>3 DEF SendsAcceptable
<1>4. CASE last /\ yes /\ again.errors # {}
  <2>1. StopRequest(p, f, yes) = again
    BY <1>4 DEF StopRequest, q, again, EndWait
  <2> QED BY <1>1, <1>2, <2>1 DEF SendsAcceptable
<1>5. CASE last /\ ~yes
  <2> DEFINE o == OnErrors(q)
             r == [o EXCEPT !.formSubmitted = FALSE]
  <2>1. Repainted(q, o)  BY <1>1, OnErrorsRepaints DEF Coherent
  <2>2. StopRequest(p, f, yes) = r
    BY <1>5 DEF StopRequest, q, again, EndWait
  <2>3. Coherent(o)  BY <1>1, <2>1, RepaintedCoherent
  <2> HIDE DEF o
  <2>4. Coherent(r) /\ r.sent = o.sent  BY <2>3 DEF Coherent, Page
  <2> QED BY <1>1, <2>1, <2>2, <2>4 DEF SendsAcceptable, Repainted
<1>6. CASE ~last
  <2>1. StopRequest(p, f, yes) = q
    BY <1>6 DEF StopRequest, q, again, EndWait
  <2> QED BY <1>1, <2>1 DEF SendsAcceptable
<1> QED BY <1>3, <1>4, <1>5, <1>6

\* The success callback lists the answer, shows it, and writes it down.
Listed(p, f, yes) ==
  [p EXCEPT !.errors = IF yes THEN {} ELSE @ \cup {f},
            !.success = IF yes THEN {f} ELSE @ \ {f},
            !.invalid = @ \cup {f}]
Written(p, f, yes) ==
  [ShowErrors(Listed(p, f, yes)) EXCEPT
     !.valid[f] = IF p.request[f].live THEN yes ELSE @,
     !.request[f] = None]

LEMMA WrittenCoherent ==
  ASSUME NEW p, Coherent(p), NEW f \in Remote, p.request[f] # None,
         NEW yes \in BOOLEAN, yes <=> p.request[f].data \in Accepts[f]
  PROVE  /\ Listed(p, f, yes) \in Page
         /\ Coherent(Written(p, f, yes)) /\ Answered(Written(p, f, yes), f)
         /\ Written(p, f, yes).sent = p.sent
<1> DEFINE q == Listed(p, f, yes)
           s == ShowErrors(q)
           r == [s EXCEPT !.valid[f] = IF p.request[f].live THEN yes ELSE @,
                          !.request[f] = None]
<1>1. Coherent(q) /\ q.sent = p.sent /\ q.pending = p.pending /\ q.old = p.old
      /\ q.request = p.request
  <2>1. p \in Page /\ f \in Field  BY FormAssumption DEF Coherent
  <2>2. /\ q.old = p.old /\ q.valid = p.valid /\ q.request = p.request
        /\ q.pending = p.pending /\ q.pendingRequest = p.pendingRequest
        /\ q.sent = p.sent
    BY <2>1 DEF Page, Listed
  <2>3. q \in Page
    <3>1. (IF yes THEN {} ELSE p.errors \cup {f}) \in SUBSET Field
      BY <2>1 DEF Page
    <3>2. (IF yes THEN {f} ELSE p.success \ {f}) \in SUBSET Field
      BY <2>1 DEF Page
    <3>3. p.invalid \cup {f} \in SUBSET Field  BY <2>1 DEF Page
    <3> QED BY <2>1, <3>1, <3>2, <3>3 DEF Page, Listed
  <2> QED BY <2>2, <2>3 DEF Coherent
<1> HIDE DEF q
<1>2. Repainted(q, s)  BY <1>1, ShowErrorsRepaints DEF Coherent
<1>3. Coherent(s)  BY <1>1, <1>2, RepaintedCoherent
<1>4. s.sent = p.sent /\ s.pending = p.pending /\ s.old = p.old
      /\ s.request = p.request
  BY <1>1, <1>2 DEF Repainted
<1> HIDE DEF s
<1>5. /\ r.valid = [s.valid EXCEPT ![f] = IF p.request[f].live THEN yes ELSE @]
      /\ r.request = [s.request EXCEPT ![f] = None]
      /\ r.pending = s.pending /\ r.old = s.old /\ r.sent = s.sent
      /\ r.pendingRequest = s.pendingRequest
  BY <1>3 DEF Coherent, Page
<1>6. r \in Page  BY <1>3 DEF Coherent, Page
<1>7. f \in p.pending
      /\ p.old[f] = IF p.request[f].live THEN p.request[f].data ELSE None
  BY DEF Coherent
<1>8. s.valid \in [Remote -> BOOLEAN] /\ DOMAIN s.request = Remote
  BY <1>3 DEF Coherent, Page
<1> HIDE DEF r
<1>9. Coherent(r)
  BY <1>3, <1>4, <1>5, <1>6, <1>7, <1>8 DEF Coherent
<1>10. r.request[f] = None /\ f \in r.pending /\ r.sent = p.sent
  BY <1>4, <1>5, <1>7, <1>8
<1>11. r.old[f] # None => (r.valid[f] <=> r.old[f] \in Accepts[f])
  BY <1>4, <1>5, <1>7, <1>8
<1>12. Written(p, f, yes) = r  BY DEF Written, r, s, q
<1>13. q \in Page  BY <1>1 DEF Coherent
<1> QED BY <1>9, <1>10, <1>11, <1>12, <1>13 DEF Answered, q

LEMMA TakeAnswerCoherent ==
  ASSUME NEW p, Coherent(p), value \in Filling, NEW f \in Remote,
         p.request[f] # None,
         NEW yes \in BOOLEAN, yes <=> p.request[f].data \in Accepts[f]
  PROVE  /\ Coherent(TakeAnswer(p, f, yes))
         /\ SendsAcceptable(p, TakeAnswer(p, f, yes))
<1>1. TakeAnswer(p, f, yes) = StopRequest(Written(p, f, yes), f, yes)
  BY DEF TakeAnswer, Written, Listed
<1> QED BY <1>1, WrittenCoherent, StopRequestCoherent DEF SendsAcceptable

LEMMA OnResetCoherent ==
  ASSUME NEW p, Coherent(p)
  PROVE  /\ Coherent(OnReset(p))
         /\ OnReset(p).sent = p.sent
         /\ OnReset(p).formSubmitted = p.formSubmitted
<1> DEFINE q == OnReset(p)
<1>1. /\ q.old = [f \in Remote |-> None]
      /\ q.request = [f \in Remote |-> IF p.request[f] = None THEN None
                                       ELSE [p.request[f] EXCEPT !.live = FALSE]]
      /\ q.pending = p.pending /\ q.pendingRequest = p.pendingRequest
      /\ q.sent = p.sent /\ q.formSubmitted = p.formSubmitted
  BY DEF OnReset, Coherent, Page
<1>2. ASSUME NEW f \in Remote, p.request[f] # None
      PROVE  \E g \in Remote : [p.request[f] EXCEPT !.live = FALSE] \in Request(g)
  <2>1. PICK g \in Remote : p.request[f] \in Request(g)
    BY <1>2 DEF Coherent, Page
  <2> QED BY <2>1 DEF Request
<1>3. q.request \in [Remote -> {None} \cup UNION {Request(f) : f \in Remote}]
  BY <1>1, <1>2
<1>4. q \in Page
  BY <1>3 DEF OnReset, Coherent, Page
<1>5. ASSUME NEW f \in Remote, q.request[f] # None
      PROVE  f \in q.pending /\ ~q.request[f].live
  <2>1. p.request[f] # None /\ q.request[f] = [p.request[f] EXCEPT !.live = FALSE]
    BY <1>1, <1>5
  <2>2. PICK g \in Remote : p.request[f] \in Request(g)
    BY <2>1 DEF Coherent, Page
  <2> QED BY <1>1, <2>1, <2>2 DEF Coherent, Request
<1> QED BY <1>1, <1>4, <1>5 DEF Coherent

--------------------------------------------------------------------------
\* The inductive invariant.
FormInv ==
  /\ value \in Filling /\ edits \in 0..MaxEdits /\ lost \in 0..MaxLost
  /\ Coherent(page)
  /\ SubmittedConfirmed

LEMMA InitFormInv == Init => FormInv
<1> SUFFICES ASSUME Init PROVE FormInv
  OBVIOUS
<1> USE FormAssumption DEF Init
<1>1. value \in Filling /\ edits \in 0..MaxEdits /\ lost \in 0..MaxLost
  BY DEF Filling
<1>2. page \in Page  BY DEF Page
<1>3. page.pendingRequest = Cardinality(page.pending)  BY FS_EmptySet
<1>4. Coherent(page)  BY <1>2, <1>3 DEF Coherent
<1> QED BY <1>1, <1>4 DEF FormInv, SubmittedConfirmed

\* A step keeps the page coherent and sends the form only with acceptable values.
LEMMA StepFormInv ==
  ASSUME FormInv, [Next]_vars
  PROVE  FormInv'
<1> USE DEF FormInv
<1>1. ASSUME value' \in Filling, Coherent(page'), SendsAcceptable(page, page'),
             edits' \in 0..MaxEdits, lost' \in 0..MaxLost
      PROVE  FormInv'
  <2>1. SubmittedConfirmed'
    BY <1>1 DEF SendsAcceptable, SubmittedConfirmed, Acceptable
  <2>2. Coherent(page)'  BY <1>1 DEF Coherent
  <2> QED BY <1>1, <2>1, <2>2
<1>2. CASE Submit
  BY <1>1, <1>2, HandleSubmitCoherent DEF Submit
<1>3. CASE Validate
  BY <1>1, <1>3, FormCoherent DEF Validate, SendsAcceptable
<1>4. CASE Reset
  <2>1. value' \in Filling /\ edits' \in 0..MaxEdits
    BY <1>4, FormAssumption DEF Reset, Filling
  <2> QED BY <1>1, <1>4, <2>1, OnResetCoherent DEF Reset, SendsAcceptable
<1>5. ASSUME NEW f \in Field, Fill(f) PROVE FormInv'
  <2>1. value' \in Filling /\ edits' \in 0..MaxEdits
    BY <1>5, FormAssumption DEF Fill, Filling
  <2> QED BY <1>1, <1>5, <2>1 DEF Fill, SendsAcceptable
<1>6. ASSUME NEW f \in Field, KeyUp(f) PROVE FormInv'
  BY <1>1, <1>6, ElementCoherent DEF KeyUp, SendsAcceptable
<1>7. ASSUME NEW f \in Field, FocusOut(f) PROVE FormInv'
  BY <1>1, <1>7, ElementCoherent DEF FocusOut, SendsAcceptable
<1>8. ASSUME NEW f \in Remote, Answer(f) PROVE FormInv'
  <2> DEFINE yes == page.request[f].data \in Accepts[f]
  <2>1. Coherent(page') /\ SendsAcceptable(page, page')
    <3>1. page' = TakeAnswer(page, f, yes) /\ page.request[f] # None
      BY <1>8 DEF Answer, OnItsWay
    <3>2. yes \in BOOLEAN /\ (yes <=> page.request[f].data \in Accepts[f])
      OBVIOUS
    <3> HIDE DEF yes
    <3> QED BY <3>1, <3>2, TakeAnswerCoherent
  <2> QED BY <1>1, <1>8, <2>1 DEF Answer
<1>9. ASSUME NEW f \in Remote, Lose(f) PROVE FormInv'
  <2>1. /\ page' = [page EXCEPT !.request[f] = None]
        /\ UNCHANGED <<value, edits>> /\ lost' \in 0..MaxLost
    BY <1>9, FormAssumption DEF Lose
  <2>2. page'.sent = page.sent /\ Coherent(page')
    BY <2>1 DEF Coherent, Page
  <2> QED BY <1>1, <2>1, <2>2 DEF SendsAcceptable
<1>10. CASE UNCHANGED vars
  BY <1>1, <1>10 DEF vars, SendsAcceptable
<1> QED BY <1>2, <1>3, <1>4, <1>5, <1>6, <1>7, <1>8, <1>9, <1>10 DEF Next

LEMMA FormInvariance == Spec => []FormInv
<1>1. FormInv /\ [Next]_vars => FormInv'  BY StepFormInv
<1> QED BY InitFormInv, <1>1, PTL DEF Spec

\* Every variable keeps its type.
THEOREM FormTypeCorrect == Spec => []TypeOK
<1>1. FormInv => TypeOK  BY DEF FormInv, TypeOK, Coherent
<1> QED BY FormInvariance, <1>1, PTL

\* The submit handler's count of pending requests is exact, and every request
\* on its way belongs to a field that waits.
THEOREM CountCorrect == Spec => []RequestsCounted
<1>1. FormInv => RequestsCounted  BY DEF FormInv, RequestsCounted, Coherent
<1> QED BY FormInvariance, <1>1, PTL

\* A verdict kept by previousValue for a field that does not wait is the
\* server's on the data it is kept for.
THEOREM VerdictCorrect == Spec => []VerdictExact
<1>1. FormInv => VerdictExact  BY DEF FormInv, VerdictExact, Coherent
<1> QED BY FormInvariance, <1>1, PTL

\* However often the form is sent, it is with values that no rule and no server
\* rejects.
THEOREM SubmitCorrect == Spec => []SubmittedConfirmed
<1>1. FormInv => SubmittedConfirmed  BY DEF FormInv
<1> QED BY FormInvariance, <1>1, PTL

--------------------------------------------------------------------------
\* What is shown.

LEMMA ShowErrorsShows ==
  ASSUME NEW p \in Page
  PROVE  /\ ShowErrors(p).container =
              [f \in Field |-> IF f \in p.errors THEN "error"
                               ELSE IF f \in p.success THEN "valid"
                               ELSE p.container[f]]
         /\ ShowErrors(p).message =
              (p.message \cup (p.errors \cap Replace)) \ (p.success \ p.errors)
<1> DEFINE q == OnError(p, p.errors)
<1>1. /\ q.container = [f \in Field |-> IF f \in p.errors THEN "error"
                                        ELSE p.container[f]]
      /\ q.message = p.message \cup (p.errors \cap Replace)
      /\ q \in Page
  BY FormAssumption DEF OnError, Page
<1> HIDE DEF q
<1>2. /\ OnSuccess(q, p.success \ p.errors).container =
           [f \in Field |-> IF f \in p.success \ p.errors THEN "valid"
                            ELSE q.container[f]]
      /\ OnSuccess(q, p.success \ p.errors).message =
           q.message \ (p.success \ p.errors)
  BY <1>1 DEF OnSuccess, Page
<1>3. ShowErrors(p) = OnSuccess(q, p.success \ p.errors)
  BY DEF ShowErrors, q
<1> QED BY <1>1, <1>2, <1>3

\* A field is marked as it should: one that will be shown in error, or is, is
\* checked again by a key or waits, and its container says why.
Told(p, f) ==
  /\ f \in Replace => f \in p.message
  /\ f \in p.submitted \cup p.invalid \cup p.pending
Marked(p) ==
  /\ p.errors \subseteq p.submitted \cup p.invalid
  /\ \A f \in Field : p.container[f] = "error" => Told(p, f)

LEMMA ShowMarked ==
  ASSUME NEW p \in Page, p.errors \subseteq p.submitted \cup p.invalid,
         \A f \in Field \ (p.success \cup p.errors) :
           p.container[f] = "error" => Told(p, f)
  PROVE  Marked(ShowErrors(p))
<1> DEFINE q == ShowErrors(p)
<1>1. q.submitted = p.submitted /\ q.invalid = p.invalid /\ q.errors = p.errors
      /\ q.pending = p.pending
  BY ShowErrorsRepaints DEF Repainted
<1>2. /\ q.container = [f \in Field |-> IF f \in p.errors THEN "error"
                                        ELSE IF f \in p.success THEN "valid"
                                        ELSE p.container[f]]
      /\ q.message =
           (p.message \cup (p.errors \cap Replace)) \ (p.success \ p.errors)
  BY ShowErrorsShows
<1> HIDE DEF q
<1>3. ASSUME NEW f \in Field, q.container[f] = "error"
      PROVE  Told(q, f)
  <2>1. CASE f \in p.errors
    BY <1>1, <1>2, <2>1 DEF Told
  <2>2. CASE f \notin p.errors
    <3>1. f \notin p.success /\ p.container[f] = "error"
      BY <1>2, <1>3, <2>2
    <3>2. Told(p, f)  BY <2>2, <3>1
    <3> QED BY <1>1, <1>2, <2>2, <3>1, <3>2 DEF Told
  <2> QED BY <2>1, <2>2
<1>4. Marked(q)  BY <1>1, <1>3 DEF Marked
<1> QED BY <1>4 DEF q

LEMMA CheckMarks ==
  ASSUME NEW p \in Page, NEW fs \in SUBSET Field
  PROVE  LET q == Check(p, fs)
         IN /\ q.errors \subseteq q.submitted /\ q.invalid = p.invalid
            /\ p.submitted \subseteq q.submitted /\ p.pending \subseteq q.pending
            /\ q.container = p.container /\ q.message = p.message
            /\ fs \subseteq q.errors \cup q.success \cup q.pending
  BY DEF Check, Page

LEMMA FormMarks ==
  ASSUME NEW p, Coherent(p), Marked(p), value \in Filling
  PROVE  /\ Marked(Form(p))
         /\ \A f \in Field \ Form(p).pending :
              Form(p).container[f] = "error" <=> Breaks(f)
<1> DEFINE c == Check(p, Field)
           i == [c EXCEPT !.invalid = c.errors]
           o == OnErrors(i)
<1>1. Coherent(c) /\ c \in Page
  BY CheckCoherent DEF Coherent
<1>2. c.errors \subseteq c.submitted
      /\ Field \subseteq c.errors \cup c.success \cup c.pending
      /\ c.container = p.container /\ c.message = p.message
  BY CheckMarks DEF Coherent
<1>3. ASSUME NEW f \in Field \ c.pending
      PROVE  f \in c.errors <=> Breaks(f)
  <2>1. c.errors = {g \in Field : \/ value[g] \in Rejected[g]
                                  \/ /\ AsksServer(g) /\ p.old[g] = DataOf(g)
                                     /\ ~p.valid[g]}
    BY DEF Check, Coherent, Page
  <2>2. AsksServer(f) => p.old[f] = DataOf(f) /\ f \notin p.pending
    BY <1>3 DEF Check, Coherent, Page
  <2>3. AsksServer(f) => (p.valid[f] <=> DataOf(f) \in Accepts[f])
    BY <2>2, DataTyped DEF Coherent, AsksServer
  <2> QED BY <1>3, <2>1, <2>2, <2>3 DEF Breaks
<1> HIDE DEF c
<1>4. i \in Page /\ i.errors = c.errors /\ i.success = c.success
      /\ i.pending = c.pending /\ i.submitted = c.submitted
      /\ i.container = c.container /\ i.message = c.message
  BY <1>1 DEF Page
<1> HIDE DEF i
<1>5. Repainted(i, o)  BY <1>4, OnErrorsRepaints
<1>6. o \in Page /\ o.errors = c.errors /\ o.success = c.success
      /\ o.pending = c.pending /\ o.submitted = c.submitted
  BY <1>4, <1>5 DEF Repainted
<1>11. o.container = c.container /\ o.message = c.message
  BY <1>4 DEF OnErrors, o, Page
<1> HIDE DEF o
<1>7. Form(p) = ShowErrors(o)  BY DEF Form, c, i, o
<1>8. Marked(ShowErrors(o))
  <2>1. ASSUME NEW f \in Field \ (o.success \cup o.errors),
               o.container[f] = "error"
        PROVE  Told(o, f)
    BY <1>2, <1>6, <1>11, <2>1 DEF Marked, Told
  <2> QED BY <1>2, <1>6, <2>1, ShowMarked
<1>9. ShowErrors(o).pending = c.pending
  BY <1>6, ShowErrorsRepaints DEF Repainted
<1>10. ASSUME NEW f \in Field \ c.pending
       PROVE  ShowErrors(o).container[f] = "error" <=> f \in c.errors
  BY <1>2, <1>6, <1>10, ShowErrorsShows
<1> QED BY <1>3, <1>7, <1>8, <1>9, <1>10

LEMMA ElementMarks ==
  ASSUME NEW p, Coherent(p), Marked(p), NEW f \in Field, value \in Filling
  PROVE  Marked(Element(p, f))
<1> DEFINE c == Check(p, {f})
           i == [c EXCEPT !.invalid = @ \cup {f}]
<1>1. c \in Page  BY CheckCoherent DEF Coherent
<1>2. c.errors \subseteq c.submitted /\ c.invalid = p.invalid
      /\ p.submitted \subseteq c.submitted /\ p.pending \subseteq c.pending
      /\ c.container = p.container /\ c.message = p.message
  BY CheckMarks DEF Coherent
<1> HIDE DEF c
<1>3. i \in Page /\ i.errors = c.errors /\ i.submitted = c.submitted
      /\ i.invalid = c.invalid \cup {f} /\ i.pending = c.pending
      /\ i.container = c.container /\ i.message = c.message
  BY <1>1 DEF Page
<1> HIDE DEF i
<1>4. \A g \in Field : i.container[g] = "error" => Told(i, g)
  BY <1>2, <1>3 DEF Marked, Told
<1>5. Marked(ShowErrors(i))  BY <1>2, <1>3, <1>4, ShowMarked
<1> QED BY <1>5 DEF Element, c, i

LEMMA HandleSubmitMarks ==
  ASSUME NEW p, Coherent(p), Marked(p), value \in Filling
  PROVE  /\ Marked(HandleSubmit(p))
         /\ \A f \in Field \ HandleSubmit(p).pending :
              HandleSubmit(p).container[f] = "error" <=> Breaks(f)
<1> DEFINE q == Form(p)
           h == HandleSubmit(p)
<1>1. Marked(q) /\ q \in Page
      /\ \A f \in Field \ q.pending : q.container[f] = "error" <=> Breaks(f)
  BY FormCoherent, FormMarks DEF Coherent
<1>2. \/ h = q \/ h = [q EXCEPT !.formSubmitted = TRUE]
      \/ h = [q EXCEPT !.sent = value]
  BY DEF HandleSubmit
<1> HIDE DEF q, h
<1>3. h.errors = q.errors /\ h.submitted = q.submitted /\ h.invalid = q.invalid
      /\ h.pending = q.pending /\ h.container = q.container
      /\ h.message = q.message
  BY <1>1, <1>2 DEF Page
<1>4. Marked(h)  BY <1>1, <1>3 DEF Marked, Told
<1> QED BY <1>1, <1>3, <1>4 DEF h

LEMMA StopRequestMarks ==
  ASSUME NEW p, Coherent(p), Marked(p), value \in Filling, NEW f \in Remote,
         Answered(p, f), f \in p.invalid, NEW yes \in BOOLEAN
  PROVE  Marked(StopRequest(p, f, yes))
<1> DEFINE q == EndWait(p, f)
           again == Form(q)
           last == q.pendingRequest = 0 /\ q.formSubmitted
<1>1. Coherent(q)  BY EndWaitCoherent
<1>2. q.errors = p.errors /\ q.submitted = p.submitted
      /\ q.invalid = p.invalid /\ q.pending = p.pending \ {f}
      /\ q.container = p.container /\ q.message = p.message
  BY DEF EndWait, Coherent, Page
<1> HIDE DEF q
<1>3. Marked(q)  BY <1>2 DEF Marked, Told
<1>4. Coherent(again) /\ Marked(again)
  BY <1>1, <1>3, FormCoherent, FormMarks
<1> HIDE DEF again
<1>5. ASSUME NEW h \in Page, Marked(h)
      PROVE  Marked([h EXCEPT !.formSubmitted = FALSE])
  BY <1>5 DEF Marked, Told, Page
<1>6. CASE last /\ yes /\ again.errors = {}
  <2>1. StopRequest(p, f, yes) = [HandleSubmit(again) EXCEPT !.formSubmitted = FALSE]
    BY <1>6 DEF StopRequest, q, again, EndWait
  <2>2. HandleSubmit(again) \in Page /\ Marked(HandleSubmit(again))
    BY <1>4, HandleSubmitCoherent, HandleSubmitMarks DEF Coherent
  <2> QED BY <2>1, <2>2, <1>5
<1>7. CASE last /\ yes /\ again.errors # {}
  <2>1. StopRequest(p, f, yes) = again
    BY <1>7 DEF StopRequest, q, again, EndWait
  <2> QED BY <1>4, <2>1
<1>8. CASE last /\ ~yes
  <2>1. StopRequest(p, f, yes) = [OnErrors(q) EXCEPT !.formSubmitted = FALSE]
    BY <1>8 DEF StopRequest, q, again, EndWait
  <2>2. q \in Page  BY <1>1 DEF Coherent
  <2>3. OnErrors(q) \in Page /\ Marked(OnErrors(q))
    BY <1>3, <2>2, OnErrorsRepaints DEF OnErrors, Marked, Told, Repainted, Page
  <2> QED BY <2>1, <2>3, <1>5
<1>9. CASE ~last
  <2>1. StopRequest(p, f, yes) = q
    BY <1>9 DEF StopRequest, q, again, EndWait
  <2> QED BY <1>3, <2>1
<1> QED BY <1>6, <1>7, <1>8, <1>9

LEMMA TakeAnswerMarks ==
  ASSUME NEW p, Coherent(p), Marked(p), value \in Filling, NEW f \in Remote,
         p.request[f] # None,
         NEW yes \in BOOLEAN, yes <=> p.request[f].data \in Accepts[f]
  PROVE  Marked(TakeAnswer(p, f, yes))
<1> DEFINE q == Listed(p, f, yes)
           s == ShowErrors(q)
           r == [s EXCEPT !.valid[f] = IF p.request[f].live THEN yes ELSE @,
                          !.request[f] = None]
<1>1. q \in Page  BY WrittenCoherent
<1>2. q.errors \subseteq p.errors \cup {f} /\ q.submitted = p.submitted
      /\ q.invalid = p.invalid \cup {f} /\ q.pending = p.pending
      /\ q.container = p.container /\ q.message = p.message
  BY DEF Listed, Coherent, Page
<1> HIDE DEF q
<1>3. q.errors \subseteq q.submitted \cup q.invalid
      /\ \A g \in Field : q.container[g] = "error" => Told(q, g)
  BY <1>2 DEF Marked, Told
<1>4. Marked(s) /\ s \in Page /\ f \in s.invalid
  BY <1>1, <1>2, <1>3, ShowMarked, ShowErrorsRepaints DEF Repainted
<1> HIDE DEF s
<1>5. Marked(r) /\ f \in r.invalid  BY <1>4 DEF Marked, Told, Page
<1>6. r = Written(p, f, yes)  BY DEF Written, q, s
<1> HIDE DEF r
<1>7. Marked(StopRequest(r, f, yes))
  BY <1>5, <1>6, WrittenCoherent, StopRequestMarks
<1>8. TakeAnswer(p, f, yes) = StopRequest(Written(p, f, yes), f, yes)
  BY DEF TakeAnswer, Written, Listed
<1> QED BY <1>6, <1>7, <1>8

LEMMA InitMarked == Init => Marked(page)
  BY DEF Init, Marked

LEMMA StepMarked ==
  ASSUME FormInv, Marked(page), [Next]_vars
  PROVE  Marked(page')
<1> USE DEF FormInv
<1>1. CASE Submit
  BY <1>1, HandleSubmitMarks DEF Submit
<1>2. CASE Validate
  BY <1>2, FormMarks DEF Validate
<1>3. CASE Reset
  <2>1. page' = OnReset(page) /\ page \in Page  BY <1>3 DEF Reset, Coherent
  <2>2. page'.errors = {} /\ \A f \in Field : page'.container[f] = "valid"
    BY <2>1 DEF OnReset, Page
  <2> QED BY <2>2 DEF Marked
<1>4. ASSUME NEW f \in Field, Fill(f) PROVE Marked(page')
  BY <1>4 DEF Fill
<1>5. ASSUME NEW f \in Field, KeyUp(f) PROVE Marked(page')
  BY <1>5, ElementMarks DEF KeyUp
<1>6. ASSUME NEW f \in Field, FocusOut(f) PROVE Marked(page')
  BY <1>6, ElementMarks DEF FocusOut
<1>7. ASSUME NEW f \in Remote, Answer(f) PROVE Marked(page')
  <2> DEFINE yes == page.request[f].data \in Accepts[f]
  <2>1. page' = TakeAnswer(page, f, yes) /\ page.request[f] # None
    BY <1>7 DEF Answer, OnItsWay
  <2>2. yes \in BOOLEAN /\ (yes <=> page.request[f].data \in Accepts[f])
    OBVIOUS
  <2> HIDE DEF yes
  <2> QED BY <2>1, <2>2, TakeAnswerMarks
<1>8. ASSUME NEW f \in Remote, Lose(f) PROVE Marked(page')
  <2>1. page' = [page EXCEPT !.request[f] = None] /\ page \in Page
    BY <1>8 DEF Lose, Coherent
  <2> QED BY <2>1 DEF Marked, Told, Page
<1>9. CASE UNCHANGED vars
  BY <1>9 DEF vars
<1> QED BY <1>1, <1>2, <1>3, <1>4, <1>5, <1>6, <1>7, <1>8, <1>9 DEF Next

LEMMA MarkedInvariance == Spec => [](FormInv /\ Marked(page))
<1>1. FormInv /\ Marked(page) /\ [Next]_vars => Marked(page)'
  <2> SUFFICES ASSUME FormInv, Marked(page), [Next]_vars PROVE Marked(page)'
    OBVIOUS
  <2>1. Marked(page')  BY StepMarked
  <2> QED BY <2>1 DEF Marked, Told
<1> QED BY FormInvariance, InitMarked, <1>1, PTL DEF Spec

\* A container in error says why, and its field is checked again by a key or
\* waits for an answer.
THEOREM ErrorsLive == Spec => []ErrorsStayLive
<1>1. FormInv /\ Marked(page) => ErrorsStayLive
  BY DEF Marked, Told, ErrorsStayLive
<1> QED BY MarkedInvariance, <1>1, PTL

\* A check of the whole form marks exactly the fields that break a rule, among
\* those that do not wait.
THEOREM ChecksShowErrors == Spec => ChecksShow
<1>1. FormInv /\ Marked(page) /\ [Next]_vars =>
        [Submit \/ Validate =>
           \A f \in Field \ page'.pending :
             page'.container[f] = "error" <=> Breaks(f)]_vars
  BY HandleSubmitMarks, FormMarks DEF FormInv, Submit, Validate
<1> QED BY MarkedInvariance, <1>1, PTL DEF Spec, ChecksShow
=============================================================================
