--------------------------- MODULE UnobtrusiveParse ---------------------------
(***************************************************************************)
(* jquery.validate.unobtrusive.js, the parser: data-val attributes of the  *)
(* elements of a page become rules, by a list of adapters that scripts may *)
(* extend, and a form gets its validator, with a copy of the rules its     *)
(* elements have at that moment.                                           *)
(*                                                                         *)
(* Elements come to the page later too, and scripts parse parts of it.     *)
(* An attribute is a path: <<>> is data-val=true, <<"length">> is          *)
(* data-val-length with its message, <<"length", "min">> a parameter.      *)
(* A field's name is the sequence of its parts; "*" is a leading "*.".     *)
(***************************************************************************)
EXTENDS Naturals, Sequences

CONSTANTS
  Form,
  Order,        \* the elements in document order
  FormOf,       \* element -> its form, or None
  Part,         \* what names are made of
  NameOf,       \* element -> name
  Attrs,        \* element -> attribute -> value
  Checkbox,     \* the elements that are checkboxes
  Served,       \* the elements the page comes with
  HasExtension, \* has the validator a method named extension?
  Custom,       \* adapters of the page's own scripts
  None, Undefined

Element == {Order[i] : i \in DOMAIN Order}

VARIABLES
  dom,        \* the elements in the page
  adapters,   \* the list, in the order they are run
  options,    \* form -> rules and messages by name, Nothing before any parse
  validator,  \* form -> the validator's copy of them, Nothing before it exists
  resets,     \* form -> reset handlers bound
  ready       \* has document ready fired?

vars == <<dom, adapters, options, validator, resets, ready>>

--------------------------------------------------------------------------
\* Adapters.

\* Objects: the empty one, and one with a property set.
Nothing == [x \in {} |-> TRUE]
Put(object, key, v) ==
  [k \in DOMAIN object \cup {key} |-> IF k = key THEN v ELSE object[k]]

\* Mutant: the first rule of a name stays.
SetValidationValuesMutant(o, ruleName, v, message) ==
  IF ruleName \in DOMAIN o.rules THEN o
  ELSE [rules |-> Put(o.rules, ruleName, v),
        messages |-> Put(o.messages, ruleName, message)]

\* setValidationValues: a later rule of the same name wins, and an empty
\* message leaves the validator's own.
SetValidationValues(o, ruleName, v, message) ==
  [rules |-> Put(o.rules, ruleName, v),
   messages |-> IF message = "" THEN o.messages
                ELSE Put(o.messages, ruleName, message)]

GetModelPrefix(name) == SubSeq(name, 1, Len(name) - 1)
AppendModelPrefix(name, prefix) ==
  IF Len(name) > 1 /\ Head(name) = "*" THEN prefix \o Tail(name) ELSE name

\* A rule given without its name gets the name undefined.
AddBool(name, ruleName) == [name |-> name, kind |-> "bool", rule |-> ruleName]
AddMinMax(name, minRule, maxRule, minMaxRule) ==
  [name |-> name, kind |-> "minmax", min |-> minRule, max |-> maxRule,
   both |-> minMaxRule]
AddSingleVal(name, attribute, ruleName) ==
  [name |-> name, kind |-> "single", param |-> attribute, rule |-> ruleName]
Add(name) == [name |-> name, kind |-> name]

\* The adapters of the library, in its order.
BuiltIn ==
  (IF HasExtension
   THEN <<AddSingleVal("accept", "mimtype", "accept"),
          AddSingleVal("extension", "extension", "extension")>>
   ELSE <<AddSingleVal("extension", "extension", "accept")>>)
  \o <<AddSingleVal("regex", "pattern", "regex"),
       AddBool("creditcard", "creditcard"), AddBool("date", "date"),
       AddBool("digits", "digits"), AddBool("email", "email"),
       AddBool("number", "number"), AddBool("url", "url"),
       AddMinMax("length", "minlength", "maxlength", "rangelength"),
       AddMinMax("range", "min", "max", "range"),
       AddMinMax("minlength", "minlength", "undefined", "undefined"),
       AddMinMax("maxlength", "minlength", "maxlength", "undefined"),
       Add("equalto"), Add("required"), Add("remote"), Add("password"),
       Add("fileextensions")>>

\* The rules an adapter of addBool, addMinMax or addSingleVal may set.  A page's
\* own adapters are such, and the rule __dummy__ is the parser's.
Made == {"bool", "minmax", "single"}
Writes(a) == IF a.kind = "minmax" THEN {a.min, a.max, a.both} ELSE {a.rule}

ASSUME ParseAssumption ==
  /\ Order \in Seq(Element)
  /\ Checkbox \subseteq Element /\ Served \subseteq Element
  /\ FormOf \in [Element -> Form \cup {None}] /\ None \notin Form
  /\ NameOf \in [Element -> Seq(Part)]
  /\ \A a \in Custom : a.kind \in Made /\ "__dummy__" \notin Writes(a)
  /\ HasExtension \in BOOLEAN

Param(e, adapter, p) ==
  LET path == <<adapter.name, p>>
  IN IF path \in DOMAIN Attrs[e] THEN Attrs[e][path] ELSE Undefined
Given(v) == v \notin {Undefined, ""}

\* The first of some places in the document order.
FirstAt(places) ==
  IF places = {} THEN Undefined
  ELSE Order[CHOOSE i \in places : \A j \in places : i <= j]

\* Mutant: the first field of the page with that name.
FindFieldMutant(f, name) ==
  FirstAt({i \in DOMAIN Order : Order[i] \in dom /\ NameOf[Order[i]] = name})

\* The first field of the form with that name, among those now in the page.
FindField(f, name) ==
  FirstAt({i \in DOMAIN Order : /\ Order[i] \in dom /\ FormOf[Order[i]] = f
                                /\ NameOf[Order[i]] = name})

\* The fields a remote rule sends; their values are read when it is run.
RemoteFields(e, listed) ==
  IF listed = Undefined THEN {NameOf[e]}
  ELSE {AppendModelPrefix(n, GetModelPrefix(NameOf[e])) : n \in listed}

\* What the adapter makes of the element's attributes.
Adapt(adapter, e, o) ==
  LET P(p) == Param(e, adapter, p)
      message == Attrs[e][<<adapter.name>>]
      Set(t, ruleName, v) == SetValidationValues(t, ruleName, v, message)
      SetGiven(t, ruleName, v) == IF Given(v) THEN Set(t, ruleName, v) ELSE t
  IN CASE adapter.kind = "bool" -> Set(o, adapter.rule, TRUE)
       [] adapter.kind = "single" -> Set(o, adapter.rule, P(adapter.param))
       [] adapter.kind = "minmax" ->
            IF Given(P("min")) /\ Given(P("max"))
            THEN Set(o, adapter.both, <<P("min"), P("max")>>)
            ELSE SetGiven(SetGiven(o, adapter.min, P("min")),
                          adapter.max, P("max"))
       [] adapter.kind = "equalto" ->
            Set(o, "equalTo",
                FindField(FormOf[e], AppendModelPrefix(
                                       P("other"), GetModelPrefix(NameOf[e]))))
       [] adapter.kind = "required" ->
            IF e \in Checkbox THEN o ELSE Set(o, "required", TRUE)
       [] adapter.kind = "remote" ->
            Set(o, "remote",
                [url |-> P("url"),
                 type |-> IF Given(P("type")) THEN P("type") ELSE "GET",
                 data |-> RemoteFields(e, P("additionalfields"))])
       [] adapter.kind = "password" ->
            SetGiven(SetGiven(SetGiven(o, "minlength", P("min")),
                              "nonalphamin", P("nonalphamin")),
                     "regex", P("regex"))
       [] adapter.kind = "fileextensions" ->
            Set(o, "extension", P("extensions"))

--------------------------------------------------------------------------
\* Parsing.

Marked(e) == <<>> \in DOMAIN Attrs[e]
NoRules == [rules |-> Nothing, messages |-> Nothing]

\* The rules of an element: every adapter whose attribute it has, in order.
\* Adapted(e)[i] is what the first i adapters make.
Applies(a, e) == <<a.name>> \in DOMAIN Attrs[e]
Adapted(e) ==
  LET adapted[i \in 0..Len(adapters)] ==
        IF i = 0 THEN NoRules
        ELSE IF Applies(adapters[i], e) THEN Adapt(adapters[i], e, adapted[i - 1])
        ELSE adapted[i - 1]
  IN adapted
RulesOf(e) ==
  LET all == Adapted(e)[Len(adapters)]
  IN [rules |-> Put(all.rules, "__dummy__", TRUE), messages |-> all.messages]

\* validationInfo: what is kept for a form, made when first needed.
ValidationInfo(info) == IF info = Nothing THEN NoRules ELSE info

\* parseElement without the attachment: rules of the same name are replaced.
ParseElement(infos, e) ==
  IF FormOf[e] = None THEN infos
  ELSE LET o == RulesOf(e)
           info == ValidationInfo(infos[FormOf[e]])
       IN [infos EXCEPT ![FormOf[e]] =
             [rules |-> Put(info.rules, NameOf[e], o.rules),
              messages |-> Put(info.messages, NameOf[e], o.messages)]]

\* ParseElement for the marked elements found, in document order.
Parsed(found) ==
  LET parsed[i \in 0..Len(Order)] ==
        IF i = 0 THEN options
        ELSE IF Order[i] \in found /\ Marked(Order[i])
             THEN ParseElement(parsed[i - 1], Order[i])
        ELSE parsed[i - 1]
  IN parsed

\* The validator's settings: a deep copy, from which undefined values vanish.
Defined(rules) ==
  [r \in {q \in DOMAIN rules : rules[q] # Undefined} |-> rules[r]]
Settings(info) ==
  [rules |-> [n \in DOMAIN info.rules |-> Defined(info.rules[n])],
   messages |-> info.messages]

\* Mutant: the old reset handler stays too.
AttachAgain(forms) ==
  /\ resets' = [f \in Form |-> IF f \in forms THEN resets[f] + 1 ELSE resets[f]]
  /\ validator' = [f \in Form |->
                     IF f \in forms /\ validator[f] = Nothing
                     THEN Settings(options'[f]) ELSE validator[f]]

\* Mutant: attached with the options of before the parse.
AttachEarly(forms) ==
  /\ resets' = [f \in Form |-> IF f \in forms THEN 1 ELSE resets[f]]
  /\ validator' = [f \in Form |->
                     IF f \in forms /\ validator[f] = Nothing
                     THEN Settings(ValidationInfo(options[f])) ELSE validator[f]]

\* attachValidation: the reset handler is bound anew; validate returns the
\* validator the form has, if it has one, whatever the options are now.
Attach(forms) ==
  /\ resets' = [f \in Form |-> IF f \in forms THEN 1 ELSE resets[f]]
  /\ validator' = [f \in Form |->
                     IF f \in forms /\ validator[f] = Nothing
                     THEN Settings(options'[f]) ELSE validator[f]]

\* parse of a selector that holds the elements in found, below or in forms:
\* the forms that have a marked element anywhere are attached.
ParseSelected(found, forms) ==
  LET attached == {f \in forms : \E e \in dom : FormOf[e] = f /\ Marked(e)}
      parsed == Parsed(found)[Len(Order)]
  IN /\ options' = [f \in Form |-> IF f \in attached THEN ValidationInfo(parsed[f])
                                   ELSE parsed[f]]
     /\ Attach(attached)

InForm(f) == {e \in dom : FormOf[e] = f}

--------------------------------------------------------------------------
\* What happens on the page.

Init ==
  /\ dom = Served /\ adapters = BuiltIn /\ ready = FALSE
  /\ options = [f \in Form |-> Nothing] /\ validator = [f \in Form |-> Nothing]
  /\ resets = [f \in Form |-> 0]

ParseDocument ==
  /\ ParseSelected(dom, Form)
  /\ UNCHANGED <<dom, adapters>>

Ready == ~ready /\ ready' = TRUE /\ ParseDocument

\* A script parses the document, a form, or new content in a form; or it
\* selects the new element itself, which parse looks below.
ParseAgain == ParseDocument /\ UNCHANGED ready
ParseForm(f) ==
  /\ ParseSelected(InForm(f), {f})
  /\ UNCHANGED <<dom, adapters, ready>>
ParsePart(f, part) ==
  /\ ParseSelected(part, {f})
  /\ UNCHANGED <<dom, adapters, ready>>

\* parseElement, called by a script.
ParseOne(e, skipAttach) ==
  /\ FormOf[e] # None
  /\ options' = ParseElement(options, e)
  /\ IF skipAttach THEN UNCHANGED <<validator, resets>> ELSE Attach({FormOf[e]})
  /\ UNCHANGED <<dom, adapters, ready>>

\* A script adds an element, or an adapter, or removes a validator.
Insert(e) ==
  /\ dom' = dom \cup {e}
  /\ UNCHANGED <<adapters, options, validator, resets, ready>>
Registered == {adapters[i] : i \in DOMAIN adapters}
AddAdapter(a) ==
  /\ adapters' = Append(adapters, a)
  /\ UNCHANGED <<dom, options, validator, resets, ready>>
Destroy(f) ==
  /\ validator[f] # Nothing
  /\ validator' = [validator EXCEPT ![f] = Nothing]
  /\ UNCHANGED <<dom, adapters, options, resets, ready>>

Next ==
  \/ Ready \/ ParseAgain
  \/ \E f \in Form : \/ ParseForm(f) \/ Destroy(f)
                     \/ \E part \in SUBSET (InForm(f) \ Served) : ParsePart(f, part)
  \/ \E e \in dom, skipAttach \in BOOLEAN : ParseOne(e, skipAttach)
  \/ \E e \in Element \ dom : Insert(e)
  \/ \E a \in Custom \ Registered : AddAdapter(a)

Spec == Init /\ [][Next]_vars

--------------------------------------------------------------------------
\* Properties.

\* The adapters there may be.
Known == {BuiltIn[i] : i \in DOMAIN BuiltIn} \cup Custom

\* Partial functions from names to what the element of that name is given.
IsInfo(i) ==
  /\ DOMAIN i = {"rules", "messages"}
  /\ DOMAIN i.rules = DOMAIN i.messages
  /\ DOMAIN i.rules \subseteq {NameOf[e] : e \in Element}

\* A form has one reset handler from its first attachment on, and no validator
\* before; a validator only has names that have been parsed.
TypeOK ==
  /\ dom \subseteq Element /\ ready \in BOOLEAN /\ adapters \in Seq(Known)
  /\ resets \in [Form -> 0..1]
  /\ \A f \in Form :
       /\ options[f] # Nothing => IsInfo(options[f])
       /\ validator[f] # Nothing =>
            /\ IsInfo(validator[f]) /\ resets[f] = 1 /\ options[f] # Nothing
            /\ DOMAIN validator[f].rules \subseteq DOMAIN options[f].rules

\* The rules an adapter alone makes of an element.
RulesBy(a, e) == Adapt(a, e, NoRules).rules

\* Every rule an attribute asks for is in the rules of its element, with the
\* value of the last adapter that gives one: adapters that share a rule, such
\* as minlength and password, or a custom one, never drop another's.
Gives(i, e, r) ==
  Applies(adapters[i], e) /\ r \in DOMAIN RulesBy(adapters[i], e)
RulesComplete ==
  \A e \in dom, i \in DOMAIN adapters :
    Marked(e) /\ Applies(adapters[i], e) => \A r \in DOMAIN RulesBy(adapters[i], e) :
      /\ r \in DOMAIN RulesOf(e).rules
      /\ \/ \E j \in (i + 1)..Len(adapters) : Gives(j, e, r)
         \/ RulesOf(e).rules[r] = RulesBy(adapters[i], e)[r]

\* The rules the attributes of an element ask for, as far as they can be had.
Wanted(e) == {r \in DOMAIN RulesOf(e).rules : RulesOf(e).rules[r] # Undefined}
Checked(e, v) ==
  Marked(e) =>
    NameOf[e] \in DOMAIN v.rules /\ Wanted(e) \subseteq DOMAIN v.rules[NameOf[e]]
Validated(f, v) == \A e \in InForm(f) : Checked(e, v)

\* The first parse that reaches a form without a validator, if it covers the
\* form, has the validator check everything the form's attributes ask for,
\* whatever was parsed, inserted, registered or destroyed before.
FirstParseCovers ==
  [][\A f \in Form :
       /\ validator[f] = Nothing
       /\ \E e \in InForm(f) : Marked(e)
       /\ ParseDocument \/ ParseForm(f)
       => validator'[f] # Nothing /\ Validated(f, validator'[f])]_vars

\* The field an equalTo rule compares with, and the fields a remote rule
\* sends, are of the form and of the model the element is in.
SameModel(n, m) == GetModelPrefix(n) = GetModelPrefix(m)
RulesStayInForm ==
  \A f \in Form : validator[f] # Nothing =>
    \A n \in DOMAIN validator[f].rules :
      LET rules == validator[f].rules[n]
      IN /\ "equalTo" \in DOMAIN rules =>
              /\ FormOf[rules["equalTo"]] = f
              /\ SameModel(n, NameOf[rules["equalTo"]])
         /\ "remote" \in DOMAIN rules =>
              \A m \in rules["remote"].data :
                /\ SameModel(n, m)
                /\ \E e \in Element : FormOf[e] = f /\ NameOf[e] = m

\* parse "enables validation" for the marked elements it is given, also those
\* that have come to a page that is ready: their form's validator checks them
\* with the rules they ask for.
ParseEnables ==
  [][\A f \in Form :
       ready /\ ParseForm(f) =>
         \A e \in InForm(f) \ Served : Checked(e, validator'[f])]_vars
=============================================================================
