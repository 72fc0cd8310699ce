------------------------ MODULE UnobtrusiveParseProofs ------------------------
(***************************************************************************)
(* The parser, for any page, attributes, forms and adapters.  Its loops    *)
(* are functions of a position, so that most proofs are by induction over  *)
(* the list of adapters or over the elements of the page.  The induction   *)
(* theorems of the library take an operator, which the provers cannot      *)
(* instantiate; Upwards says the same of a set of positions.               *)
(***************************************************************************)
EXTENDS UnobtrusiveParse, WellFoundedInduction, TLAPS

LEMMA Least ==
  ASSUME NEW T, T \subseteq Nat, T # {}
  PROVE  \E n \in T : \A m \in T : n <= m
<1> DEFINE Less == {ss \in Nat \X Nat : ss[1] < ss[2]}
<1>1. OpToRel(<, Nat) = Less  BY Zenon DEF OpToRel
<1>2. IsWellFoundedOn(Less, Nat)  BY <1>1, NatLessThanWellFounded
<1>3. PICK n \in T : \A m \in T : <<m, n>> \notin Less
      <2> HIDE DEF Less
      <2> QED BY <1>2, WFMin
<1>4. ASSUME NEW m \in T  PROVE n <= m
      <2>1. <<m, n>> \in Nat \X Nat  OBVIOUS
      <2>2. ~ (m < n)  BY <1>3, <2>1
      <2> QED BY <2>2
<1> QED BY <1>4

LEMMA Upwards ==
  ASSUME NEW N \in Nat, NEW S, 0 \in S,
         \A n \in 0..N : n \in S /\ n # N => n + 1 \in S
  PROVE  \A n \in 0..N : n \in S
<1> DEFINE T == 0..N \ S
<1> SUFFICES ASSUME T # {}  PROVE FALSE  OBVIOUS
<1>1. PICK n \in T : \A m \in T : n <= m
      <2>1. T \subseteq Nat  OBVIOUS
      <2> HIDE DEF T
      <2> QED BY <2>1, Least
<1> QED BY <1>1, n - 1 \in 0..N

--------------------------------------------------------------------------
\* The two loops are what their definitions say.
LEMMA AdaptedDef ==
  ASSUME adapters \in Seq(Known), NEW e
  PROVE  Adapted(e) =
           [i \in 0..Len(adapters) |->
              IF i = 0 THEN NoRules
              ELSE IF Applies(adapters[i], e)
                   THEN Adapt(adapters[i], e, Adapted(e)[i - 1])
              ELSE Adapted(e)[i - 1]]
<1> DEFINE N == Len(adapters)
           After(i, o) == IF Applies(adapters[i], e) THEN Adapt(adapters[i], e, o) ELSE o
           Is(n, g) == g = [i \in 0..n |-> IF i = 0 THEN NoRules ELSE
                              IF Applies(adapters[i], e)
                              THEN Adapt(adapters[i], e, g[i - 1]) ELSE g[i - 1]]
           S == {n \in 0..N : \E g : Is(n, g)}
<1>0. N \in Nat  OBVIOUS
<1>1. 0 \in S
      <2>1. Is(0, [i \in 0..0 |-> NoRules])  OBVIOUS
      <2> HIDE DEF Is
      <2> QED BY <1>0, <2>1
<1>2. ASSUME NEW n \in 0..N, n \in S, n # N  PROVE n + 1 \in S
      <2>1. PICK g : Is(n, g)  BY <1>2
      <2> DEFINE h == [i \in 0..n + 1 |-> IF i <= n THEN g[i] ELSE After(i, g[i - 1])]
      <2>2. Is(n + 1, h)  BY <2>1
      <2> HIDE DEF Is, h
      <2> QED BY <1>0, <1>2, <2>2
<1>3. PICK g : Is(N, g)
      <2> HIDE DEF S, N
      <2>1. \A n \in 0..N : n \in S  BY <1>0, <1>1, <1>2, Upwards
      <2>2. N \in S  BY <1>0, <2>1
      <2> QED BY <2>2 DEF S
<1> QED BY <1>3 DEF Adapted

LEMMA ParsedDef ==
  ASSUME NEW found
  PROVE  Parsed(found) =
           [i \in 0..Len(Order) |->
              IF i = 0 THEN options
              ELSE IF Order[i] \in found /\ Marked(Order[i])
                   THEN ParseElement(Parsed(found)[i - 1], Order[i])
              ELSE Parsed(found)[i - 1]]
<1> DEFINE N == Len(Order)
           After(i, o) == IF Order[i] \in found /\ Marked(Order[i])
                          THEN ParseElement(o, Order[i]) ELSE o
           Is(n, g) == g = [i \in 0..n |-> IF i = 0 THEN options ELSE
                              IF Order[i] \in found /\ Marked(Order[i])
                              THEN ParseElement(g[i - 1], Order[i]) ELSE g[i - 1]]
           S == {n \in 0..N : \E g : Is(n, g)}
<1>0. N \in Nat  BY ParseAssumption
<1>1. 0 \in S
      <2>1. Is(0, [i \in 0..0 |-> options])  OBVIOUS
      <2> HIDE DEF Is
      <2> QED BY <1>0, <2>1
<1>2. ASSUME NEW n \in 0..N, n \in S, n # N  PROVE n + 1 \in S
      <2>1. PICK g : Is(n, g)  BY <1>2
      <2> DEFINE h == [i \in 0..n + 1 |-> IF i <= n THEN g[i] ELSE After(i, g[i - 1])]
      <2>2. Is(n + 1, h)  BY <2>1
      <2> HIDE DEF Is, h
      <2> QED BY <1>0, <1>2, <2>2
<1>3. PICK g : Is(N, g)
      <2> HIDE DEF S, N
      <2>1. N \in S  BY <1>0, <1>1, <1>2, Upwards
      <2> QED BY <2>1 DEF S
<1> QED BY <1>3 DEF Parsed

--------------------------------------------------------------------------
\* The library's adapters, by kind.  Its helpers are not used for the rules
\* that are filled with fields of the page.
Special == {"equalto", "required", "remote", "password", "fileextensions"}
Plain(a) == a.kind \in Made /\ Writes(a) \cap {"equalTo", "remote", "__dummy__"} = {}

LEMMA BuiltInKinds ==
  /\ BuiltIn \in Seq({BuiltIn[i] : i \in DOMAIN BuiltIn})
  /\ \A i \in DOMAIN BuiltIn :
       Plain(BuiltIn[i]) \/ \E k \in Special : BuiltIn[i] = Add(k)
<1> DEFINE Singles == {AddSingleVal("accept", "mimtype", "accept"),
                       AddSingleVal("extension", "extension", "extension"),
                       AddSingleVal("extension", "extension", "accept"),
                       AddSingleVal("regex", "pattern", "regex")}
           Bools == {AddBool("creditcard", "creditcard"), AddBool("date", "date"),
                     AddBool("digits", "digits"), AddBool("email", "email"),
                     AddBool("number", "number"), AddBool("url", "url")}
           Ranges == {AddMinMax("length", "minlength", "maxlength", "rangelength"),
                      AddMinMax("range", "min", "max", "range"),
                      AddMinMax("minlength", "minlength", "undefined", "undefined"),
                      AddMinMax("maxlength", "minlength", "maxlength", "undefined")}
           Others == {Add("equalto"), Add("required"), Add("remote"),
                      Add("password"), Add("fileextensions")}
           All == Singles \cup Bools \cup Ranges \cup Others
<1>1. BuiltIn \in Seq(All)
      <2> DEFINE New == <<AddSingleVal("accept", "mimtype", "accept"),
                          AddSingleVal("extension", "extension", "extension")>>
                 Old == <<AddSingleVal("extension", "extension", "accept")>>
                 Rest == <<AddSingleVal("regex", "pattern", "regex"),
                           AddBool("creditcard", "creditcard"), AddBool("date", "date"),
                           AddBool("digits", "digits"), AddBool("email", "email"),
                           AddBool("number", "number"), AddBool("url", "url"),
                           AddMinMax("length", "minlength", "maxlength", "rangelength"),
                           AddMinMax("range", "min", "max", "range"),
                           AddMinMax("minlength", "minlength", "undefined", "undefined"),
                           AddMinMax("maxlength", "minlength", "maxlength", "undefined"),
                           Add("equalto"), Add("required"), Add("remote"),
                           Add("password"), Add("fileextensions")>>
      <2>1. New \in Seq(All) /\ Old \in Seq(All)  OBVIOUS
      <2>2. Rest \in Seq(All)  OBVIOUS
      <2>3. BuiltIn \in {New \o Rest, Old \o Rest}  BY DEF BuiltIn
      <2> HIDE DEF New, Old, Rest, All
      <2>4. New \o Rest \in Seq(All) /\ Old \o Rest \in Seq(All)
            BY <2>1, <2>2
      <2> QED BY <2>3, <2>4
<1>2. \A a \in Singles : Plain(a)
      BY DEF Plain, Made, Writes, AddSingleVal
<1>3. \A a \in Bools : Plain(a)
      BY DEF Plain, Made, Writes, AddBool
<1>4. \A a \in Ranges : Plain(a)
      BY DEF Plain, Made, Writes, AddMinMax
<1>5. \A a \in Others : \E k \in Special : a = Add(k)
      BY DEF Special
<1> HIDE DEF Singles, Bools, Ranges, Others
<1>6. BuiltIn \in Seq({BuiltIn[i] : i \in DOMAIN BuiltIn})
      <2> HIDE DEF All
      <2> QED BY <1>1
<1> QED BY <1>1, <1>2, <1>3, <1>4, <1>5, <1>6

LEMMA Kinds ==
  ASSUME NEW a \in Known
  PROVE  \/ a.kind \in Made /\ "__dummy__" \notin Writes(a)
         \/ a.kind \in Special /\ a = Add(a.kind)
<1>1. CASE a \in Custom  BY <1>1, ParseAssumption
<1>2. CASE a \notin Custom  BY <1>2, BuiltInKinds DEF Known, Plain, Add
<1> QED BY <1>1, <1>2

\* Setting one rule.
LEMMA SetRule ==
  ASSUME NEW o, NEW r, NEW v, NEW message
  PROVE  LET rules == SetValidationValues(o, r, v, message).rules IN
         /\ DOMAIN rules = DOMAIN o.rules \cup {r}
         /\ rules[r] = v
         /\ \A q \in DOMAIN o.rules \ {r} : rules[q] = o.rules[q]
  BY DEF SetValidationValues, Put

LEMMA NoRule == DOMAIN NoRules.rules = {} /\ DOMAIN NoRules.messages = {}
  BY DEF NoRules, Nothing

\* An adapter sets the rules it makes of the element alone, and keeps the
\* others.
LEMMA AdaptKeeps ==
  ASSUME NEW a \in Known, NEW e, NEW o
  PROVE  LET rules == Adapt(a, e, o).rules IN
         /\ DOMAIN rules = DOMAIN RulesBy(a, e) \cup DOMAIN o.rules
         /\ \A r \in DOMAIN RulesBy(a, e) : rules[r] = RulesBy(a, e)[r]
         /\ \A r \in DOMAIN o.rules \ DOMAIN RulesBy(a, e) : rules[r] = o.rules[r]
         /\ "__dummy__" \notin DOMAIN RulesBy(a, e)
<1> DEFINE P(p) == Param(e, a, p)
           Set(t, r, v) == SetValidationValues(t, r, v, Attrs[e][<<a.name>>])
           SetGiven(t, r, v) == IF Given(v) THEN Set(t, r, v) ELSE t
<1>1. CASE a.kind \in {"bool", "single"}
      <2>1. PICK v : \A t : Adapt(a, e, t) = Set(t, a.rule, v)
            BY <1>1 DEF Adapt
      <2>2. a.rule # "__dummy__"
            BY <1>1, Kinds DEF Made, Special, Writes
      <2> QED BY <2>1, <2>2, SetRule, NoRule DEF RulesBy
<1>2. CASE a.kind = "minmax"
      <2>1. \A t : Adapt(a, e, t) =
                     IF Given(P("min")) /\ Given(P("max"))
                     THEN Set(t, a.both, <<P("min"), P("max")>>)
                     ELSE SetGiven(SetGiven(t, a.min, P("min")), a.max, P("max"))
            BY <1>2 DEF Adapt
      <2>2. "__dummy__" \notin {a.min, a.max, a.both}
            BY <1>2, Kinds DEF Made, Special, Writes
      <2> HIDE DEF P
      <2> QED BY <2>1, <2>2, SetRule, NoRule DEF RulesBy
<1>3. CASE a.kind = "equalto"
      <2>1. PICK v : \A t : Adapt(a, e, t) = Set(t, "equalTo", v)
            BY <1>3 DEF Adapt
      <2> QED BY <2>1, SetRule, NoRule DEF RulesBy
<1>4. CASE a.kind = "required"
      <2>1. PICK v : \A t : Adapt(a, e, t) = IF e \in Checkbox THEN t
                                            ELSE Set(t, "required", v)
            BY <1>4 DEF Adapt
      <2> QED BY <2>1, SetRule, NoRule DEF RulesBy
<1>5. CASE a.kind = "remote"
      <2>1. PICK v : \A t : Adapt(a, e, t) = Set(t, "remote", v)
            BY <1>5 DEF Adapt
      <2> QED BY <2>1, SetRule, NoRule DEF RulesBy
<1>6. CASE a.kind = "password"
      <2>1. \A t : Adapt(a, e, t) =
                     SetGiven(SetGiven(SetGiven(t, "minlength", P("min")),
                                       "nonalphamin", P("nonalphamin")),
                              "regex", P("regex"))
            BY <1>6 DEF Adapt
      <2> HIDE DEF P
      <2> QED BY <2>1, SetRule, NoRule DEF RulesBy
<1>7. CASE a.kind = "fileextensions"
      <2>1. PICK v : \A t : Adapt(a, e, t) = Set(t, "extension", v)
            BY <1>7 DEF Adapt
      <2> QED BY <2>1, SetRule, NoRule DEF RulesBy
<1>8. a.kind \in {"bool", "single", "minmax", "equalto", "required", "remote",
                   "password", "fileextensions"}
      BY Kinds DEF Made, Special
<1> QED BY <1>1, <1>2, <1>3, <1>4, <1>5, <1>6, <1>7, <1>8

\* The first i adapters have given an element every rule that one of them
\* makes of it, with the value of the last that makes it.
LEMMA AdaptedComplete ==
  ASSUME adapters \in Seq(Known), NEW e
  PROVE  \A n \in 0..Len(adapters) : \A i \in 1..n : \A r :
           Gives(i, e, r) =>
             /\ r \in DOMAIN Adapted(e)[n].rules
             /\ \/ \E j \in (i + 1)..n : Gives(j, e, r)
                \/ Adapted(e)[n].rules[r] = RulesBy(adapters[i], e)[r]
<1> DEFINE N == Len(adapters)
           Full(n) == \A i \in 1..n : \A r : Gives(i, e, r) =>
             /\ r \in DOMAIN Adapted(e)[n].rules
             /\ \/ \E j \in (i + 1)..n : Gives(j, e, r)
                \/ Adapted(e)[n].rules[r] = RulesBy(adapters[i], e)[r]
           S == {n \in 0..N : Full(n)}
<1>0. N \in Nat  OBVIOUS
<1>1. 0 \in S  BY <1>0
<1>2. ASSUME NEW n \in 0..N, n \in S, n # N  PROVE n + 1 \in S
      <2> DEFINE m == n + 1
                 old == Adapted(e)[n].rules
                 new == Adapted(e)[m].rules
      <2>1. m \in 1..N /\ adapters[m] \in Known  BY <1>2
      <2>2. CASE ~ Applies(adapters[m], e)
            <3>1. new = old  BY <2>1, <2>2, AdaptedDef
            <3>2. \A r : ~ Gives(m, e, r)  BY <2>2 DEF Gives
            <3>3. \A i \in 1..m : i = m \/ i \in 1..n  BY <2>1
            <3>4. Full(m)  BY <1>2, <3>1, <3>2, <3>3
            <3> QED BY <2>1, <3>4
      <2>3. CASE Applies(adapters[m], e)
            <3>1. Adapted(e)[m] = Adapt(adapters[m], e, Adapted(e)[n])
                  BY <2>1, <2>3, AdaptedDef
            <3>2. \A r : Gives(m, e, r) <=> r \in DOMAIN RulesBy(adapters[m], e)
                  BY <2>3 DEF Gives
            <3>3. \A i \in 1..m : i = m \/ i \in 1..n  BY <2>1
            <3>4. Full(m)  BY <1>2, <2>1, <3>1, <3>2, <3>3, AdaptKeeps
            <3> QED BY <2>1, <3>4
      <2> QED BY <2>2, <2>3
<1>3. \A n \in 0..N : n \in S
      <2> HIDE DEF S, N
      <2> QED BY <1>0, <1>1, <1>2, Upwards
<1> QED BY <1>3

LEMMA RulesFollow ==
  ASSUME adapters \in Seq(Known)  PROVE RulesComplete
<1> SUFFICES ASSUME NEW e, NEW i \in DOMAIN adapters, Applies(adapters[i], e),
                    NEW r \in DOMAIN RulesBy(adapters[i], e)
             PROVE  /\ r \in DOMAIN RulesOf(e).rules
                    /\ \/ \E j \in (i + 1)..Len(adapters) : Gives(j, e, r)
                       \/ RulesOf(e).rules[r] = RulesBy(adapters[i], e)[r]
    BY DEF RulesComplete
<1> DEFINE all == Adapted(e)[Len(adapters)].rules
<1>1. i \in 1..Len(adapters) /\ adapters[i] \in Known /\ Len(adapters) \in 0..Len(adapters)
      OBVIOUS
<1>2. Gives(i, e, r)  BY DEF Gives
<1>3. /\ r \in DOMAIN all
      /\ \/ \E j \in (i + 1)..Len(adapters) : Gives(j, e, r)
         \/ all[r] = RulesBy(adapters[i], e)[r]
      BY <1>1, <1>2, AdaptedComplete
<1>4. r # "__dummy__"  BY <1>1, AdaptKeeps
<1>5. r \in DOMAIN RulesOf(e).rules /\ RulesOf(e).rules[r] = all[r]
      BY <1>3, <1>4 DEF RulesOf, Put
<1> QED BY <1>3, <1>5

--------------------------------------------------------------------------
\* Types.

\* Options of well-formed forms, and options that only have more names.
Infos(o) ==
  /\ o = [f \in Form |-> o[f]]
  /\ \A f \in Form : o[f] # Nothing => IsInfo(o[f])
Grown(o, p) ==
  \A f \in Form : o[f] # Nothing =>
    p[f] # Nothing /\ DOMAIN o[f].rules \subseteq DOMAIN p[f].rules

LEMMA ElementTypes ==
  ASSUME NEW o, Infos(o), NEW e \in Element
  PROVE  Infos(ParseElement(o, e)) /\ Grown(o, ParseElement(o, e))
<1> DEFINE f == FormOf[e]
           info == ValidationInfo(o[f])
           new == [rules |-> Put(info.rules, NameOf[e], RulesOf(e).rules),
                   messages |-> Put(info.messages, NameOf[e], RulesOf(e).messages)]
<1>1. CASE f = None  BY <1>1 DEF ParseElement, Grown
<1>2. CASE f # None
      <2>1. f \in Form  BY <1>2, ParseAssumption
      <2>2. ParseElement(o, e) = [o EXCEPT ![f] = new]
            BY <1>2 DEF ParseElement
      <2>3. /\ DOMAIN info.rules = DOMAIN info.messages
            /\ DOMAIN info.rules \subseteq {NameOf[d] : d \in Element}
            /\ o[f] # Nothing => info = o[f]
            BY <2>1, NoRule DEF ValidationInfo, Infos, IsInfo
      <2>4. IsInfo(new) /\ DOMAIN new.rules = DOMAIN info.rules \cup {NameOf[e]}
            BY <2>3 DEF IsInfo, Put
      <2>5. new # Nothing  BY DEF Nothing
      <2> HIDE DEF new, info, f
      <2> QED BY <2>1, <2>2, <2>3, <2>4, <2>5 DEF Infos, Grown
<1> QED BY <1>1, <1>2

LEMMA ParsedTypes ==
  ASSUME Infos(options), NEW found
  PROVE  LET parsed == Parsed(found)[Len(Order)] IN
         Infos(parsed) /\ Grown(options, parsed)
<1> DEFINE N == Len(Order)
           S == {n \in 0..N : /\ Infos(Parsed(found)[n])
                             /\ Grown(options, Parsed(found)[n])}
<1>0. N \in Nat  BY ParseAssumption
<1>1. 0 \in S  BY <1>0, ParsedDef DEF Grown
<1>2. ASSUME NEW n \in 0..N, n \in S, n # N  PROVE n + 1 \in S
      <2>1. n + 1 \in 1..N /\ Order[n + 1] \in Element
            BY <1>2, ParseAssumption DEF Element
      <2>2. \/ Parsed(found)[n + 1] = Parsed(found)[n]
            \/ Parsed(found)[n + 1] = ParseElement(Parsed(found)[n], Order[n + 1])
            BY <2>1, ParsedDef
      <2> QED BY <1>2, <2>1, <2>2, ElementTypes DEF Grown
<1>3. \A n \in 0..N : n \in S
      <2> HIDE DEF S, N
      <2> QED BY <1>0, <1>1, <1>2, Upwards
<1> QED BY <1>0, <1>3

\* A validator is made of its form's options, and has all their names.
LEMMA SettingsTypes ==
  ASSUME NEW info, IsInfo(info)
  PROVE  /\ IsInfo(Settings(info)) /\ Settings(info) # Nothing
         /\ DOMAIN Settings(info).rules = DOMAIN info.rules
  BY DEF IsInfo, Settings, Nothing

\* TypeOK, and that the tables have an entry for every form.
Typed == TypeOK /\ Infos(options) /\ Infos(validator)

LEMMA AttachTypes ==
  ASSUME Typed, NEW forms \in SUBSET Form, Attach(forms),
         Infos(options'), Grown(options, options'),
         \A f \in forms : options'[f] # Nothing,
         UNCHANGED <<dom, adapters>>, ready' \in BOOLEAN
  PROVE  Typed'
<1> DEFINE new(f) == Settings(options'[f])
<1>1. \A f \in forms : /\ IsInfo(new(f)) /\ new(f) # Nothing
                       /\ DOMAIN new(f).rules = DOMAIN options'[f].rules
      BY SettingsTypes DEF Infos
<1>2. \A f \in Form :
        validator'[f] = IF f \in forms /\ validator[f] = Nothing
                        THEN new(f) ELSE validator[f]
      BY DEF Attach
<1>3. resets' = [f \in Form |-> IF f \in forms THEN 1 ELSE resets[f]]
      BY DEF Attach
<1>4. validator' = [f \in Form |-> validator'[f]]  BY <1>2 DEF Attach
<1> HIDE DEF new
<1>5. Infos(validator')  BY <1>1, <1>2, <1>4 DEF Infos, Typed
<1>6. ASSUME NEW f \in Form, validator'[f] # Nothing
      PROVE  /\ resets'[f] = 1 /\ options'[f] # Nothing
             /\ DOMAIN validator'[f].rules \subseteq DOMAIN options'[f].rules
      BY <1>1, <1>2, <1>3, <1>6 DEF Typed, TypeOK, Grown
<1>7. resets' \in [Form -> 0..1]  BY <1>3 DEF Typed, TypeOK
<1> QED BY <1>5, <1>6, <1>7 DEF Typed, TypeOK, Infos

LEMMA SelectedTypes ==
  ASSUME Typed, NEW found, NEW forms \in SUBSET Form,
         ParseSelected(found, forms), UNCHANGED <<dom, adapters>>, ready' \in BOOLEAN
  PROVE  Typed'
<1> DEFINE parsed == Parsed(found)[Len(Order)]
           attached == {f \in forms : \E e \in dom : FormOf[e] = f /\ Marked(e)}
<1>1. Infos(parsed) /\ Grown(options, parsed)  BY ParsedTypes DEF Typed
<1>2. options' = [f \in Form |-> IF f \in attached THEN ValidationInfo(parsed[f])
                                 ELSE parsed[f]]
      BY DEF ParseSelected
<1>3. Attach(attached) /\ attached \in SUBSET Form  BY DEF ParseSelected
<1>4. IsInfo(NoRules) /\ NoRules # Nothing
      BY DEF IsInfo, NoRules, Nothing
<1> HIDE DEF parsed, attached
<1>5. Infos(options') /\ Grown(options, options')
      BY <1>1, <1>2, <1>4 DEF Infos, Grown, ValidationInfo
<1>6. \A f \in attached : options'[f] # Nothing
      BY <1>2, <1>3, <1>4 DEF ValidationInfo
<1> QED BY <1>3, <1>5, <1>6, AttachTypes

LEMMA TypedStep ==
  ASSUME Typed, [Next]_vars  PROVE Typed'
<1>1. CASE UNCHANGED vars
      BY <1>1 DEF vars, Typed, TypeOK, Infos
<1>2. CASE Ready \/ ParseAgain
      BY <1>2, SelectedTypes DEF Ready, ParseAgain, ParseDocument, Typed, TypeOK
<1>3. ASSUME NEW f \in Form, ParseForm(f)  PROVE Typed'
      BY <1>3, SelectedTypes DEF ParseForm, Typed, TypeOK
<1>4. ASSUME NEW f \in Form, NEW part, ParsePart(f, part)  PROVE Typed'
      BY <1>4, SelectedTypes DEF ParsePart, Typed, TypeOK
<1>5. ASSUME NEW f \in Form, Destroy(f)  PROVE Typed'
      BY <1>5 DEF Destroy, Typed, TypeOK, Infos
<1>6. ASSUME NEW e \in dom, NEW skipAttach \in BOOLEAN, ParseOne(e, skipAttach)
      PROVE  Typed'
      <2>1. e \in Element /\ FormOf[e] \in Form
            BY <1>6, ParseAssumption DEF ParseOne, Typed, TypeOK
      <2>2. Infos(options') /\ Grown(options, options')
            BY <1>6, <2>1, ElementTypes DEF ParseOne, Typed
      <2>3. options'[FormOf[e]] # Nothing
            BY <1>6, <2>1 DEF ParseOne, ParseElement, Nothing, Typed, Infos
      <2>4. CASE skipAttach
            BY <1>6, <2>2, <2>4
            DEF ParseOne, Typed, TypeOK, Infos, Grown
      <2>5. CASE ~ skipAttach
            BY <1>6, <2>1, <2>2, <2>3, <2>5, AttachTypes DEF ParseOne, Typed, TypeOK
      <2> QED BY <2>4, <2>5
<1>7. ASSUME NEW e \in Element, Insert(e)  PROVE Typed'
      BY <1>7 DEF Insert, Typed, TypeOK, Infos
<1>8. ASSUME NEW a \in Custom, AddAdapter(a)  PROVE Typed'
      <2>1. adapters' \in Seq(Known)
            BY <1>8 DEF AddAdapter, Typed, TypeOK, Known
      <2> QED BY <1>8, <2>1 DEF AddAdapter, Typed, TypeOK, Infos
<1> QED BY <1>1, <1>2, <1>3, <1>4, <1>5, <1>6, <1>7, <1>8 DEF Next

LEMMA TypedCorrect == Spec => []Typed
<1>1. Init => Typed
      <2> SUFFICES ASSUME Init  PROVE Typed  OBVIOUS
      <2>1. adapters \in Seq(Known)
            BY BuiltInKinds DEF Init, Known
      <2>2. \A f \in Form : options[f] = Nothing /\ validator[f] = Nothing
            BY DEF Init
      <2>3. Infos(options) /\ Infos(validator)
            BY <2>2 DEF Init, Infos
      <2>4. dom \subseteq Element /\ ready \in BOOLEAN
            BY Zenon, ParseAssumption DEF Init
      <2>5. resets \in [Form -> 0..1]
            BY DEF Init
      <2> QED BY <2>1, <2>2, <2>3, <2>4, <2>5 DEF Typed, TypeOK
<1>2. Typed /\ [Next]_vars => Typed'  BY TypedStep
<1> QED BY <1>1, <1>2, PTL DEF Spec

\* Every reachable state is well-typed: a form has one reset handler from its
\* first attachment on, and its validator only has names that were parsed.
THEOREM ParseTypeCorrect == Spec => []TypeOK
<1>1. Typed => TypeOK  BY DEF Typed
<1> QED BY <1>1, TypedCorrect, PTL

\* No adapter drops a rule of another one: an element has every rule its
\* attributes ask for, with the value of the last adapter that gives it.
THEOREM CompleteCorrect == Spec => []RulesComplete
<1>1. Typed => RulesComplete  BY RulesFollow DEF Typed, TypeOK
<1> QED BY <1>1, TypedCorrect, PTL

--------------------------------------------------------------------------
\* The first parse.

\* Within a form, the names of the elements that are validated differ.
OneFieldPerName ==
  \A d, e \in {x \in Element : Marked(x) /\ FormOf[x] \in Form} :
    (FormOf[d] = FormOf[e] /\ NameOf[d] = NameOf[e]) => d = e

\* The options have the rules an element asks for.
Keeps(o, e) ==
  LET info == o[FormOf[e]] IN
  /\ info # Nothing /\ NameOf[e] \in DOMAIN info.rules
  /\ info.rules[NameOf[e]] = RulesOf(e).rules

LEMMA ElementKept ==
  ASSUME OneFieldPerName, NEW o, Infos(o), NEW e \in Element, Marked(e),
         NEW d \in Element, Marked(d), FormOf[d] \in Form,
         d = e \/ Keeps(o, d)
  PROVE  Keeps(ParseElement(o, e), d)
<1> DEFINE f == FormOf[e]
           info == ValidationInfo(o[f])
           new == [rules |-> Put(info.rules, NameOf[e], RulesOf(e).rules),
                   messages |-> Put(info.messages, NameOf[e], RulesOf(e).messages)]
<1>1. CASE f = None
      BY <1>1, ParseAssumption DEF ParseElement
<1>2. CASE f # None
      <2>1. f \in Form  BY <1>2, ParseAssumption
      <2>2. ParseElement(o, e) = [o EXCEPT ![f] = new]
            BY <1>2 DEF ParseElement
      <2>3. new # Nothing  BY DEF Nothing
      <2>4. /\ NameOf[e] \in DOMAIN new.rules
            /\ new.rules[NameOf[e]] = RulesOf(e).rules
            /\ \A n \in DOMAIN info.rules \ {NameOf[e]} :
                 n \in DOMAIN new.rules /\ new.rules[n] = info.rules[n]
            BY DEF Put
      <2>5. d # e => FormOf[d] # f \/ NameOf[d] # NameOf[e]
            BY <2>1 DEF OneFieldPerName
      <2>6. o[f] # Nothing => info = o[f]  BY DEF ValidationInfo
      <2> DEFINE p == ParseElement(o, e)
      <2> HIDE DEF new, info
      <2>7. p[f] = new /\ \A g \in Form \ {f} : p[g] = o[g]
            BY <2>1, <2>2 DEF Infos
      <2> HIDE DEF f, p
      <2>8. CASE d = e
            BY <2>3, <2>4, <2>7, <2>8 DEF Keeps, f, p
      <2>9. CASE d # e /\ FormOf[d] = f
            BY <2>3, <2>4, <2>5, <2>6, <2>7, <2>9 DEF Keeps, p
      <2>10. CASE d # e /\ FormOf[d] # f
            BY <2>7, <2>10 DEF Keeps, p
      <2> QED BY <2>8, <2>9, <2>10
<1> QED BY <1>1, <1>2

LEMMA ParsedKept ==
  ASSUME OneFieldPerName, Infos(options), NEW found, NEW e \in found \cap Element,
         Marked(e), FormOf[e] \in Form
  PROVE  Keeps(Parsed(found)[Len(Order)], e)
<1> DEFINE N == Len(Order)
           S == {n \in 0..N : /\ Infos(Parsed(found)[n])
                             /\ \A i \in 1..n : Order[i] = e => Keeps(Parsed(found)[n], e)}
<1>0. N \in Nat  BY ParseAssumption
<1>1. 0 \in S  BY <1>0, ParsedDef
<1>2. ASSUME NEW n \in 0..N, n \in S, n # N  PROVE n + 1 \in S
      <2> DEFINE d == Order[n + 1]
                 old == Parsed(found)[n]
                 new == Parsed(found)[n + 1]
      <2>1. n + 1 \in 1..N /\ d \in Element
            BY <1>2, ParseAssumption DEF Element
      <2>2. Infos(old) /\ \A i \in 1..n : Order[i] = e => Keeps(old, e)
            BY <1>2
      <2>3. CASE d \in found /\ Marked(d)
            <3>1. new = ParseElement(old, d)  BY <2>1, <2>3, ParsedDef
            <3>2. Infos(new)  BY <2>1, <2>2, <3>1, ElementTypes
            <3>3. d = e \/ Keeps(old, e) => Keeps(new, e)
                  BY <2>1, <2>2, <2>3, <3>1, ElementKept
            <3> HIDE DEF old, new
            <3> QED BY <2>1, <2>2, <3>2, <3>3 DEF new
      <2>4. CASE ~ (d \in found /\ Marked(d))
            <3>1. new = old  BY <2>1, <2>4, ParsedDef
            <3>2. d # e  BY <2>4
            <3> QED BY <2>1, <2>2, <3>1, <3>2
      <2> QED BY <2>3, <2>4
<1>3. \A n \in 0..N : n \in S
      <2> HIDE DEF S, N
      <2> QED BY <1>0, <1>1, <1>2, Upwards
<1>4. PICK i \in 1..N : Order[i] = e  BY ParseAssumption DEF Element
<1> QED BY <1>0, <1>3, <1>4

LEMMA SelectionCovers ==
  ASSUME OneFieldPerName, Typed, NEW found, NEW forms \in SUBSET Form,
         ParseSelected(found, forms),
         NEW f \in forms, InForm(f) \subseteq found, validator[f] = Nothing,
         NEW m \in InForm(f), Marked(m)
  PROVE  validator'[f] # Nothing /\ Validated(f, validator'[f])
<1> DEFINE parsed == Parsed(found)[Len(Order)]
           attached == {g \in forms : \E e \in dom : FormOf[e] = g /\ Marked(e)}
<1>1. options' = [g \in Form |-> IF g \in attached THEN ValidationInfo(parsed[g])
                                 ELSE parsed[g]]
      BY DEF ParseSelected
<1>2. Attach(attached)  BY DEF ParseSelected
<1>3. f \in attached  BY DEF InForm
<1>4. validator'[f] = Settings(options'[f])  BY <1>2, <1>3 DEF Attach
<1>5. \A e \in InForm(f) : Marked(e) => Keeps(parsed, e)
      <2> TAKE e \in InForm(f)
      <2>1. e \in found \cap Element /\ FormOf[e] = f
            BY DEF InForm, Typed, TypeOK
      <2> QED BY <2>1, ParsedKept DEF Typed
<1> HIDE DEF parsed, attached
<1>6. \A e \in InForm(f) : FormOf[e] = f  BY DEF InForm
<1>7. parsed[f] # Nothing  BY <1>5, <1>6 DEF Keeps
<1>8. validator'[f] = Settings(parsed[f])
      BY <1>1, <1>3, <1>4, <1>7 DEF ValidationInfo
<1>9. ASSUME NEW e \in InForm(f), Marked(e)
      PROVE  /\ NameOf[e] \in DOMAIN validator'[f].rules
             /\ Wanted(e) \subseteq DOMAIN validator'[f].rules[NameOf[e]]
      BY <1>5, <1>6, <1>8, <1>9 DEF Keeps, Settings, Defined, Wanted
<1>10. Settings(parsed[f]) # Nothing  BY DEF Settings, Nothing
<1> QED BY <1>8, <1>9, <1>10 DEF Validated, Checked

\* Where names differ, the first parse that reaches a form and covers it makes
\* a validator that checks everything the form's attributes ask for, whatever
\* was parsed, inserted, registered or destroyed before.
THEOREM CoverCorrect == OneFieldPerName => (Spec => FirstParseCovers)
<1> SUFFICES ASSUME OneFieldPerName  PROVE Spec => FirstParseCovers  OBVIOUS
<1> DEFINE Covers ==
             \A f \in Form :
               /\ validator[f] = Nothing
               /\ \E e \in InForm(f) : Marked(e)
               /\ ParseDocument \/ ParseForm(f)
               => validator'[f] # Nothing /\ Validated(f, validator'[f])
<1>1. Typed => Covers
      BY SelectionCovers DEF ParseDocument, ParseForm, InForm
<1>2. Typed /\ [Next]_vars => [Covers]_vars  BY <1>1
<1> HIDE DEF Covers
<1>3. Spec => [][Covers]_vars  BY <1>2, TypedCorrect, PTL DEF Spec
<1> QED BY <1>3 DEF Covers, FirstParseCovers

--------------------------------------------------------------------------
\* Fields of other fields' rules.

\* The helpers render the name of another field as "*." and the name of a
\* property of the same model, which has a field in the form; and the page's
\* own adapters make none of the rules that name fields.
ModelField == {<<"*", p>> : p \in Part}
ModelFields ==
  /\ \A e \in Element :
       /\ <<"equalto">> \in DOMAIN Attrs[e] =>
            /\ <<"equalto", "other">> \in DOMAIN Attrs[e]
            /\ Attrs[e][<<"equalto", "other">>] \in ModelField
       /\ <<"remote", "additionalfields">> \in DOMAIN Attrs[e] =>
            \A n \in Attrs[e][<<"remote", "additionalfields">>] :
              /\ n \in ModelField
              /\ \E d \in Element :
                   /\ FormOf[d] = FormOf[e]
                   /\ NameOf[d] = AppendModelPrefix(n, GetModelPrefix(NameOf[e]))
  /\ \A a \in Custom : Writes(a) \cap {"equalTo", "remote"} = {}

LEMMA PrefixKept ==
  ASSUME NEW name \in Seq(Part), NEW n \in ModelField
  PROVE  SameModel(name, AppendModelPrefix(n, GetModelPrefix(name)))
<1> DEFINE prefix == GetModelPrefix(name)
<1>1. prefix \in Seq(Part)  BY DEF GetModelPrefix
<1>2. PICK p \in Part : n = <<"*", p>>  BY DEF ModelField
<1>3. AppendModelPrefix(n, prefix) = prefix \o <<p>>
      BY <1>1, <1>2 DEF AppendModelPrefix
<1> HIDE DEF prefix
<1>4. GetModelPrefix(prefix \o <<p>>) = prefix
      BY <1>1 DEF GetModelPrefix
<1> QED BY <1>3, <1>4 DEF SameModel, prefix

LEMMA FieldFound ==
  ASSUME NEW f, NEW name, FindField(f, name) # Undefined
  PROVE  FormOf[FindField(f, name)] = f /\ NameOf[FindField(f, name)] = name
<1> DEFINE places == {i \in DOMAIN Order : /\ Order[i] \in dom /\ FormOf[Order[i]] = f
                                          /\ NameOf[Order[i]] = name}
<1>1. places # {}  BY DEF FindField, FirstAt
<1>2. places \subseteq Nat  BY ParseAssumption
<1>3. \E i \in places : \A j \in places : i <= j
      <2> HIDE DEF places
      <2> QED BY <1>1, <1>2, Least
<1>4. PICK i \in places : FindField(f, name) = Order[i]
      BY <1>1, <1>3 DEF FindField, FirstAt
<1> QED BY <1>4

\* The rules of a field name fields of its form and model only.
Within(f, n, rules) ==
  /\ "equalTo" \in DOMAIN rules =>
       \/ rules["equalTo"] = Undefined
       \/ FormOf[rules["equalTo"]] = f /\ SameModel(n, NameOf[rules["equalTo"]])
  /\ "remote" \in DOMAIN rules =>
       \A m \in rules["remote"].data :
         SameModel(n, m) /\ \E d \in Element : FormOf[d] = f /\ NameOf[d] = m

LEMMA AdapterWithin ==
  ASSUME ModelFields, NEW e \in Element, NEW a \in Known, Applies(a, e)
  PROVE  Within(FormOf[e], NameOf[e], RulesBy(a, e))
<1> DEFINE P(p) == Param(e, a, p)
           Set(t, r, v) == SetValidationValues(t, r, v, Attrs[e][<<a.name>>])
           SetGiven(t, r, v) == IF Given(v) THEN Set(t, r, v) ELSE t
           prefix == GetModelPrefix(NameOf[e])
           Free == DOMAIN RulesBy(a, e) \cap {"equalTo", "remote"} = {}
<1>1. Free => Within(FormOf[e], NameOf[e], RulesBy(a, e))
      BY DEF Within
<1>2. \/ a.kind \in Made /\ Writes(a) \cap {"equalTo", "remote"} = {}
      \/ a.kind \in Special /\ a = Add(a.kind)
      BY Kinds, BuiltInKinds DEF ModelFields, Known, Plain, Add
<1>3. CASE a.kind \in {"bool", "single"}
      <2>1. PICK v : Adapt(a, e, NoRules) = Set(NoRules, a.rule, v)
            BY <1>3 DEF Adapt
      <2>2. a.rule \notin {"equalTo", "remote"}
            BY <1>2, <1>3 DEF Writes, Special
      <2>3. Free  BY <2>1, <2>2, SetRule, NoRule DEF RulesBy
      <2> QED BY <1>1, <2>3
<1>4. CASE a.kind = "minmax"
      <2>1. Adapt(a, e, NoRules) =
              IF Given(P("min")) /\ Given(P("max"))
              THEN Set(NoRules, a.both, <<P("min"), P("max")>>)
              ELSE SetGiven(SetGiven(NoRules, a.min, P("min")), a.max, P("max"))
            BY <1>4 DEF Adapt
      <2>2. {a.min, a.max, a.both} \cap {"equalTo", "remote"} = {}
            BY <1>2, <1>4 DEF Writes, Special
      <2> HIDE DEF P
      <2>3. CASE Given(P("min")) /\ Given(P("max"))
            <3>1. DOMAIN RulesBy(a, e) = {a.both}
                  BY <2>1, <2>3, SetRule, NoRule DEF RulesBy
            <3> QED BY <1>1, <2>2, <3>1
      <2>4. CASE ~ (Given(P("min")) /\ Given(P("max")))
            <3>1. DOMAIN RulesBy(a, e) \subseteq {a.min, a.max}
                  BY <2>1, <2>4, SetRule, NoRule DEF RulesBy
            <3> QED BY <1>1, <2>2, <3>1
      <2> QED BY <2>3, <2>4
<1>5. CASE a.kind = "equalto"
      <2> DEFINE other == Attrs[e][<<"equalto", "other">>]
                 field == FindField(FormOf[e], AppendModelPrefix(other, prefix))
      <2>1. a.name = "equalto"  BY <1>2, <1>5 DEF Made, Add
      <2>2. <<"equalto", "other">> \in DOMAIN Attrs[e] /\ other \in ModelField
            BY <2>1 DEF Applies, ModelFields
      <2>3. P("other") = other  BY <2>1, <2>2 DEF Param
      <2>4. Adapt(a, e, NoRules) =
              Set(NoRules, "equalTo",
                  FindField(FormOf[e], AppendModelPrefix(P("other"), prefix)))
            BY <1>5 DEF Adapt
      <2> HIDE DEF P
      <2>5. Adapt(a, e, NoRules) = Set(NoRules, "equalTo", field)
            BY <2>3, <2>4
      <2>6. field = Undefined \/ /\ FormOf[field] = FormOf[e]
                                 /\ SameModel(NameOf[e], NameOf[field])
            BY <2>2, FieldFound, PrefixKept, ParseAssumption
      <2> HIDE DEF field
      <2>7. DOMAIN RulesBy(a, e) = {"equalTo"} /\ RulesBy(a, e)["equalTo"] = field
            BY <2>5, SetRule, NoRule DEF RulesBy
      <2> QED BY <2>6, <2>7 DEF Within
<1>6. CASE a.kind = "required"
      <2>1. PICK v : Adapt(a, e, NoRules) = IF e \in Checkbox THEN NoRules
                                            ELSE Set(NoRules, "required", v)
            BY <1>6 DEF Adapt
      <2>2. Free  BY <2>1, SetRule, NoRule DEF RulesBy
      <2> QED BY <1>1, <2>2
<1>7. CASE a.kind = "remote"
      <2> DEFINE data == RemoteFields(e, P("additionalfields"))
      <2>1. a.name = "remote"  BY <1>2, <1>7 DEF Made, Add
      <2>2. \A m \in data : /\ SameModel(NameOf[e], m)
                            /\ \E d \in Element : FormOf[d] = FormOf[e] /\ NameOf[d] = m
            BY <2>1, PrefixKept, ParseAssumption
            DEF Param, RemoteFields, ModelFields, SameModel
      <2> HIDE DEF data
      <2>3. PICK v : v.data = data /\ Adapt(a, e, NoRules) = Set(NoRules, "remote", v)
            BY <1>7 DEF Adapt, data
      <2>4. DOMAIN RulesBy(a, e) = {"remote"} /\ RulesBy(a, e)["remote"] = v
            BY <2>3, SetRule, NoRule DEF RulesBy
      <2> QED BY <2>2, <2>3, <2>4 DEF Within
<1>8. CASE a.kind = "password"
      <2>1. Adapt(a, e, NoRules) =
              SetGiven(SetGiven(SetGiven(NoRules, "minlength", P("min")),
                                "nonalphamin", P("nonalphamin")),
                       "regex", P("regex"))
            BY <1>8 DEF Adapt
      <2> HIDE DEF P
      <2>2. Free  BY <2>1, SetRule, NoRule DEF RulesBy
      <2> QED BY <1>1, <2>2
<1>9. CASE a.kind = "fileextensions"
      <2>1. PICK v : Adapt(a, e, NoRules) = Set(NoRules, "extension", v)
            BY <1>9 DEF Adapt
      <2>2. Free  BY <2>1, SetRule, NoRule DEF RulesBy
      <2> QED BY <1>1, <2>2
<1> QED BY <1>2, <1>3, <1>4, <1>5, <1>6, <1>7, <1>8, <1>9 DEF Made, Special

LEMMA RulesWithin ==
  ASSUME ModelFields, adapters \in Seq(Known), NEW e \in Element
  PROVE  Within(FormOf[e], NameOf[e], RulesOf(e).rules)
<1> DEFINE N == Len(adapters)
           W(rules) == Within(FormOf[e], NameOf[e], rules)
           S == {n \in 0..N : W(Adapted(e)[n].rules)}
<1>0. N \in Nat  OBVIOUS
<1>1. 0 \in S
      <2>1. Adapted(e)[0] = NoRules  BY <1>0, AdaptedDef
      <2> QED BY <1>0, <2>1, NoRule DEF Within
<1>2. ASSUME NEW n \in 0..N, n \in S, n # N  PROVE n + 1 \in S
      <2> DEFINE a == adapters[n + 1]
                 old == Adapted(e)[n]
                 new == Adapted(e)[n + 1]
      <2>1. n + 1 \in 1..N /\ a \in Known  BY <1>2
      <2>2. W(old.rules)  BY <1>2
      <2>3. CASE ~ Applies(a, e)
            <3>1. new = old  BY <2>1, <2>3, AdaptedDef
            <3> QED BY <2>1, <2>2, <3>1
      <2>4. CASE Applies(a, e)
            <3>1. new = Adapt(a, e, old)  BY <2>1, <2>4, AdaptedDef
            <3>2. W(RulesBy(a, e))  BY <2>1, <2>4, AdapterWithin
            <3> HIDE DEF a, old
            <3>3. W(Adapt(a, e, old).rules)
                  BY <2>1, <2>2, <3>2, AdaptKeeps DEF Within
            <3> QED BY <2>1, <3>1, <3>3
      <2> QED BY <2>3, <2>4
<1>3. \A n \in 0..N : n \in S
      <2> HIDE DEF S, N
      <2> QED BY <1>0, <1>1, <1>2, Upwards
<1>4. W(Adapted(e)[N].rules)  BY <1>0, <1>3
<1> QED BY <1>4 DEF RulesOf, Put, Within

\* Options of forms whose rules stay within them.
InfosWithin(o) ==
  \A f \in Form : o[f] # Nothing =>
    \A n \in DOMAIN o[f].rules : Within(f, n, o[f].rules[n])

LEMMA ElementWithin ==
  ASSUME ModelFields, adapters \in Seq(Known), NEW e \in Element,
         NEW o, Infos(o), InfosWithin(o)
  PROVE  InfosWithin(ParseElement(o, e))
<1> DEFINE f == FormOf[e]
           info == ValidationInfo(o[f])
           new == [rules |-> Put(info.rules, NameOf[e], RulesOf(e).rules),
                   messages |-> Put(info.messages, NameOf[e], RulesOf(e).messages)]
<1>1. CASE f = None  BY <1>1 DEF ParseElement
<1>2. CASE f # None
      <2>1. f \in Form  BY <1>2, ParseAssumption
      <2>2. ParseElement(o, e) = [o EXCEPT ![f] = new]
            BY <1>2 DEF ParseElement
      <2>3. \A n \in DOMAIN info.rules : Within(f, n, info.rules[n])
            BY <2>1, NoRule DEF ValidationInfo, InfosWithin
      <2>4. Within(f, NameOf[e], RulesOf(e).rules)  BY RulesWithin
      <2>5. \A n \in DOMAIN new.rules : Within(f, n, new.rules[n])
            <3> HIDE DEF info
            <3> QED BY <2>3, <2>4 DEF Put
      <2> HIDE DEF new, info, f
      <2> QED BY <2>1, <2>2, <2>5 DEF Infos, InfosWithin
<1> QED BY <1>1, <1>2

LEMMA ParsedWithin ==
  ASSUME ModelFields, adapters \in Seq(Known), Infos(options), InfosWithin(options),
         NEW found
  PROVE  InfosWithin(Parsed(found)[Len(Order)])
<1> DEFINE N == Len(Order)
           S == {n \in 0..N : /\ Infos(Parsed(found)[n])
                             /\ InfosWithin(Parsed(found)[n])}
<1>0. N \in Nat  BY ParseAssumption
<1>1. 0 \in S  BY <1>0, ParsedDef
<1>2. ASSUME NEW n \in 0..N, n \in S, n # N  PROVE n + 1 \in S
      <2>1. n + 1 \in 1..N /\ Order[n + 1] \in Element
            BY <1>2, ParseAssumption DEF Element
      <2>2. \/ Parsed(found)[n + 1] = Parsed(found)[n]
            \/ Parsed(found)[n + 1] = ParseElement(Parsed(found)[n], Order[n + 1])
            BY <2>1, ParsedDef
      <2> QED BY <1>2, <2>1, <2>2, ElementTypes, ElementWithin
<1>3. \A n \in 0..N : n \in S
      <2> HIDE DEF S, N
      <2> QED BY <1>0, <1>1, <1>2, Upwards
<1> QED BY <1>0, <1>3

\* The options, and the validators made of them.
WithinInv == InfosWithin(options) /\ RulesStayInForm

LEMMA AttachWithin ==
  ASSUME WithinInv, NEW forms \in SUBSET Form, Attach(forms),
         InfosWithin(options'), \A f \in forms : options'[f] # Nothing
  PROVE  WithinInv'
<1> SUFFICES ASSUME NEW f \in Form, validator'[f] # Nothing,
                    NEW n \in DOMAIN validator'[f].rules
             PROVE  LET rules == validator'[f].rules[n]
                    IN /\ "equalTo" \in DOMAIN rules =>
                            /\ FormOf[rules["equalTo"]] = f
                            /\ SameModel(n, NameOf[rules["equalTo"]])
                       /\ "remote" \in DOMAIN rules =>
                            \A m \in rules["remote"].data :
                              /\ SameModel(n, m)
                              /\ \E e \in Element : FormOf[e] = f /\ NameOf[e] = m
    BY DEF WithinInv, RulesStayInForm
<1>1. CASE f \in forms /\ validator[f] = Nothing
      <2>1. validator'[f] = Settings(options'[f])  BY <1>1 DEF Attach
      <2> DEFINE old == options'[f].rules[n]
      <2>2. Within(f, n, old) /\ validator'[f].rules[n] = Defined(old)
            BY <1>1, <2>1 DEF InfosWithin, Settings
      <2> HIDE DEF old
      <2> QED BY <2>2 DEF Defined, Within
<1>2. CASE ~ (f \in forms /\ validator[f] = Nothing)
      <2>1. validator'[f] = validator[f]  BY <1>2 DEF Attach
      <2> QED BY <2>1 DEF WithinInv, RulesStayInForm
<1> QED BY <1>1, <1>2

LEMMA SelectedWithin ==
  ASSUME ModelFields, Typed, WithinInv, NEW found, NEW forms \in SUBSET Form,
         ParseSelected(found, forms)
  PROVE  WithinInv'
<1> DEFINE parsed == Parsed(found)[Len(Order)]
           attached == {f \in forms : \E e \in dom : FormOf[e] = f /\ Marked(e)}
<1>1. InfosWithin(parsed)
      BY ParsedWithin DEF Typed, TypeOK, WithinInv
<1>2. options' = [f \in Form |-> IF f \in attached THEN ValidationInfo(parsed[f])
                                 ELSE parsed[f]]
      BY DEF ParseSelected
<1>3. Attach(attached) /\ attached \in SUBSET Form  BY DEF ParseSelected
<1>4. NoRules # Nothing  BY DEF NoRules, Nothing
<1> HIDE DEF parsed, attached
<1>5. InfosWithin(options')
      BY <1>1, <1>2, NoRule DEF InfosWithin, ValidationInfo
<1>6. \A f \in attached : options'[f] # Nothing
      BY <1>2, <1>3, <1>4 DEF ValidationInfo
<1> QED BY <1>3, <1>5, <1>6, AttachWithin

LEMMA WithinStep ==
  ASSUME ModelFields, Typed, WithinInv, [Next]_vars  PROVE WithinInv'
<1> USE DEF WithinInv, RulesStayInForm
<1>1. CASE UNCHANGED vars  BY <1>1 DEF vars, InfosWithin
<1>2. CASE Ready \/ ParseAgain
      BY <1>2, SelectedWithin DEF Ready, ParseAgain, ParseDocument
<1>3. ASSUME NEW f \in Form, ParseForm(f)  PROVE WithinInv'
      BY <1>3, SelectedWithin DEF ParseForm
<1>4. ASSUME NEW f \in Form, NEW part, ParsePart(f, part)  PROVE WithinInv'
      BY <1>4, SelectedWithin DEF ParsePart
<1>5. ASSUME NEW f \in Form, Destroy(f)  PROVE WithinInv'
      BY <1>5 DEF Destroy, InfosWithin, Typed, Infos
<1>6. ASSUME NEW e \in dom, NEW skipAttach \in BOOLEAN, ParseOne(e, skipAttach)
      PROVE  WithinInv'
      <2>1. e \in Element /\ FormOf[e] \in Form
            BY <1>6, ParseAssumption DEF ParseOne, Typed, TypeOK
      <2>2. InfosWithin(options')
            BY <1>6, <2>1, ElementWithin DEF ParseOne, Typed, TypeOK
      <2>3. options'[FormOf[e]] # Nothing
            BY <1>6, <2>1 DEF ParseOne, ParseElement, Nothing, Typed, Infos
      <2>4. CASE skipAttach
            BY <1>6, <2>2, <2>4 DEF ParseOne
      <2>5. CASE ~ skipAttach
            BY <1>6, <2>1, <2>2, <2>3, <2>5, AttachWithin DEF ParseOne
      <2> QED BY <2>4, <2>5
<1>7. CASE (\E e \in Element : Insert(e)) \/ (\E a \in Custom : AddAdapter(a))
      BY <1>7 DEF Insert, AddAdapter, InfosWithin
<1> QED BY <1>1, <1>2, <1>3, <1>4, <1>5, <1>6, <1>7 DEF Next

\* Where the attributes are as the MVC helpers render them, the field an equalto
\* rule compares with, and those a remote rule sends, are of the form and of the
\* model of the element, also where another form has fields of the same names.
THEOREM WithinCorrect == ModelFields => (Spec => []RulesStayInForm)
<1> SUFFICES ASSUME ModelFields  PROVE Spec => []RulesStayInForm  OBVIOUS
<1>1. Init => WithinInv
      BY DEF Init, WithinInv, InfosWithin, RulesStayInForm
<1>2. Typed /\ WithinInv /\ [Next]_vars => WithinInv'  BY WithinStep
<1>3. WithinInv => RulesStayInForm  BY DEF WithinInv
<1> QED BY <1>1, <1>2, <1>3, TypedCorrect, PTL DEF Spec

=============================================================================
