-------------------------- MODULE MCUnobtrusiveParse --------------------------
(***************************************************************************)
(* A page with a registration form, as the MVC helpers render it, and a    *)
(* sign-in form without rules whose password has the same name.  The mail  *)
(* field and the registration's password come to the page later.           *)
(***************************************************************************)
EXTENDS UnobtrusiveParse, SequencesExt

CONSTANTS
  register, login,
  password, confirm, mail, terms, pin

MCForm == {register, login}
MCOrder == <<pin, password, confirm, mail, terms>>
MCFormOf ==
  [e \in ToSet(MCOrder) |->
     IF e = pin THEN login ELSE register]
MCPart == {"*", "Account", "Password", "Confirm", "Mail", "Terms"}
MCNameOf ==
  [e \in ToSet(MCOrder) |->
     CASE e = password -> <<"Account", "Password">>
       [] e = confirm -> <<"Account", "Confirm">>
       [] e = mail -> <<"Account", "Mail">>
       [] e = terms -> <<"Terms">>
       [] e = pin -> <<"Account", "Password">>]

DataVal == <<>> :> "true"
Required == <<"required">> :> "is required"
MCAttrs ==
  [e \in ToSet(MCOrder) |->
     CASE e = password ->
            DataVal @@ Required @@ <<"length">> :> "is too short or long"
            @@ <<"length", "min">> :> "6" @@ <<"length", "max">> :> "20"
            @@ <<"password">> :> "" @@ <<"password", "min">> :> "8"
            @@ <<"minlength">> :> "is too short" @@ <<"minlength", "min">> :> "6"
       [] e = confirm ->
            DataVal @@ <<"equalto">> :> "must match"
            @@ <<"equalto", "other">> :> <<"*", "Password">>
       [] e = mail ->
            DataVal @@ <<"remote">> :> "is taken" @@ <<"remote", "url">> :> "/check"
            @@ <<"remote", "additionalfields">>
                 :> {<<"*", "Mail">>, <<"*", "Confirm">>}
            @@ <<"maxlength">> :> "is too long" @@ <<"maxlength", "max">> :> "9"
       [] e = terms -> DataVal @@ Required @@ <<"mandatory">> :> "is mandatory"
       [] e = pin -> Nothing]

MCCheckbox == {terms}
MCServed == {pin, confirm, terms}
\* jQuery Validate calls required on a checkbox mandatory.
MCCustom == {AddBool("mandatory", "required")}
=============================================================================
