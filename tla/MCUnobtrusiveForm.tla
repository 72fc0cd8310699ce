-------------------------- MODULE MCUnobtrusiveForm --------------------------
(***************************************************************************)
(* A form with two fields the server checks: a required user name, sent    *)
(* with the team, and an optional team, sent alone.                        *)
(***************************************************************************)
EXTENDS UnobtrusiveForm

CONSTANTS user, team

MCField == {user, team}
MCData == [f \in MCField |-> IF f = user THEN {user, team} ELSE {team}]
MCReplace == {user}
MCValue == {"", "a", "b"}
MCBlank == ""
MCRejected == [f \in MCField |-> IF f = user THEN {""} ELSE {}]
MCDefault == [f \in MCField |-> ""]

\* No user is called as the team is, and there is no team "b".
MCAccepts ==
  [f \in MCField |->
     {d \in [MCData[f] -> MCValue] :
        IF f = user THEN d[user] # d[team] ELSE d[team] # "b"}]
=============================================================================
