------------------------------ MODULE MCCardBody ------------------------------
(***************************************************************************)
(* The two sets of rules for a card compared over bounded bodies.  TLC     *)
(* evaluates the assumptions in every run that extends this module.        *)
(***************************************************************************)
EXTENDS CardBody

TeamCodes == {"t1", "t2"}
RawTags == [text : {"x", "y"}, fits : {TRUE}] \cup {[text |-> "?", fits |-> FALSE]}
WriteBodies ==
    [scopeType : {"global", "team"}, scopeId : {Null, "", " ", "t1"},
     endpoint : BOOLEAN, transport : BOOLEAN,
     tags : SeqOf(RawTags, 2), teams : SeqOf(TeamCodes, 2)]

(* "The same rules as the CHECKs" (schemas.py:62-67), all but: what the    *)
(* request check lets through, the database stores, except a global card   *)
(* whose scope_id is blank, and a team listed twice among the visible.     *)
ASSUME SameRulesAlmost ==
    \A body \in WriteBodies : AcceptedBody(body) =>
      (Stored(Validated(body)) <=>
         /\ ~(body.scopeType = "global" /\ body.scopeId = " ")
         /\ IsInjective(body.teams))

(* Nor does it refuse what the database would take, but for a team card    *)
(* with a scope_id of spaces, which would be nobody's.                     *)
ASSUME NothingRefusedInVain ==
    \A body \in WriteBodies :
      TagsFit(body.tags) /\ ~AcceptedBody(body) /\ Stored(Validated(body)) =>
        body.scopeType = "team" /\ body.scopeId = " "

(* Tags that differ in case or spaces only are one, in the first's place   *)
(* (schemas.py:19-20, 43-55).                                                 *)
ASSUME TagsOnce ==
    \A raw \in SeqOf(RawTags, 4) :
      LET tags == NormalizeTags(raw)
          first(text) == CHOOSE n \in DOMAIN raw :
                           raw[n].text = text /\ \A m \in 1 .. n - 1 : raw[m].text # text
      IN  /\ IsInjective(tags)
          /\ Range(tags) = {tag.text : tag \in Range(raw)}
          /\ \A i, j \in DOMAIN tags : i < j => first(tags[i]) < first(tags[j])
=============================================================================
