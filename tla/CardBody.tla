------------------------------- MODULE CardBody -------------------------------
(***************************************************************************)
(* What the body of a POST or PATCH of a card may be: the validators of    *)
(* ConnectorWrite (api/connectors/schemas.py), the row that is written,    *)
(* and the constraints it meets (0001_initial_schema.py).  No state.       *)
(*                                                                         *)
(* A text is Null, "" (nothing), " " (nothing but spaces) or has content,  *)
(* spaces around it included; a tag is a record of what lower() and        *)
(* strip() make of it and of whether that fits TAG_PATTERN.                *)
(***************************************************************************)
EXTENDS SequencesExt

Null == "null"

Strip(text) == IF text = " " THEN "" ELSE text

(* Python's truth value of an optional text *)
Truthy(text) == text \notin {Null, ""}

(* _strip_scope_id *)
StripScopeId(text) == IF Truthy(text) THEN Strip(text) ELSE Null

(* _normalize_tags: refused if one does not fit, else each once, in order. *)
TagsFit(raw) == \A tag \in Range(raw) : tag.fits
AddTag(seen, text) == IF Contains(seen, text) THEN seen ELSE Append(seen, text)
NormalizeTags(raw) ==
    LET seen[n \in 0 .. Len(raw)] ==
          IF n = 0 THEN <<>> ELSE AddTag(seen[n - 1], raw[n].text)
    IN  seen[Len(raw)]

(* The body as validated by pydantic *)
Validated(body) == [body EXCEPT !.scopeId = StripScopeId(@), !.tags = NormalizeTags(@)]

(* check_consistency *)
Consistent(body) ==
    /\ body.scopeType = "global" => ~Truthy(body.scopeId)
    /\ body.scopeType = "team" => Truthy(body.scopeId)
    /\ body.transport => body.endpoint

(* The request gets as far as the database. *)
AcceptedBody(body) == TagsFit(body.tags) /\ Consistent(Validated(body))

(* connectors_scope_consistency *)
ScopeConsistency(row) ==
    \/ row.scopeType = "global" /\ row.scopeId = Null
    \/ row.scopeType = "team" /\ row.scopeId # Null

(* connectors_endpoint_anchor *)
EndpointAnchor(row) == row.transport => row.endpoint

(* The primary keys of connector_tags and connector_visibility_teams *)
RowsDistinct(row) == IsInjective(row.tags) /\ IsInjective(row.teams)

Stored(row) == ScopeConsistency(row) /\ EndpointAnchor(row) /\ RowsDistinct(row)
=============================================================================
