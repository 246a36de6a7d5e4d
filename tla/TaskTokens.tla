------------------------------- MODULE TaskTokens --------------------------------
(***************************************************************************)
(* Task tokens.  Three pieces of code have their own idea of what is in    *)
(* one: Matching answers a poll with a JSON object, Frontend gives workers *)
(* another, base64-encoded, and History unmarshals what a heartbeat        *)
(* carries.  A JSON object is a function from its field names; a field it  *)
(* lacks reads as the empty string.                                        *)
(***************************************************************************)
CONSTANTS EmptyId      \* the empty string, as an id

Malformed == [coding |-> "none"]

Field(json, name) == IF name \in DOMAIN json THEN json[name] ELSE EmptyId

\* "omitempty"
Omit(json, name) == [field \in DOMAIN json \ {name} |-> json[field]]

--------------------------------------------------------------------------------
(* matching.go: json.Marshal of a map *)

MatchingToken(workflow, run, activity) ==
  LET json == [workflow_id |-> workflow, run_id |-> run, activity_id |-> activity]
  IN  [coding |-> "json",
       json |-> IF activity = EmptyId THEN Omit(json, "activity_id") ELSE json]

--------------------------------------------------------------------------------
(* frontend/internal/token/token.go: base64 of the JSON of a TaskToken *)

\* Mutant: the json tag of the activity id is mistyped.
EncodeMistyped(workflow, run, activity, attempt) ==
  [coding |-> "base64",
   json |-> [wf_id |-> workflow, run_id |-> run, actid |-> activity, attempt |-> attempt]]

Encode(workflow, run, activity, attempt) ==
  LET json == [wf_id |-> workflow, run_id |-> run, act_id |-> activity, attempt |-> attempt]
  IN  [coding |-> "base64",
       json |-> IF activity = EmptyId THEN Omit(Omit(json, "act_id"), "attempt") ELSE json]

\* Neither the JSON of Matching nor any other JSON object is valid base64.
Decode(raw) ==
  IF raw.coding # "base64" THEN Malformed
  ELSE [workflow |-> Field(raw.json, "wf_id"), run |-> Field(raw.json, "run_id"),
        activity |-> Field(raw.json, "act_id")]

--------------------------------------------------------------------------------
(* history/internal/service/token.go: JSON with the field names of Matching *)

DecodeTaskToken(raw) ==
  IF raw.coding # "json" THEN Malformed
  ELSE LET tok == [workflow |-> Field(raw.json, "workflow_id"),
                   run |-> Field(raw.json, "run_id"),
                   activity |-> Field(raw.json, "activity_id")]
       IN  IF EmptyId \in {tok.workflow, tok.run} THEN Malformed ELSE tok
================================================================================
