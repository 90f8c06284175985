----------------------------- MODULE RequestBody -----------------------------
(***************************************************************************)
(* What a request body must not contain, and the prompt it becomes         *)
(* (cursor_cli.go:224-352).  A body is a JSON tree: a string, a list, a    *)
(* map, or another scalar.  Words are compared as strings; of the          *)
(* spellings with capitals Lower knows the ones the instances use.         *)
(***************************************************************************)
EXTENDS Integers, Sequences, SequencesExt

CONSTANTS
  Trees,   \* the JSON values that may occur, with every value inside
  Nesting  \* how deep values are nested in each of them

Str(s) == [str |-> s]
List(l) == [list |-> l]
Map(f) == [map |-> f]
Scalar == [scalar |-> TRUE]

IsStr(v) == "str" \in DOMAIN v
IsList(v) == "list" \in DOMAIN v
IsMap(v) == "map" \in DOMAIN v
Has(v, k) == IsMap(v) /\ k \in DOMAIN v.map
StrAt(v, k) == IF Has(v, k) /\ IsStr(v.map[k]) THEN v.map[k].str ELSE ""

(* strings.ToLower(strings.TrimSpace(w)).                                   *)
Lower(w) == CASE w = "Tools" -> "tools"
              [] w = "Image" -> "image"
              [] OTHER -> w

UnsupportedToolKeys ==
  {"tools", "functions", "tool_choice", "tool_calls", "function_call",
   "tool_use", "tool_result", "server_tool_use", "parallel_tool_calls"}
McpToolWords == {"mcp_tool_use", "mcp_tool_result"}  \* "mcp_tool_" and more
IsToolWord(w) == Lower(w) \in UnsupportedToolKeys \cup McpToolWords

(* The words of the instances that contain "image", "file", "audio",        *)
(* "attachment", "document" or "media", and the MIME types not of text.     *)
MediaWords == {"image", "image_url", "input_image", "document", "input_audio"}
NonTextMimes == {"image/png"}

UnsupportedKeys ==
  {"attachments", "attachment", "image_url", "input_image", "input_file",
   "file", "file_data", "audio", "input_audio"}
TextTypes == {"text", "input_text", "output_text", "message", "system", "user",
              "assistant", "developer"}

(* A textual type ends the tests of a map: its MIME type is not looked at.  *)
UnsupportedContentMap(v) ==
  \/ DOMAIN v.map \cap UnsupportedKeys # {}
  \/ LET type == Lower(StrAt(v, "type")) IN
     /\ type \notin TextTypes
     /\ \/ type \in MediaWords
        \/ StrAt(v, "mime_type") \in NonTextMimes
        \/ StrAt(v, "media_type") \in NonTextMimes

Children(v) == IF IsMap(v) THEN {v.map[k] : k \in DOMAIN v.map}
               ELSE IF IsList(v) THEN {v.list[i] : i \in DOMAIN v.list}
               ELSE {}

(* encoding/json builds finite trees.                                       *)
ASSUME TreesAssumption ==
  /\ Scalar \in Trees
  /\ Nesting \in [Trees -> Nat]
  /\ \A v \in Trees : \A c \in Children(v) :
       c \in Trees /\ Nesting[c] < Nesting[v]
  /\ \A v \in Trees : /\ IsMap(v) => IsFiniteSet(DOMAIN v.map)
                      /\ IsList(v) => v.list \in Seq(Trees)

(* A value is of one kind.                                                  *)
ASSUME KindsAssumption ==
  \A v \in Trees : /\ IsMap(v) => ~IsList(v) /\ ~IsStr(v)
                   /\ IsList(v) => ~IsStr(v)

(* The value and every value inside.                                        *)
Parts[v \in Trees] == {v} \cup UNION {Parts[c] : c \in Children(v)}

FindUnsupportedToolShape[v \in Trees] ==
  \/ IsMap(v) /\ (IsToolWord(StrAt(v, "type")) \/ \E k \in DOMAIN v.map : IsToolWord(k))
  \/ \E c \in Children(v) : FindUnsupportedToolShape[c]

FindUnsupportedContent[v \in Trees] ==
  \/ IsMap(v) /\ UnsupportedContentMap(v)
  \/ \E c \in Children(v) : FindUnsupportedContent[c]

(* The codes of validateRequestPayload for a body that is JSON.             *)
ValidateRequestPayloadTopLevel(v) ==
  IF IsMap(v) /\ \E k \in DOMAIN v.map : IsToolWord(k) THEN "unsupported_tools"
  ELSE IF IsMap(v) /\ UnsupportedContentMap(v) THEN "unsupported_content"
  ELSE "ok"

ValidateRequestPayload(v) ==
  IF FindUnsupportedToolShape[v] THEN "unsupported_tools"
  ELSE IF FindUnsupportedContent[v] THEN "unsupported_content"
  ELSE "ok"

PromptKeys == <<"instructions", "system", "input", "content", "text", "messages">>

(* The texts that collectPrompt appends, in order.  (The role each one is   *)
(* labelled with is left out.)                                              *)
CollectPrompt[v \in Trees] ==
  IF IsMap(v)
  THEN FlattenSeq([i \in DOMAIN PromptKeys |->
                     IF Has(v, PromptKeys[i]) THEN CollectPrompt[v.map[PromptKeys[i]]]
                                              ELSE <<>>])
  ELSE IF IsList(v)
  THEN FlattenSeq([i \in DOMAIN v.list |-> CollectPrompt[v.list[i]]])
  ELSE IF IsStr(v) /\ v.str # "" THEN <<v.str>>
  ELSE <<>>
=============================================================================
