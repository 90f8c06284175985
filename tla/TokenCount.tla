----------------------------- MODULE TokenCount ------------------------------
(***************************************************************************)
(* Which parts of a Claude request CountTokens hands to the tokenizer      *)
(* (token_count.go).  A segment is the JSON value whose text is counted;   *)
(* how many tokens that is, the tokenizer decides (third-party code).      *)
(***************************************************************************)
EXTENDS RequestBody

Counted(v) == IF IsStr(v) /\ v.str = "" THEN <<>> ELSE <<v>>
FieldSegments(v, keys) ==
  FlattenSeq([i \in DOMAIN keys |->
                IF Has(v, keys[i]) THEN Counted(v.map[keys[i]]) ELSE <<>>])

ToolUses == {"tool_use", "server_tool_use", "mcp_tool_use"}
ToolResults == {"tool_result", "mcp_tool_result", "web_search_tool_result",
                "web_fetch_tool_result", "code_execution_tool_result",
                "bash_code_execution_tool_result",
                "text_editor_code_execution_tool_result"}
SearchResults == {"web_search_result", "search_result"}
CodeResults == {"code_execution_result", "bash_code_execution_result",
                "text_editor_code_execution_result"}
NotCounted == {"image", "input_audio", "audio", "video", "redacted_thinking"}

(* By the type of a content part: the fields counted as they are, and the   *)
(* fields that are content again.                                           *)
Leaves(type) ==
  CASE type = "thinking" -> <<"thinking">>
    [] type \in ToolUses -> <<"id", "name", "input">>
    [] type \in ToolResults -> <<"tool_use_id", "tool_call_id">>
    [] type \in SearchResults -> <<"source", "title", "url", "page_age">>
    [] type = "web_fetch_result" -> <<"url", "retrieved_at">>
    [] type \in CodeResults -> <<"stdout", "stderr", "return_code">>
    [] type = "tool_reference" -> <<"tool_name">>
    [] type \in NotCounted -> <<>>
    [] OTHER -> <<"text">>

Nested(type) ==
  CASE type \in ToolResults \cup SearchResults \cup {"web_fetch_result"} ->
         <<"content">>
    [] type \in CodeResults -> <<"content", "output">>
    [] OTHER -> <<>>

(* Only a document whose source is text is counted at all.                  *)
DocumentSegments(v) ==
  IF Has(v, "source") /\ StrAt(v.map.source, "type") = "text"
  THEN FieldSegments(v, <<"title", "context">>)
         \o FieldSegments(v.map.source, <<"data", "content">>)
  ELSE <<>>

ContentSegments[v \in Trees] ==
  IF IsStr(v) THEN Counted(v)
  ELSE IF IsList(v)
  THEN FlattenSeq([i \in DOMAIN v.list |-> ContentSegments[v.list[i]]])
  ELSE IF ~IsMap(v) THEN <<>>
  ELSE LET type == StrAt(v, "type")
           nested == Nested(type)
       IN IF type = "" THEN <<v>>
          ELSE IF type = "document" THEN DocumentSegments(v)
          ELSE FieldSegments(v, Leaves(type)) \o
               FlattenSeq([i \in DOMAIN nested |->
                             IF Has(v, nested[i]) THEN ContentSegments[v.map[nested[i]]]
                                                  ELSE <<>>])

(* Each item of a list at a key of the body.                                *)
Each(body, k, Segments(_)) ==
  IF Has(body, k) /\ IsList(body.map[k])
  THEN LET l == body.map[k].list IN FlattenSeq([i \in DOMAIN l |-> Segments(l[i])])
  ELSE <<>>

SystemSegmentsOfParts(body) ==
  IF Has(body, "system") /\ IsStr(body.map.system)
  THEN Counted(body.map.system)
  ELSE Each(body, "system", LAMBDA part : IF StrAt(part, "type") = "text"
                                          THEN FieldSegments(part, <<"text">>)
                                          ELSE <<>>)

SystemSegments(body) ==
  IF Has(body, "system") /\ IsStr(body.map.system)
  THEN Counted(body.map.system)
  ELSE Each(body, "system",
            LAMBDA part : IF IsStr(part) THEN Counted(part)
                          ELSE IF StrAt(part, "type") = "text"
                          THEN FieldSegments(part, <<"text">>) ELSE <<>>)

MessageSegments(body) ==
  Each(body, "messages",
       LAMBDA m : FieldSegments(m, <<"role">>) \o
                  (IF Has(m, "content") THEN ContentSegments[m.map.content]
                                        ELSE <<>>))

ToolSegments(body) ==
  Each(body, "tools",
       LAMBDA t : FieldSegments(t, <<"type", "name", "description", "input_schema">>))

ToolChoiceSegments(body) ==
  IF ~Has(body, "tool_choice") THEN <<>>
  ELSE IF IsStr(body.map.tool_choice) THEN Counted(body.map.tool_choice)
  ELSE FieldSegments(body.map.tool_choice, <<"type", "name">>)

CountClaudeInputTokens(body) ==
  SystemSegments(body) \o MessageSegments(body) \o ToolSegments(body)
    \o ToolChoiceSegments(body)
=============================================================================
