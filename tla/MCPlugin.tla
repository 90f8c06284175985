------------------------------- MODULE MCPlugin -------------------------------
(* Instances of Plugin for TLC.                                             *)
EXTENDS Plugin

CONSTANTS d1, a, b

-----------------------------------------------------------------------------
(* Configurations.                                                          *)

MCRanges == [max_request_bytes |-> 1 .. 4, max_prompt_bytes |-> 2 .. 4,
             max_stdout_bytes |-> 1 .. 3, max_concurrent |-> 1 .. 2,
             max_archive_entries |-> 1 .. 3, max_expanded_bytes |-> 1 .. 3]
MCLimits == MCRanges.max_stdout_bytes
MCDefault ==
  [enabled |-> TRUE, executable_path |-> "agent", workspace |-> "/tmp",
   managed_install_root |-> "", max_request_bytes |-> 3, max_prompt_bytes |-> 4,
   max_stdout_bytes |-> 2, max_concurrent |-> 1,
   max_archive_entries |-> 3, max_expanded_bytes |-> 3,
   environment_allowlist |-> <<"PATH">>]

MCFold == [n \in {"path", "cursor_api_key"} |-> n]
          @@ ("PATH" :> "path") @@ ("CURSOR_API_KEY" :> "cursor_api_key")
MCEnvNames == DOMAIN MCFold
MCInherited ==
  [n \in {"PATH", "CURSOR_API_KEY", "cursor_api_key"} |-> "value of " \o n]

MCRaws ==
  { Broken,
    [max_stdout_bytes |-> 0],
    [workspace |-> "relative", max_stdout_bytes |-> 3],
    [max_stdout_bytes |-> 1,
     environment_allowlist |-> <<"cursor_api_key", "CURSOR_API_KEY">>],
    [enabled |-> FALSE, max_concurrent |-> 2],
    [max_prompt_bytes |-> 2, max_stdout_bytes |-> 3, workspace |-> ""] }

-----------------------------------------------------------------------------
(* Requests.                                                                *)

Text(s) == Map([type |-> Str("text"), text |-> Str(s)])
Message(content) == Map([role |-> Str("user"), content |-> content])
Chat(content) == Map([messages |-> List(<<Message(content)>>)])
In(part) == Chat(List(<<Text("hi"), Map([text |-> Str("see"), more |-> part])>>))

(* Parts that are not text and that no list of the validation names.        *)
Clip == Map([type |-> Str("video_url"), video_url |-> Str("x")])
Shot == Map([type |-> Str("text"), mime_type |-> Str("image/png"), data |-> Str("x")])

(* Claude requests with distinct texts, for the token count.                *)
Found == Map([type |-> Str("search_result"), source |-> Str("where"),
              content |-> List(<<Text("found")>>)])
Contents == { Str("whole"), List(<<Str("bare"), Text("part")>>),
              List(<<Map([text |-> Str("untyped")]), Found>>),
              Map([type |-> Str("refusal"), text |-> Str("other")]) }
Systems == { Str("rules"), List(<<Text("rule 1"), Str("rule 2")>>) }
ClaudeBodies ==
  { Map([system |-> s, messages |-> List(<<Message(c), Message(e)>>)]) :
      s \in Systems, c \in Contents, e \in Contents }

MCRequests ==
  { [format |-> f, body |-> Chat(Str("hi")), bytes |-> 1] :
      f \in {"claude", "unknown"} } \cup
  { [format |-> "openai-chat", body |-> body, bytes |-> 3] : body \in
      { Malformed, EmptyBody,
        Map([instructions |-> Str("be brief"), input |-> List(<<Text("hi"), Clip, Shot>>)]),
        In(List(<<Map([Tools |-> List(<<>>)])>>)),
        In(Map([type |-> Str("mcp_tool_result"), text |-> Str("x")])),
        In(Map([type |-> Str("Image"), text |-> Str("x")])),
        In(List(<<Map([file_data |-> Str("x")])>>)) } } \cup
  { [format |-> "claude", body |-> Malformed, bytes |-> 1],
    [format |-> "claude", body |-> Chat(Str("hi")), bytes |-> 4],
    [format |-> "claude", body |-> Map([instructions |-> Str("be brief")]), bytes |-> 4] } \cup
  { [format |-> "claude", body |-> body, bytes |-> 4] : body \in ClaudeBodies }

-----------------------------------------------------------------------------
(* Answers of the CLI.                                                      *)

Said(f, v) == Map([k \in {f} |-> v])
MCStatuses ==
  { Json(t) : t \in
      { Scalar, List(<<>>), Said("authenticated", Bool(TRUE)),
        Said("status", Str("yes")), Said("status", Str("other")),
        Said("authenticated", Str("yes")),
        Map([authenticated |-> Bool(TRUE), loggedin |-> Bool(FALSE)]),
        Map([status |-> Str("yes"), user |-> Said("isauthenticated", Bool(FALSE))]),
        Map([user |-> List(<<Said("loggedin", Bool(TRUE)), Said("status", Str("no"))>>),
             authenticated |-> Bool(TRUE)]) } } \cup
  { Lines(l) : l \in {<<>>, <<"other", "yes">>, <<"no", "yes">>, <<"yes", "no">>} }

MCAbouts ==
  { Map([account |-> Str("me@x")]), Map([name |-> Str("me"), email |-> Str("me@x")]),
    Map([account |-> Map([username |-> Str("me"), email |-> Str("me@x")])]) }

(* Every JSON value of the requests and the answers.                        *)
MCDepth == 8
MCTrees ==
  LET Roots == {Scalar} \cup {req.body : req \in MCRequests}
                 \cup {out.json : out \in {s \in MCStatuses : "json" \in DOMAIN s}}
      Below[n \in 0 .. MCDepth] ==
        IF n = 0 THEN Roots ELSE UNION {Children(v) : v \in Below[n - 1]}
  IN UNION {Below[n] : n \in 0 .. MCDepth}
MCNesting[v \in MCTrees] ==
  IF Children(v) = {} THEN 0 ELSE 1 + Max({MCNesting[c] : c \in Children(v)})

-----------------------------------------------------------------------------
(* Entries of an archive.                                                   *)

ArchiveEntry(type, name) == [name |-> name, type |-> type, link |-> <<>>, size |-> 1]
Large(type, name) == [ArchiveEntry(type, name) EXCEPT !.size = 2]
LinkTo(name, link) == [name |-> name, type |-> "link", link |-> link, size |-> 0]
MCHeaders ==
  { Large("file", <<"agent">>), ArchiveEntry("file", <<"l", "agent">>),
    ArchiveEntry("file", <<".", "d", "agent">>),
    ArchiveEntry("file", <<"l", "..", "..", "agent">>), ArchiveEntry("file", <<"/", "lib">>),
    ArchiveEntry("dir", <<"d">>), ArchiveEntry("dir", <<"l">>), ArchiveEntry("dir", <<".">>),
    ArchiveEntry("device", <<"lib">>),
    LinkTo(<<"l">>, <<".", "d">>), LinkTo(<<"l">>, <<"..">>), LinkTo(<<"l">>, <<"/">>),
    LinkTo(<<"l">>, <<"d", "..">>), LinkTo(<<"d", "agent">>, <<"l">>) }

-----------------------------------------------------------------------------
(* Usage records.                                                           *)

Detail(i, o, cached, total) ==
  [input |-> i, output |-> o, reasoning |-> 1, cached |-> cached,
   cacheRead |-> 1, cacheCreation |-> 0, total |-> total]
Record(m, alias, fails, at, detail) ==
  [cursor |-> TRUE, model |-> m, alias |-> alias, failed |-> fails,
   requestedAt |-> at, detail |-> detail]

MCRecords ==
  { Record(a, NoName, FALSE, 3, Detail(2, 3, 0, 0)),
    Record(a, b, TRUE, 1, Detail(5, 6, 2, 0)),   \* the sum overflows
    Record(NoName, b, FALSE, 0, Detail(5, 1, 0, 3)),
    Record(NoName, NoName, FALSE, 1, Detail(1, 1, 0, 0)),
    [Record(b, b, FALSE, 1, Detail(1, 1, 0, 0)) EXCEPT !.cursor = FALSE] }
=============================================================================
