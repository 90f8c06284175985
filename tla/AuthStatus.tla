----------------------------- MODULE AuthStatus ------------------------------
(***************************************************************************)
(* What the plugin says about the CLI's login (auth.go).  statusStorage    *)
(* runs "agent status" as JSON, if that fails as text, and then "agent     *)
(* about", and puts an auth record together from what they print.  Words   *)
(* are classes here: "yes" and "no" are the spellings that                 *)
(* classifyAuthStatusString knows, and for a line also the phrases of      *)
(* parseCursorAuthText.                                                    *)
(***************************************************************************)
EXTENDS RequestBody

CONSTANTS
  Statuses,  \* what "agent status" may print: Json(tree) or Lines(sequence)
  Abouts,    \* what "agent about" may print, as JSON objects
  Emails     \* the strings that look like an email address

VARIABLES
  refresh,   \* statusStorage: "idle", "json", "text", "about", "done", "failed"
  storage,   \* cursorAuthStorage
  said       \* history: what "agent status" printed

auth == <<refresh, storage, said>>

Json(tree) == [json |-> tree]
Lines(l) == [lines |-> l]
Bool(b) == [bool |-> b]
Nothing == Lines(<<>>)

ASSUME StatusesAssumption ==
  /\ \A out \in Statuses :
       IF "json" \in DOMAIN out THEN out.json \in Trees ELSE out.lines \in Seq(STRING)
  /\ \A v \in Trees : "bool" \in DOMAIN v => v.bool \in BOOLEAN

NoStorage == [known |-> FALSE, authenticated |-> FALSE, email |-> "", account |-> ""]

InitAuth ==
  /\ refresh = "idle"
  /\ storage = NoStorage
  /\ said = Nothing

-----------------------------------------------------------------------------
(* The answers of the CLI.                                                  *)

AuthKeys == {"isauthenticated", "authenticated", "loggedin"}

(* What one field says by itself.                                           *)
Truth(k, v) ==
  IF k \in AuthKeys /\ "bool" \in DOMAIN v THEN <<v.bool>>
  ELSE IF k = "status" /\ IsStr(v) /\ v.str \in {"yes", "no"} THEN <<v.str = "yes">>
  ELSE <<>>

(* A family of sets, and the ways to take one element of each.              *)
OneOfEach(family) ==
  {f \in [DOMAIN family -> UNION Range(family)] :
     \A k \in DOMAIN family : f[k] \in family[k]}

(* A walk over a map is one in some order of its keys, one over a list is   *)
(* in its order; walks are those over the values inside.                    *)
WalksOfMap(m, walks) ==
  {FlattenSeq([i \in DOMAIN order |->
                 Truth(order[i], m[order[i]]) \o walk[order[i]]]) :
     order \in SetToSeqs(DOMAIN m), walk \in OneOfEach(walks)}
WalksOfList(walks) == {FlattenSeq(walk) : walk \in OneOfEach(walks)}

(* What the walk over a tree collects, in whatever order Go visits the maps.*)
Walks[v \in Trees] ==
  IF IsMap(v) THEN WalksOfMap(v.map, [k \in DOMAIN v.map |-> Walks[v.map[k]]])
  ELSE IF IsList(v) THEN WalksOfList([i \in DOMAIN v.list |-> Walks[v.list[i]]])
  ELSE {<<>>}

Unknown == [known |-> FALSE, authenticated |-> FALSE]
Known(b) == [known |-> TRUE, authenticated |-> b]

(* Signals that disagree are a no.                                          *)
AgreementFirstWins(truths) ==
  IF truths = <<>> THEN Unknown ELSE Known(truths[1])

Agreement(truths) ==
  IF truths = <<>> THEN Unknown
  ELSE IF \E i \in 2 .. Len(truths) : truths[i] # truths[1] THEN Known(FALSE)
  ELSE Known(truths[1])

(* The first line that says anything decides.                               *)
ParseCursorAuthText(lines) ==
  LET telling == {i \in DOMAIN lines : lines[i] \in {"yes", "no"}} IN
  IF telling = {} THEN Unknown ELSE Known(lines[Min(telling)] = "yes")

ParseCursorAuthStatus(out) ==
  IF "json" \in DOMAIN out
  THEN {Agreement(truths) : truths \in Walks[out.json]}
  ELSE {ParseCursorAuthText(out.lines)}

FirstSafeString(object, keys) ==
  LET given == SelectSeq(keys, LAMBDA k : StrAt(object, k) # "") IN
  IF given = <<>> THEN "" ELSE StrAt(object, given[1])

AccountOf(about) == IF Has(about, "account") THEN about.map.account ELSE Scalar
OrElse(s, t) == IF s # "" THEN s ELSE t

ParseCursorAbout(about) ==
  [account |-> OrElse(FirstSafeString(about, <<"account", "username", "name">>),
                      FirstSafeString(AccountOf(about),
                                      <<"email", "username", "name">>)),
   email   |-> OrElse(FirstSafeString(about, <<"userEmail", "user_email", "email">>),
                      FirstSafeString(AccountOf(about), <<"email">>))]

(* enrichStorageFromAbout.                                                  *)
Enriched(st, info) ==
  [st EXCEPT
     !.account = OrElse(info.account, @),
     !.email = IF info.email # "" THEN info.email
               ELSE IF @ = "" /\ info.account \in Emails THEN info.account ELSE @]

-----------------------------------------------------------------------------
(* statusStorage; each step is one run of the agent.                        *)

StatusBegin ==
  /\ refresh = "idle"
  /\ refresh' = "json"
  /\ storage' = NoStorage
  /\ said' = Nothing

StatusPrinted(out) ==
  /\ refresh' = "about"
  /\ said' = out
  /\ \E parsed \in ParseCursorAuthStatus(out) :
       storage' = [storage EXCEPT !.known = parsed.known,
                                  !.authenticated = parsed.authenticated]

StatusJson ==
  /\ refresh = "json"
  /\ \/ \E out \in Statuses : StatusPrinted(out)
     \/ refresh' = "text" /\ UNCHANGED <<storage, said>>

StatusText ==
  /\ refresh = "text"
  /\ \/ \E out \in Statuses : StatusPrinted(out)
     \/ refresh' = "failed" /\ UNCHANGED <<storage, said>>

(* Without an answer that is a JSON object there is no account.             *)
About ==
  /\ refresh = "about"
  /\ refresh' = "done"
  /\ \/ \E about \in Abouts : storage' = Enriched(storage, ParseCursorAbout(about))
     \/ UNCHANGED storage
  /\ UNCHANGED said

StatusForgotten ==
  /\ refresh' = "idle"
  /\ storage' = NoStorage
  /\ said' = Nothing

StatusStorage == StatusJson \/ StatusText \/ About

-----------------------------------------------------------------------------
(* Properties.                                                              *)

Signals(v) ==
  UNION {UNION {ToSet(Truth(k, p.map[k])) : k \in DOMAIN p.map} :
           p \in {q \in Parts[v] : IsMap(q)}}

(* The record says "authenticated" only if the CLI said so and nothing it   *)
(* said, at any depth of its JSON, contradicts it, whatever the order in    *)
(* which the maps are walked; of a text the first line that tells decides   *)
(* (auth.go:270-329; "FailClosed", cursor_cli_test.go:272).                 *)
StatusFailClosed ==
  refresh \in {"about", "done"} =>
    IF "json" \in DOMAIN said
    THEN /\ storage.known <=> Signals(said.json) # {}
         /\ storage.authenticated <=> Signals(said.json) = {TRUE}
    ELSE storage.authenticated =>
           \E i \in DOMAIN said.lines :
             /\ said.lines[i] = "yes"
             /\ \A j \in 1 .. i : said.lines[j] # "no"
=============================================================================
