---------------------------- MODULE PluginConfig -----------------------------
(***************************************************************************)
(* ParseConfig (config.go), and the environment that the configuration     *)
(* lets through to an agent (cursor_cli.go, filteredEnv).  A raw           *)
(* configuration gives values to some of the fields; Broken is a text that *)
(* YAML does not decode into a Config.                                     *)
(***************************************************************************)
EXTENDS Integers, Sequences, SequencesExt

CONSTANTS
  Ranges,      \* for each numeric field the values it may have, e.g. 1 .. 8
  Default,     \* DefaultConfig: a value for every field
  Fold,        \* strings.ToLower on the names of environment variables
  EnvNames,    \* the names that match envNameRE
  Inherited    \* os.Environ(): the value of each name that is set

Broken == [broken |-> TRUE]
Invalid == [invalid |-> TRUE]
NoFields == [f \in {} |-> 0]

Numbers == {"max_request_bytes", "max_prompt_bytes", "max_stdout_bytes",
            "max_archive_entries", "max_expanded_bytes"}
Texts == {"executable_path", "workspace", "managed_install_root"}

(* normalizeStringSet: of names that differ in case only, the first stays.  *)
DedupeStrings(l) ==
  {l[i] : i \in {j \in DOMAIN l :
                   l[j] # "" /\ \A k \in 1 .. j - 1 : Fold[l[k]] # Fold[l[j]]}}

Merged(raw) ==
  [f \in DOMAIN Default |-> IF f \in DOMAIN raw THEN raw[f] ELSE Default[f]]

(* Fields that are left out have their default, not their former value.     *)
ParseConfig(raw) ==
  IF raw = Broken THEN Invalid
  ELSE LET cfg == Merged(raw) IN
       IF /\ cfg.executable_path \notin {"", "NUL"}
          /\ cfg.workspace # "relative"
          /\ cfg.managed_install_root # "relative"
          /\ \A f \in DOMAIN Ranges : cfg[f] \in Ranges[f]
       THEN [cfg EXCEPT !.workspace = IF @ = "" THEN Default.workspace ELSE @,
                        !.environment_allowlist = DedupeStrings(@) \cap EnvNames]
       ELSE Invalid

(* DefaultConfig gives every field a value, and passes its own checks.      *)
ASSUME DefaultAssumption ==
  /\ Numbers \subseteq DOMAIN Ranges
  /\ DOMAIN Ranges \cup Texts \cup {"enabled", "environment_allowlist"}
       \subseteq DOMAIN Default
  /\ ParseConfig(NoFields) # Invalid

(* Of equal names the agent sees the last: what the plugin adds.            *)
FilteredEnv(allow) ==
  LET passed == {n \in allow \cap DOMAIN Inherited :
                   Fold[n] # Fold["CURSOR_API_KEY"]}
  IN [n \in passed \cup {"CURSOR_API_KEY"} |->
        IF n = "CURSOR_API_KEY" THEN "" ELSE Inherited[n]]
=============================================================================
