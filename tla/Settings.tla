------------------------------ MODULE Settings ------------------------------
(***************************************************************************)
(* gatewayctl's settings file, the commands that set a key of it, and what *)
(* a push makes of it, the environment and the defaults.  Every command    *)
(* loads the file when it starts; config set saves it with os.WriteFile.   *)
(*                                                                         *)
(* A value stands for what is used of it (server URLs lose their trailing  *)
(* slashes, prefixes their leading ones).  A flag of push-http or push-s3  *)
(* acts as the environment variable of its setting does.                   *)
(***************************************************************************)
EXTENDS Naturals

CONSTANTS
  Operator,    \* shells and jobs that share a settings file
  Value,       \* what a setting may be
  Unset,       \* "", one of them
  Env,         \* what each operator's environment has for a setting
  DefaultURL,  \* "http://localhost:8090"
  Preset,      \* settings files to begin with
  Argument,    \* keys and values given to config set
  Unknown,
  MaxCommands  \* a bound on the commands of an operator

Key == {"mode", "http.server-url", "http.api-token", "s3.bucket", "s3.prefix"}

ASSUME SettingsAssumption ==
  /\ Unset \in Value /\ DefaultURL \in Value
  /\ Env \in [Operator -> [Key -> Value]]
  /\ Preset \subseteq [Key -> Value]
  /\ Argument \subseteq Key \X Value
  /\ Unknown \notin [Key -> Value]
  /\ MaxCommands \in Nat

VARIABLES
  settings,  \* the file; a missing or truncated one is as good as NoSettings
  at,        \* each operator's place in the code
  app,       \* and what config set is about to save
  expected,  \* history: the file if no two config sets overlapped and none died
  left       \* the commands each operator has yet to enter

settingsVars == <<settings, at, app, expected, left>>

NoSettings == [k \in Key |-> Unset]

SettingsInit ==
  /\ settings \in Preset
  /\ at = [o \in Operator |-> "idle"]
  /\ app = [o \in Operator |-> NoSettings]
  /\ expected = settings
  /\ left \in [Operator -> 0..MaxCommands]

\* env var > settings file > default; only the server's URL has a default.
Resolve(o, key) ==
  CASE Env[o][key] # Unset -> Env[o][key]
    [] Env[o][key] = Unset /\ settings[key] # Unset -> settings[key]
    [] OTHER -> IF key = "http.server-url" THEN DefaultURL ELSE Unset
-----------------------------------------------------------------------------
Setting(o) == at[o] \in {"changed", "truncated"}

Begin(o, place) ==
  /\ at[o] = "idle" /\ left[o] > 0
  /\ at' = [at EXCEPT ![o] = place]
  /\ left' = [left EXCEPT ![o] = @ - 1]
  /\ UNCHANGED settings

\* A plausible bug: the other keys are not loaded.
StartSetUnloaded(o, key, value) ==
  /\ key = "mode" => value \in {"http", "s3", Unset}
  /\ Begin(o, "changed")
  /\ app' = [app EXCEPT ![o] = [NoSettings EXCEPT ![key] = value]]
  /\ expected' = IF expected = Unknown \/ \E q \in Operator : Setting(q) THEN Unknown
                   ELSE [expected EXCEPT ![key] = value]

\* config set: load the file, check the mode, change the key.
StartSet(o, key, value) ==
  /\ key = "mode" => value \in {"http", "s3", Unset}
  /\ Begin(o, "changed")
  /\ app' = [app EXCEPT ![o] = [settings EXCEPT ![key] = value]]
  /\ expected' = IF expected = Unknown \/ \E q \in Operator : Setting(q) THEN Unknown
                   ELSE [expected EXCEPT ![key] = value]

\* os.WriteFile in Save, in its two steps.
TruncateSettings(o) ==
  /\ at[o] = "changed"
  /\ settings' = NoSettings
  /\ at' = [at EXCEPT ![o] = "truncated"]
  /\ UNCHANGED <<app, expected, left>>

SaveSettings(o) ==
  /\ at[o] = "truncated"
  /\ settings' = app[o]
  /\ at' = [at EXCEPT ![o] = "idle"]
  /\ app' = [app EXCEPT ![o] = NoSettings]
  /\ UNCHANGED <<expected, left>>

\* A command ends in the middle, by an error or a signal.
Quits(o) ==
  /\ at[o] # "idle"
  /\ at' = [at EXCEPT ![o] = "idle"]
  /\ app' = [app EXCEPT ![o] = NoSettings]
  /\ expected' = IF Setting(o) THEN Unknown ELSE expected
  /\ UNCHANGED <<settings, left>>

SetStep(o) ==
  \/ \E arg \in Argument : StartSet(o, arg[1], arg[2])
  \/ TruncateSettings(o) \/ SaveSettings(o)
-----------------------------------------------------------------------------
\* When no config set is under way, the file has for every key what was last set
\* for it, unless two of them overlapped or one died: no command drops another
\* key, and a file that does not exist yet is no exception.
SettingsAsSet ==
  expected # Unknown /\ (\A o \in Operator : ~Setting(o)) => settings = expected
=============================================================================
