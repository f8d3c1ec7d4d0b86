------------------------------ MODULE Metadata ------------------------------
(***************************************************************************)
(* Encrypting the metadata of events: who knows which key when.            *)
(*                                                                         *)
(* The CLI turns encryption on by writing the name of a variable to        *)
(* config.toml and then its value, a new key, to .env (main.rs:            *)
(* enable_metadata_encryption); other menu items rewrite config.toml too.  *)
(* An application reads config.toml when it is mounted and the key from    *)
(* the environment it was started with; .env is loaded by the CLI alone,   *)
(* and only where the shell has no value.  std::fs::write empties a file   *)
(* before it fills it, and an empty config.toml is the default one.        *)
(* There is one variable name and one setting, auto_classify, besides.     *)
(***************************************************************************)
EXTENDS Pipeline, FiniteSets

CONSTANTS
  Apps,       \* applications with the runtime mounted
  Operators,  \* shells in which a CLI command runs
  Events,
  Content,    \* per event, the EventBuilder its capture is given
  Keys,
  NoRow,
  MaxMounts, MaxCommands, MaxKills \* bounds

ASSUME MetadataAssumption ==
  /\ NoKey \notin Keys
  /\ \A e \in Events : IsBuilt(Content[e])
  /\ \A t \in Argv : IsText(t)
  /\ {MaxMounts, MaxCommands, MaxKills} \subseteq Nat

VARIABLES
  config,     \* config.toml as load_or_default reads it
  dotenv,     \* the key in .env
  shell,      \* the key exported in the operators' environment
  app,        \* per application: its configuration and key
  job,        \* per operator, the command it is in
  row,        \* per event, what the database holds
  exported,   \* the export file
  issued,     \* keys generated
  on,         \* history: encryption has been turned on
  torn,       \* history: rewrites of config.toml overlapped, or one was cut short
  retired,    \* history: keys removed from .env
  excused,    \* history: events of applications that could not know better
  resealed,   \* history: rows imported while encryption was on, with the key of the import
  spent       \* history: mounts, commands, kills

disk == <<config, dotenv>>
store == <<row, exported>>
marks == <<on, torn, retired, excused, resealed>>
vars == <<disk, shell, app, job, store, issued, marks, spent>>

Default == [crypto |-> FALSE, classify |-> TRUE]
Idle == [pc |-> "idle", doc |-> Default, key |-> NoKey]
Down == [up |-> FALSE, conf |-> Default, key |-> NoKey, excuse |-> TRUE]

Init ==
  /\ config = Default /\ dotenv = NoKey /\ shell = NoKey
  /\ app = [a \in Apps |-> Down]
  /\ job = [p \in Operators |-> Idle]
  /\ row = [e \in Events |-> NoRow] /\ exported = row
  /\ issued = {} /\ on = FALSE /\ torn = FALSE /\ retired = {} /\ excused = {} /\ resealed = {}
  /\ spent = [mounts |-> 0, commands |-> 0, kills |-> 0]

Spend(what, bound) == spent[what] < bound /\ spent' = [spent EXCEPT ![what] = @ + 1]

\* Mutant: the file is not looked at.
load_dotenv_if_present_Not == shell

\* A CLI process has the key of its shell, or else that of .env.
load_dotenv_if_present == IF shell # NoKey THEN shell ELSE dotenv

\* config.toml is empty, about to be filled.
Rewriting == \E p \in Operators : job[p].pc = "write"

(***************************************************************************)
(* Applications.                                                           *)
(***************************************************************************)
\* Started from a shell, or with an environment of its own.
Mount(a, key) ==
  /\ key \in {shell, dotenv, NoKey}
  /\ Spend("mounts", MaxMounts)
  /\ app' = [app EXCEPT ![a] = [up |-> TRUE, conf |-> config, key |-> key,
                                excuse |-> ~on \/ torn \/ Rewriting]]
  /\ UNCHANGED <<disk, shell, job, store, issued, marks>>

\* Mutant: no key, no encryption.
resolve_cipher_Open(conf, key) == [ok |-> TRUE, key |-> IF conf.crypto THEN key ELSE NoKey]

\* Fail closed: a configured variable without a value refuses the write.
resolve_cipher(conf, key) ==
  [ok |-> conf.crypto => key # NoKey, key |-> IF conf.crypto THEN key ELSE NoKey]

Capture(a, e) ==
  LET cipher == resolve_cipher(app[a].conf, app[a].key)
  IN  /\ app[a].up /\ row[e] = NoRow /\ exported[e] = NoRow
      /\ cipher.ok
      /\ row' = [row EXCEPT ![e] = apply_pipeline(Content[e], app[a].conf.classify, cipher.key)]
      /\ excused' = IF app[a].excuse THEN excused \cup {e} ELSE excused \ {e}
      /\ UNCHANGED <<disk, shell, app, job, exported, issued, on, torn, retired, resealed, spent>>

(***************************************************************************)
(* witslog log: the process takes its key from the shell or from .env when *)
(* it starts, and reads config.toml before it writes, through the same     *)
(* pipeline (build_and_write).                                             *)
(***************************************************************************)
log_event(p) ==
  /\ job[p] = Idle /\ Spend("commands", MaxCommands)
  /\ job' = [job EXCEPT ![p] = [Idle EXCEPT !.pc = "log", !.key = load_dotenv_if_present]]
  /\ UNCHANGED <<disk, shell, app, store, issued, marks>>

build_and_write(p, e) ==
  LET cipher == resolve_cipher(config, job[p].key)
  IN  /\ job[p].pc = "log" /\ row[e] = NoRow /\ exported[e] = NoRow
      /\ job' = [job EXCEPT ![p] = Idle]
      /\ IF cipher.ok
         THEN /\ row' = [row EXCEPT ![e] = apply_pipeline(Content[e], config.classify, cipher.key)]
              /\ excused' = IF ~on \/ torn \/ Rewriting THEN excused \cup {e} ELSE excused \ {e}
         ELSE UNCHANGED <<row, excused>>
      /\ UNCHANGED <<disk, shell, app, exported, issued, on, torn, retired, resealed, spent>>

(***************************************************************************)
(* The commands that rewrite files.  TurnOn is init --encrypt, and config  *)
(* encrypt, which asks before it replaces a key: it reads config.toml,     *)
(* empties it, writes it, and does the same with .env.  Toggle is the      *)
(* first half, for another setting.                                        *)
(***************************************************************************)
Reading(p) ==
  /\ job[p] = Idle /\ Spend("commands", MaxCommands)
  /\ torn' = (torn \/ \E q \in Operators : job[q].pc \in {"truncate", "write"})

TurnOn(p, key) ==
  /\ Reading(p)
  /\ key \notin issued /\ issued' = issued \cup {key}
  /\ job' = [job EXCEPT ![p] = [pc |-> "truncate", doc |-> [config EXCEPT !.crypto = TRUE], key |-> key]]
  /\ UNCHANGED <<disk, shell, app, store, on, retired, excused, resealed>>

\* Mutant: the settings are written over the defaults.
toggle_bool_setting_Blind(p, value) ==
  /\ Reading(p)
  /\ job' = [job EXCEPT ![p] = [pc |-> "truncate", doc |-> [Default EXCEPT !.classify = value], key |-> NoKey]]
  /\ UNCHANGED <<disk, shell, app, store, issued, on, retired, excused, resealed>>

toggle_bool_setting(p, value) ==
  /\ Reading(p)
  /\ job' = [job EXCEPT ![p] = [pc |-> "truncate", doc |-> [config EXCEPT !.classify = value], key |-> NoKey]]
  /\ UNCHANGED <<disk, shell, app, store, issued, on, retired, excused, resealed>>

Truncate(p) ==
  /\ job[p].pc = "truncate"
  /\ config' = Default
  /\ job' = [job EXCEPT ![p].pc = "write"]
  /\ UNCHANGED <<dotenv, shell, app, store, issued, marks, spent>>

WriteConfig(p) ==
  /\ job[p].pc = "write"
  /\ config' = job[p].doc
  /\ job' = [job EXCEPT ![p] = IF @.key = NoKey THEN Idle ELSE [@ EXCEPT !.pc = "env"]]
  /\ UNCHANGED <<dotenv, shell, app, store, issued, marks, spent>>

TruncateEnv(p) ==
  /\ job[p].pc = "env"
  /\ dotenv' = NoKey
  /\ retired' = retired \cup ({dotenv} \ {NoKey})
  /\ job' = [job EXCEPT ![p].pc = "key"]
  /\ UNCHANGED <<config, shell, app, store, issued, on, torn, excused, resealed, spent>>

\* The line of the variable is replaced.
write_env_file_var(p) ==
  /\ job[p].pc = "key"
  /\ dotenv' = job[p].key
  /\ retired' = retired \cup ({dotenv} \ {NoKey})
  /\ on' = TRUE
  /\ job' = [job EXCEPT ![p] = Idle]
  /\ UNCHANGED <<config, shell, app, store, issued, torn, excused, resealed, spent>>

\* The operator exports the key of .env, or goes on in a shell that has none.
SetShell(key) ==
  /\ key \in {dotenv, NoKey} /\ shell # key
  /\ shell' = key
  /\ UNCHANGED <<disk, app, job, store, issued, marks, spent>>

Kill(p) ==
  /\ job[p] # Idle /\ Spend("kills", MaxKills)
  /\ torn' = (torn \/ job[p].pc = "write")
  /\ job' = [job EXCEPT ![p] = Idle]
  /\ UNCHANGED <<disk, shell, app, store, issued, on, retired, excused, resealed>>

(***************************************************************************)
(* Readers.  export writes rows as they are; import writes lines as they   *)
(* are, those of events it does not find.                                  *)
(***************************************************************************)
get_event(e) ==
  decrypt_metadata_for_display(row[e].metadata, IF config.crypto THEN load_dotenv_if_present ELSE NoKey)

Export ==
  /\ Spend("commands", MaxCommands)
  /\ exported' = row
  /\ UNCHANGED <<disk, shell, app, job, row, issued, marks>>

Import(e) ==
  /\ row[e] = NoRow /\ exported[e] # NoRow
  /\ row' = [row EXCEPT ![e] = exported[e]]
  /\ resealed' = IF config.crypto THEN resealed \cup {[event |-> e, key |-> load_dotenv_if_present]} ELSE resealed
  /\ UNCHANGED <<disk, shell, app, job, exported, issued, on, torn, retired, excused, spent>>

\* delete, prune, or a database begun anew.
Remove(e) ==
  /\ row[e] # NoRow /\ exported[e] # NoRow
  /\ row' = [row EXCEPT ![e] = NoRow]
  /\ resealed' = {r \in resealed : r.event # e}
  /\ UNCHANGED <<disk, shell, app, job, exported, issued, on, torn, retired, excused, spent>>

Next ==
  \/ \E a \in Apps : \E key \in Keys \cup {NoKey}, e \in Events : Mount(a, key) \/ Capture(a, e)
  \/ \E p \in Operators :
       \/ log_event(p) \/ Truncate(p) \/ WriteConfig(p) \/ TruncateEnv(p) \/ write_env_file_var(p) \/ Kill(p)
       \/ \E key \in Keys : TurnOn(p, key)
       \/ \E e \in Events : build_and_write(p, e)
       \/ \E value \in BOOLEAN : toggle_bool_setting(p, value)
  \/ Export \/ \E key \in Keys \cup {NoKey} : SetShell(key)
  \/ \E e \in Events : Import(e) \/ Remove(e)

Spec == Init /\ [][Next]_vars

-----------------------------------------------------------------------------
Rows == {e \in Events : row[e] # NoRow}

(* Once encryption has been turned on, no application mounted since stores *)
(* metadata in the clear, whatever keys it has or lacks: unless it was     *)
(* mounted while config.toml was being rewritten, or after two rewrites    *)
(* overlapped or one was cut short (resolve_cipher, load_or_default).      *)
NeverInTheClear == \A e \in Rows : row[e].metadata.key = NoKey => e \in excused

(* What is sealed can be read by the CLI as long as neither the key it was *)
(* sealed with nor the one the reader's shell exports has been replaced in *)
(* .env: an exported key wins over the file (load_dotenv_if_present,       *)
(* get_event).                                                             *)
SealedReadable ==
  \A e \in Rows : config.crypto /\ row[e].metadata.key \notin retired /\ shell \notin retired =>
    get_event(e) = row[e].metadata.text

\* Two texts, and two failures, that differ in nothing but secrets and numbers of the trace.
SameText(t, u) == t = u \/ (t.kind = "tagged" /\ u.kind = "tagged" /\ t.digits = u.digits)

SameFailure(ev, other) == SameText(ev.message, other.message) /\ SameText(ev.stack_norm, other.stack_norm)

(* No secret that stands beside its tag in a message, a stack trace, the   *)
(* metadata, or in the context that enrich adds to, is stored, and two     *)
(* events that differ in nothing but secrets and numbers of the trace have *)
(* the same fingerprint if they were classified alike (apply_pipeline,     *)
(* EventBuilder::redact, compute_fingerprint).                             *)
SecretsLeaveNoTrace ==
  \A e, f \in Rows :
    /\ \A t \in {row[e].message, row[e].stacktrace, row[e].metadata.text} \cup row[e].context :
         t.kind # "tagged"
    /\ SameFailure(Content[e], Content[f]) /\ row[e].category = row[f].category =>
         row[e].fingerprint = row[f].fingerprint

(* Rotating a key by export, rotate, import: the contract says an import   *)
(* encrypts on write, so a row imported while encryption is on is sealed   *)
(* with the key of the import (cmd_import, write_if_absent).               *)
ImportReseals == \A r \in resealed : row[r.event].metadata.key = r.key
=============================================================================
