--------------------------- MODULE MetadataProofs ---------------------------
(***************************************************************************)
(* Theorems about Metadata, for any applications, operators, events, keys  *)
(* and rules.                                                              *)
(***************************************************************************)
EXTENDS Metadata, TLAPS

Docs == [crypto : BOOLEAN, classify : BOOLEAN]
AllKeys == Keys \cup {NoKey}
Jobs == [pc : {"idle", "log", "truncate", "write", "env", "key"}, doc : Docs, key : AllKeys]
Processes == [up : BOOLEAN, conf : Docs, key : AllKeys, excuse : BOOLEAN]

Typed ==
  /\ config \in Docs /\ dotenv \in AllKeys /\ shell \in AllKeys
  /\ app \in [Apps -> Processes] /\ job \in [Operators -> Jobs]
  /\ DOMAIN row = Events /\ DOMAIN exported = Events
  /\ on \in BOOLEAN /\ torn \in BOOLEAN

Norm(t) == [t EXCEPT !.digits = 0]

\* What an event is made of.
LEMMA BuiltFields ==
  ASSUME NEW ev, IsBuilt(ev)
  PROVE  /\ DOMAIN ev = {"message", "stacktrace", "stack_norm", "context", "metadata", "words", "category"}
         /\ ev.stack_norm = Norm(ev.stacktrace)
         /\ DOMAIN ev.context = {"object", "values"}
         /\ ev.metadata = [key |-> NoKey, text |-> ev.metadata.text]
         /\ IsText(ev.message) /\ IsText(ev.stacktrace) /\ IsText(ev.metadata.text)
         /\ \A t \in ev.context.values : IsText(t)
  <1> DEFINE made == EventBuilder(ev.message, ev.stacktrace, ev.context, ev.metadata.text, ev.words)
  <1>1. made = [message |-> ev.message, stacktrace |-> ev.stacktrace, stack_norm |-> Norm(ev.stacktrace),
                context |-> ev.context, metadata |-> [key |-> NoKey, text |-> ev.metadata.text],
                words |-> ev.words, category |-> NoCategory]
    <2> DEFINE bare == [message |-> ev.message, stacktrace |-> ev.stacktrace, stack_norm |-> ev.stacktrace,
                        context |-> ev.context, metadata |-> [key |-> NoKey, text |-> ev.metadata.text],
                        words |-> ev.words, category |-> NoCategory]
    <2>1. made = stacktrace(bare, ev.stacktrace)
      BY DEF EventBuilder
    <2>2. stacktrace(bare, ev.stacktrace) = [bare EXCEPT !.stacktrace = ev.stacktrace, !.stack_norm = Norm(ev.stacktrace)]
      BY DEF stacktrace, Norm
    <2> HIDE DEF made
    <2> QED
      BY <2>1, <2>2
  <1>2. ev = [made EXCEPT !.category = ev.category]
    BY DEF IsBuilt
  <1>c. ev.context = [object |-> ev.context.object, values |-> ev.context.values]
    BY DEF IsBuilt
  <1> HIDE DEF made
  <1>3. DOMAIN ev = DOMAIN made /\ ev.stack_norm = made.stack_norm /\ ev.metadata = made.metadata
    BY <1>1, <1>2
  <1>4. DOMAIN ev.context = {"object", "values"}
    BY <1>c
  <1> QED
    BY <1>1, <1>3, <1>4 DEF IsBuilt

(***************************************************************************)
(* The pipeline seals metadata with the key it is given.                   *)
(***************************************************************************)
Sealable(ev) == "metadata" \in DOMAIN ev /\ "key" \in DOMAIN ev.metadata

LEMMA StagesKeepMetadata ==
  ASSUME NEW ev, Sealable(ev)
  PROVE  Sealable(enrich(ev)) /\ Sealable(redact(ev)) /\ Sealable(classify(ev))
  <1>1. Sealable(enrich(ev))
    BY DEF Sealable, enrich
  <1>2. Sealable(redact(ev))
    <2>1. Sealable(stacktrace(ev, redact_text(ev.stacktrace)))
      BY DEF Sealable, stacktrace
    <2>2. QED
      BY <2>1 DEF Sealable, redact
  <1>3. Sealable(classify(ev))
    <2>1. \A c : Sealable([ev EXCEPT !.category = c])
      BY DEF Sealable
    <2>2. QED
      BY <2>1 DEF classify
  <1>4. QED
    BY <1>1, <1>2, <1>3

LEMMA PipelineSeals ==
  ASSUME NEW e \in Events, NEW auto_classify \in BOOLEAN, NEW key
  PROVE  apply_pipeline(Content[e], auto_classify, key).metadata.key = key
  <1> DEFINE redacted == redact(enrich(Content[e]))
             ready == IF auto_classify THEN classify(redacted) ELSE redacted
  <1>1. Sealable(Content[e])
    <2>1. IsBuilt(Content[e])
      BY MetadataAssumption
    <2>2. "metadata" \in DOMAIN Content[e] /\ Content[e].metadata = [key |-> NoKey, text |-> Content[e].metadata.text]
      BY <2>1, BuiltFields
    <2> QED
      BY <2>2 DEF Sealable
  <1>2. Sealable(redacted)
    BY <1>1, StagesKeepMetadata
  <1> HIDE DEF redacted
  <1>3. Sealable(ready)
    BY <1>2, StagesKeepMetadata
  <1> HIDE DEF ready
  <1>4. encrypt_metadata(ready, key).metadata.key = key
    BY <1>3 DEF Sealable, encrypt_metadata
  <1>5. build(encrypt_metadata(ready, key)).metadata = encrypt_metadata(ready, key).metadata
    BY DEF build
  <1>6. apply_pipeline(Content[e], auto_classify, key) = build(encrypt_metadata(ready, key))
    BY DEF apply_pipeline, ready, redacted
  <1>7. QED
    BY <1>4, <1>5, <1>6

LEMMA Fields ==
  /\ Default \in Docs /\ Idle \in Jobs /\ Idle.pc = "idle" /\ Idle.key = NoKey
  /\ Down \in Processes /\ Down.up = FALSE /\ Down.key = NoKey
  BY DEF Default, Docs, Idle, Jobs, AllKeys, Down, Processes

LEMMA TypedInit == Init => Typed
  BY Fields DEF Init, Typed, AllKeys

LEMMA CipherKey ==
  ASSUME NEW conf \in Docs, NEW key \in AllKeys
  PROVE  /\ resolve_cipher(conf, key).key \in {key, NoKey}
         /\ resolve_cipher(conf, key).ok /\ conf.crypto = TRUE => resolve_cipher(conf, key).key # NoKey
  BY DEF resolve_cipher, Docs

LEMMA JobSet ==
  ASSUME Typed, NEW p \in Operators, NEW j \in Jobs, job' = [job EXCEPT ![p] = j]
  PROVE  job' \in [Operators -> Jobs] /\ job'[p] = j /\ \A q \in Operators \ {p} : job'[q] = job[q]
  BY DEF Typed

\* What the commands do to their jobs.
LEMMA JobSteps ==
  ASSUME Typed, NEW p \in Operators
  PROVE  /\ \A pc \in {"write", "key"} : [job[p] EXCEPT !.pc = pc] \in Jobs
         /\ (IF job[p].key = NoKey THEN Idle ELSE [job[p] EXCEPT !.pc = "env"]) \in Jobs
         /\ [Idle EXCEPT !.pc = "log", !.key = load_dotenv_if_present] \in Jobs
         /\ \A value \in BOOLEAN :
              [pc |-> "truncate", doc |-> [config EXCEPT !.classify = value], key |-> NoKey] \in Jobs
         /\ \A key \in Keys : [pc |-> "truncate", doc |-> [config EXCEPT !.crypto = TRUE], key |-> key] \in Jobs
  BY Fields DEF Typed, Jobs, Docs, AllKeys, load_dotenv_if_present

LEMMA TypedStep == Typed /\ [Next]_vars => Typed'
  <1> SUFFICES ASSUME Typed, [Next]_vars PROVE Typed'
    OBVIOUS
  <1>1. ASSUME NEW a \in Apps, NEW key \in AllKeys, Mount(a, key) PROVE Typed'
    <2>1. [up |-> TRUE, conf |-> config, key |-> key, excuse |-> ~on \/ torn \/ Rewriting] \in Processes
      BY DEF Typed, Processes
    <2>2. app' \in [Apps -> Processes]
      BY <1>1, <2>1 DEF Mount, Typed
    <2>3. QED
      BY <1>1, <2>2 DEF Mount, Typed, disk, store, marks
  <1>2. ASSUME NEW a \in Apps, NEW e \in Events, Capture(a, e) PROVE Typed'
    BY <1>2 DEF Capture, Typed, disk
  <1>3. ASSUME NEW p \in Operators, log_event(p) PROVE Typed'
    BY <1>3, JobSet, JobSteps DEF log_event, Typed, disk, store, marks
  <1>4. ASSUME NEW p \in Operators, NEW e \in Events, build_and_write(p, e) PROVE Typed'
    BY <1>4, JobSet, Fields DEF build_and_write, Typed, disk
  <1>5. ASSUME NEW p \in Operators, NEW key \in Keys, TurnOn(p, key) PROVE Typed'
    BY <1>5, JobSet, JobSteps DEF TurnOn, Reading, Typed, disk, store
  <1>6. ASSUME NEW p \in Operators, NEW value \in BOOLEAN, toggle_bool_setting(p, value) PROVE Typed'
    BY <1>6, JobSet, JobSteps DEF toggle_bool_setting, Reading, Typed, disk, store
  <1>7. ASSUME NEW p \in Operators, Truncate(p) PROVE Typed'
    <2>1. job' = [job EXCEPT ![p] = [job[p] EXCEPT !.pc = "write"]]
      BY <1>7 DEF Truncate, Typed
    <2>2. QED
      BY <1>7, <2>1, JobSet, JobSteps, Fields DEF Truncate, Typed, store, marks
  <1>8. ASSUME NEW p \in Operators, WriteConfig(p) PROVE Typed'
    <2>1. job' = [job EXCEPT ![p] = IF job[p].key = NoKey THEN Idle ELSE [job[p] EXCEPT !.pc = "env"]]
      BY <1>8 DEF WriteConfig
    <2>2. config' \in Docs
      BY <1>8 DEF WriteConfig, Typed, Jobs
    <2>3. QED
      BY <1>8, <2>1, <2>2, JobSet, JobSteps DEF WriteConfig, Typed, store, marks
  <1>9. ASSUME NEW p \in Operators, TruncateEnv(p) PROVE Typed'
    <2>1. job' = [job EXCEPT ![p] = [job[p] EXCEPT !.pc = "key"]]
      BY <1>9 DEF TruncateEnv, Typed
    <2>2. QED
      BY <1>9, <2>1, JobSet, JobSteps DEF TruncateEnv, Typed, store, AllKeys
  <1>10. ASSUME NEW p \in Operators, write_env_file_var(p) PROVE Typed'
    <2>1. dotenv' \in AllKeys
      BY <1>10 DEF write_env_file_var, Typed, Jobs
    <2>2. QED
      BY <1>10, <2>1, JobSet, Fields DEF write_env_file_var, Typed, store
  <1>11. ASSUME NEW p \in Operators, Kill(p) PROVE Typed'
    BY <1>11, JobSet, Fields DEF Kill, Typed, disk, store
  <1>12. ASSUME Export \/ (\E key \in AllKeys : SetShell(key)) \/ UNCHANGED vars PROVE Typed'
    BY <1>12 DEF Export, SetShell, vars, Typed, disk, store, marks
  <1>13. ASSUME NEW e \in Events, Import(e) \/ Remove(e) PROVE Typed'
    BY <1>13 DEF Import, Remove, Typed, disk
  <1>14. QED
    BY <1>1, <1>2, <1>3, <1>4, <1>5, <1>6, <1>7, <1>8, <1>9, <1>10, <1>11, <1>12, <1>13, Zenon DEF Next, AllKeys

(***************************************************************************)
(* Encryption stays on.  Until rewrites of config.toml overlap or are cut  *)
(* short, one command at a time has it in hand, and from the moment a      *)
(* command goes on to .env the setting is in the file, or in the document  *)
(* that is about to be written to it.                                      *)
(***************************************************************************)
Mid(p) == job[p].pc \in {"truncate", "write"}

Sealing == on \/ \E p \in Operators : job[p].pc \in {"env", "key"}

OneRewrites == ~torn => \A p, q \in Operators : Mid(p) /\ Mid(q) => p = q

Intended == \A p \in Operators : Mid(p) /\ job[p].key # NoKey => job[p].doc.crypto = TRUE

Carried == ~torn /\ Sealing => \A p \in Operators : Mid(p) => job[p].doc.crypto = TRUE

Configured == ~torn /\ Sealing /\ ~Rewriting => config.crypto = TRUE

SettingInv == OneRewrites /\ Intended /\ Carried /\ Configured

LEMMA SettingInit == Init => SettingInv
  BY Fields DEF Init, SettingInv, OneRewrites, Intended, Carried, Configured, Mid, Sealing

\* Steps of jobs that have nothing to do with config.toml.
LEMMA SettingQuiet ==
  ASSUME Typed, SettingInv, UNCHANGED <<config, on, torn>>,
         \A q \in Operators : job'[q] = job[q] \/ (job[q].pc \in {"idle", "log", "truncate", "env", "key"} /\ job'[q].pc \in {"idle", "log"})
  PROVE  SettingInv'
  <1>1. \A q \in Operators : Mid(q)' => Mid(q) /\ job'[q] = job[q]
    BY DEF Mid
  <1>2. Sealing' => Sealing
    BY DEF Sealing
  <1>3. Rewriting => Rewriting'
    BY DEF Rewriting
  <1>4. QED
    BY <1>1, <1>2, <1>3 DEF SettingInv, OneRewrites, Intended, Carried, Configured

\* A command reads config.toml.
LEMMA SettingRead ==
  ASSUME Typed, SettingInv, NEW p \in Operators, NEW doc \in Docs, NEW key \in AllKeys,
         Reading(p), UNCHANGED <<config, on>>, job' = [job EXCEPT ![p] = [pc |-> "truncate", doc |-> doc, key |-> key]],
         key # NoKey => doc.crypto = TRUE, config.crypto = TRUE => doc.crypto = TRUE
  PROVE  SettingInv'
  <1>1. /\ job'[p].pc = "truncate" /\ job'[p].doc = doc /\ job'[p].key = key
        /\ \A q \in Operators \ {p} : job'[q] = job[q]
    BY DEF Typed
  <1>2. job[p].pc = "idle"
    BY Fields DEF Reading
  <1>3. ~torn' => ~torn /\ \A q \in Operators : ~Mid(q)
    BY DEF Reading, Mid
  <1>4. Sealing' <=> Sealing
    BY <1>1, <1>2 DEF Sealing
  <1>5. \A q \in Operators : Mid(q)' <=> q = p \/ Mid(q)
    BY <1>1 DEF Mid
  <1>6. (Rewriting' <=> Rewriting) /\ (Rewriting => \E q \in Operators : Mid(q))
    BY <1>1, <1>2 DEF Rewriting, Mid
  <1>7. OneRewrites'
    BY <1>3, <1>5 DEF OneRewrites
  <1>8. Intended'
    BY <1>1, <1>5 DEF SettingInv, Intended
  <1>9. Configured'
    BY <1>3, <1>4, <1>6 DEF SettingInv, Configured
  <1>10. ~torn' /\ Sealing => doc.crypto = TRUE
    BY <1>3, <1>6 DEF SettingInv, Configured
  <1>11. Carried'
    BY <1>1, <1>3, <1>4, <1>5, <1>10 DEF Carried
  <1>12. QED
    BY <1>7, <1>8, <1>9, <1>11 DEF SettingInv

\* config.toml is empty.
LEMMA SettingTruncate ==
  ASSUME Typed, SettingInv, NEW p \in Operators, Truncate(p)
  PROVE  SettingInv'
  <1>1. /\ job[p].pc = "truncate" /\ UNCHANGED <<on, torn>>
        /\ job'[p].pc = "write" /\ job'[p].doc = job[p].doc /\ job'[p].key = job[p].key
        /\ \A q \in Operators \ {p} : job'[q] = job[q]
    BY DEF Truncate, Typed, Jobs, marks
  <1>2. (\A q \in Operators : (Mid(q)' <=> Mid(q)) /\ job'[q].doc = job[q].doc /\ job'[q].key = job[q].key)
    BY <1>1 DEF Mid
  <1>3. Sealing' <=> Sealing
    BY <1>1 DEF Sealing
  <1>4. Rewriting'
    BY <1>1 DEF Rewriting
  <1>5. QED
    BY <1>1, <1>2, <1>3, <1>4 DEF SettingInv, OneRewrites, Intended, Carried, Configured

\* It is filled again.
LEMMA SettingWrite ==
  ASSUME Typed, SettingInv, NEW p \in Operators, WriteConfig(p)
  PROVE  SettingInv'
  <1>1. /\ job[p].pc = "write" /\ config' = job[p].doc /\ UNCHANGED <<on, torn>>
        /\ job[p].key = NoKey => job'[p].pc = "idle"
        /\ job[p].key # NoKey => job'[p].pc = "env"
        /\ \A q \in Operators \ {p} : job'[q] = job[q]
    BY Fields DEF WriteConfig, Typed, Jobs, marks
  <1>2. \A q \in Operators : Mid(q)' => q # p /\ Mid(q) /\ job'[q] = job[q]
    BY <1>1 DEF Mid
  <1>3. Mid(p)
    BY <1>1 DEF Mid
  <1>4. ~torn => \A q \in Operators : ~Mid(q)'
    BY <1>2, <1>3 DEF SettingInv, OneRewrites
  <1>5. Sealing' => Sealing \/ job[p].key # NoKey
    BY <1>1 DEF Sealing
  <1>6. OneRewrites' /\ Intended' /\ Carried'
    BY <1>1, <1>2, <1>4 DEF SettingInv, OneRewrites, Intended, Carried
  <1>7. Configured'
    BY <1>1, <1>3, <1>5 DEF SettingInv, Intended, Carried, Configured
  <1>8. QED
    BY <1>6, <1>7 DEF SettingInv

\* Steps on .env.
LEMMA SettingEnv ==
  ASSUME Typed, SettingInv, NEW p \in Operators, TruncateEnv(p) \/ write_env_file_var(p)
  PROVE  SettingInv'
  <1>1. /\ job[p].pc \in {"env", "key"} /\ UNCHANGED <<config, torn>>
        /\ job'[p].pc \in {"key", "idle"}
        /\ \A q \in Operators \ {p} : job'[q] = job[q]
    BY Fields DEF TruncateEnv, write_env_file_var, Typed, Jobs
  <1>2. Sealing
    BY <1>1 DEF Sealing
  <1>3. \A q \in Operators : Mid(q)' => Mid(q) /\ job'[q] = job[q]
    BY <1>1 DEF Mid
  <1>4. Rewriting' <=> Rewriting
    BY <1>1 DEF Rewriting
  <1>5. QED
    BY <1>1, <1>2, <1>3, <1>4 DEF SettingInv, OneRewrites, Intended, Carried, Configured

\* A kill while config.toml is empty is remembered.
LEMMA SettingKill ==
  ASSUME Typed, SettingInv, NEW p \in Operators, Kill(p)
  PROVE  SettingInv'
  <1>1. /\ UNCHANGED <<config, on>> /\ (~torn' => ~torn /\ job[p].pc # "write")
        /\ job'[p].pc = "idle" /\ \A q \in Operators \ {p} : job'[q] = job[q]
    BY Fields DEF Kill, Typed, disk
  <1>2. \A q \in Operators : Mid(q)' => Mid(q) /\ job'[q] = job[q]
    BY <1>1 DEF Mid
  <1>3. Sealing' => Sealing
    BY <1>1 DEF Sealing
  <1>4. ~torn' => (Rewriting => Rewriting')
    BY <1>1 DEF Rewriting
  <1>5. QED
    BY <1>1, <1>2, <1>3, <1>4 DEF SettingInv, OneRewrites, Intended, Carried, Configured

LEMMA SettingStep == Typed /\ SettingInv /\ [Next]_vars => SettingInv'
  <1> SUFFICES ASSUME Typed, SettingInv, [Next]_vars PROVE SettingInv'
    OBVIOUS
  <1>q. ASSUME UNCHANGED <<config, on, torn, job>> PROVE SettingInv'
    BY <1>q, SettingQuiet
  <1>1. ASSUME NEW a \in Apps, NEW key \in AllKeys, Mount(a, key) PROVE SettingInv'
    BY <1>1, <1>q DEF Mount, disk, marks
  <1>2. ASSUME NEW a \in Apps, NEW e \in Events, Capture(a, e) PROVE SettingInv'
    BY <1>2, <1>q DEF Capture, disk
  <1>3. ASSUME NEW p \in Operators, log_event(p) PROVE SettingInv'
    <2>1. UNCHANGED <<config, on, torn>> /\ job[p].pc = "idle"
      BY <1>3, Fields DEF log_event, disk, marks
    <2>2. job'[p].pc = "log" /\ \A q \in Operators \ {p} : job'[q] = job[q]
      BY <1>3, Fields DEF log_event, Typed, Jobs
    <2>3. QED
      BY <2>1, <2>2, SettingQuiet
  <1>4. ASSUME NEW p \in Operators, NEW e \in Events, build_and_write(p, e) PROVE SettingInv'
    <2>1. UNCHANGED <<config, on, torn>> /\ job[p].pc = "log"
      BY <1>4 DEF build_and_write, disk
    <2>2. job'[p].pc = "idle" /\ \A q \in Operators \ {p} : job'[q] = job[q]
      BY <1>4, Fields DEF build_and_write, Typed
    <2>3. QED
      BY <2>1, <2>2, SettingQuiet
  <1>5. ASSUME NEW p \in Operators, NEW key \in Keys, TurnOn(p, key) PROVE SettingInv'
    <2> DEFINE doc == [config EXCEPT !.crypto = TRUE]
    <2>1. doc \in Docs /\ doc.crypto = TRUE
      BY DEF Typed, Docs
    <2>2. /\ Reading(p) /\ UNCHANGED <<config, on>>
          /\ job' = [job EXCEPT ![p] = [pc |-> "truncate", doc |-> doc, key |-> key]]
      BY <1>5 DEF TurnOn, disk
    <2> HIDE DEF doc
    <2>3. QED
      BY <2>1, <2>2, SettingRead DEF AllKeys
  <1>6. ASSUME NEW p \in Operators, NEW value \in BOOLEAN, toggle_bool_setting(p, value) PROVE SettingInv'
    <2> DEFINE doc == [config EXCEPT !.classify = value]
    <2>1. doc \in Docs /\ doc.crypto = config.crypto
      BY DEF Typed, Docs
    <2>2. /\ Reading(p) /\ UNCHANGED <<config, on>>
          /\ job' = [job EXCEPT ![p] = [pc |-> "truncate", doc |-> doc, key |-> NoKey]]
      BY <1>6 DEF toggle_bool_setting, disk
    <2> HIDE DEF doc
    <2>3. QED
      BY <2>1, <2>2, SettingRead DEF AllKeys
  <1>7. ASSUME NEW p \in Operators, Truncate(p) \/ WriteConfig(p) \/ TruncateEnv(p) \/ write_env_file_var(p) \/ Kill(p)
        PROVE  SettingInv'
    BY <1>7, SettingTruncate, SettingWrite, SettingEnv, SettingKill
  <1>8. ASSUME Export \/ (\E key \in AllKeys : SetShell(key)) \/ UNCHANGED vars PROVE SettingInv'
    BY <1>8, <1>q DEF Export, SetShell, vars, disk, marks
  <1>9. ASSUME NEW e \in Events, Import(e) \/ Remove(e) PROVE SettingInv'
    BY <1>9, <1>q DEF Import, Remove, disk
  <1>10. QED
    BY <1>1, <1>2, <1>3, <1>4, <1>5, <1>6, <1>7, <1>8, <1>9, Zenon DEF Next, AllKeys

(***************************************************************************)
(* Clear metadata.  An application without an excuse has read the setting, *)
(* so it seals or refuses; what it stored is copied, never opened.         *)
(***************************************************************************)
Aware == \A a \in Apps : app[a].up = TRUE /\ app[a].excuse = FALSE => app[a].conf.crypto = TRUE

ClearRows == \A e \in Events : row[e] # NoRow /\ row[e].metadata.key = NoKey => e \in excused

ClearCopies == \A e \in Events : exported[e] # NoRow /\ exported[e].metadata.key = NoKey => e \in excused

ClearInv == Aware /\ ClearRows /\ ClearCopies

LEMMA ClearInit == Init => ClearInv
  BY Fields DEF Init, ClearInv, Aware, ClearRows, ClearCopies

\* A capture without an excuse is made where the setting is known.
LEMMA ClearWrite ==
  ASSUME Typed, ClearInv, NEW e \in Events, NEW conf \in Docs, NEW key \in AllKeys, NEW excuse \in BOOLEAN,
         resolve_cipher(conf, key).ok, row[e] = NoRow, exported[e] = NoRow,
         row' = [row EXCEPT ![e] = apply_pipeline(Content[e], conf.classify, resolve_cipher(conf, key).key)],
         excused' = IF excuse THEN excused \cup {e} ELSE excused \ {e},
         excuse = FALSE => conf.crypto = TRUE,
         UNCHANGED <<app, exported>>
  PROVE  ClearInv'
  <1>1. row'[e].metadata.key = resolve_cipher(conf, key).key
    <2>1. conf.classify \in BOOLEAN
      BY DEF Docs
    <2>2. row'[e] = apply_pipeline(Content[e], conf.classify, resolve_cipher(conf, key).key)
      BY DEF Typed
    <2>3. QED
      BY <2>1, <2>2, PipelineSeals
  <1>2. \A f \in Events \ {e} : row'[f] = row[f] /\ (f \in excused' <=> f \in excused)
    BY DEF Typed
  <1>3. e \notin excused' => row'[e].metadata.key # NoKey
    BY <1>1, CipherKey
  <1>4. QED
    BY <1>2, <1>3 DEF ClearInv, Aware, ClearRows, ClearCopies

LEMMA ClearStep == Typed /\ SettingInv /\ ClearInv /\ [Next]_vars => ClearInv'
  <1> SUFFICES ASSUME Typed, SettingInv, ClearInv, [Next]_vars PROVE ClearInv'
    OBVIOUS
  <1>q. ASSUME UNCHANGED <<row, exported, excused, app>> PROVE ClearInv'
    BY <1>q DEF ClearInv, Aware, ClearRows, ClearCopies
  <1>1. ASSUME NEW a \in Apps, NEW key \in AllKeys, Mount(a, key) PROVE ClearInv'
    <2>1. ~on \/ torn \/ Rewriting \/ config.crypto = TRUE
      BY DEF SettingInv, Configured, Sealing
    <2>2. /\ app'[a].conf = config /\ app'[a].excuse = (~on \/ torn \/ Rewriting)
          /\ \A b \in Apps \ {a} : app'[b] = app[b]
      BY <1>1 DEF Mount, Typed
    <2>3. Aware'
      BY <2>1, <2>2 DEF ClearInv, Aware
    <2>4. QED
      BY <1>1, <2>3 DEF Mount, store, marks, ClearInv, ClearRows, ClearCopies
  <1>2. ASSUME NEW a \in Apps, NEW e \in Events, Capture(a, e) PROVE ClearInv'
    <2>1. app[a].conf \in Docs /\ app[a].key \in AllKeys /\ app[a].excuse \in BOOLEAN
      BY DEF Typed, Processes
    <2>2. app[a].excuse = FALSE => app[a].conf.crypto = TRUE
      BY <1>2, <2>1 DEF Capture, ClearInv, Aware, Typed, Processes
    <2>3. QED
      BY <1>2, <2>1, <2>2, ClearWrite DEF Capture
  <1>3. ASSUME NEW p \in Operators, NEW e \in Events, build_and_write(p, e) PROVE ClearInv'
    <2> DEFINE excuse == ~on \/ torn \/ Rewriting
    <2>1. config \in Docs /\ job[p].key \in AllKeys /\ excuse \in BOOLEAN
      BY DEF Typed, Jobs
    <2>2. excuse = FALSE => config.crypto = TRUE
      BY DEF SettingInv, Configured, Sealing
    <2>3. CASE resolve_cipher(config, job[p].key).ok
      <3>1. /\ row[e] = NoRow /\ exported[e] = NoRow /\ UNCHANGED <<app, exported>>
            /\ row' = [row EXCEPT ![e] = apply_pipeline(Content[e], config.classify, resolve_cipher(config, job[p].key).key)]
            /\ excused' = IF excuse THEN excused \cup {e} ELSE excused \ {e}
        BY <1>3, <2>3 DEF build_and_write
      <3> HIDE DEF excuse
      <3>2. QED
        BY <2>1, <2>2, <2>3, <3>1, ClearWrite
    <2>4. CASE ~resolve_cipher(config, job[p].key).ok
      BY <1>3, <2>4, <1>q DEF build_and_write
    <2>5. QED
      BY <2>3, <2>4
  <1>4. ASSUME NEW p \in Operators,
               \/ log_event(p) \/ Truncate(p) \/ WriteConfig(p) \/ TruncateEnv(p) \/ write_env_file_var(p) \/ Kill(p)
               \/ \E key \in Keys : TurnOn(p, key)
               \/ \E value \in BOOLEAN : toggle_bool_setting(p, value)
        PROVE  ClearInv'
    BY <1>4, <1>q DEF log_event, Truncate, WriteConfig, TruncateEnv, write_env_file_var, Kill, TurnOn,
                      toggle_bool_setting, store, marks
  <1>5. ASSUME Export PROVE ClearInv'
    BY <1>5 DEF Export, marks, ClearInv, Aware, ClearRows, ClearCopies
  <1>6. ASSUME (\E key \in AllKeys : SetShell(key)) \/ UNCHANGED vars PROVE ClearInv'
    BY <1>6, <1>q DEF SetShell, vars, store, marks
  <1>7. ASSUME NEW e \in Events, Import(e) \/ Remove(e) PROVE ClearInv'
    <2>1. /\ row'[e] \in {exported[e], NoRow} /\ \A f \in Events \ {e} : row'[f] = row[f]
          /\ UNCHANGED <<exported, excused, app>>
      BY <1>7 DEF Import, Remove, Typed
    <2>2. QED
      BY <2>1 DEF ClearInv, Aware, ClearRows, ClearCopies
  <1>8. QED
    BY <1>1, <1>2, <1>3, <1>4, <1>5, <1>6, <1>7, Zenon DEF Next, AllKeys

(* Once encryption has been turned on, no application mounted since, and   *)
(* no CLI command run since, stores metadata in the clear, with any number *)
(* of applications, operators, events and keys, and with any mounts, kills *)
(* and rewrites in any order (resolve_cipher, load_or_default,             *)
(* enable_metadata_encryption, toggle_bool_setting).                       *)
THEOREM NeverClear == Spec => []NeverInTheClear
  <1>1. Init => Typed /\ SettingInv /\ ClearInv
    BY TypedInit, SettingInit, ClearInit
  <1>2. Typed /\ SettingInv /\ ClearInv /\ [Next]_vars => (Typed /\ SettingInv /\ ClearInv)'
    BY TypedStep, SettingStep, ClearStep
  <1>3. ClearInv => NeverInTheClear
    BY DEF ClearInv, ClearRows, NeverInTheClear, Rows
  <1>4. QED
    BY <1>1, <1>2, <1>3, PTL DEF Spec

(***************************************************************************)
(* Keys.  A key that is somewhere is the one in .env, or was removed from  *)
(* it: no other key ever leaves a command.                                 *)
(***************************************************************************)
Kept(k) == k = NoKey \/ k \in retired \/ k = dotenv

KeptInUse ==
  /\ Kept(shell)
  /\ \A a \in Apps : Kept(app[a].key)
  /\ \A p \in Operators : job[p].pc = "log" => Kept(job[p].key)

KeptInRows == \A e \in Events : row[e] # NoRow => Kept(row[e].metadata.key)

KeptInCopies == \A e \in Events : exported[e] # NoRow => Kept(exported[e].metadata.key)

KeysInv == KeptInUse /\ KeptInRows /\ KeptInCopies

LEMMA KeysInit == Init => KeysInv
  BY Fields DEF Init, KeysInv, KeptInUse, KeptInRows, KeptInCopies, Kept

LEMMA KeysStep == Typed /\ KeysInv /\ [Next]_vars => KeysInv'
  <1> SUFFICES ASSUME Typed, KeysInv, [Next]_vars PROVE KeysInv'
    OBVIOUS
  <1> DEFINE Stays == UNCHANGED <<dotenv, retired>>
             LogsAlone(p) ==
               /\ job'[p].pc = "log" => job[p].pc = "log" /\ job'[p].key = job[p].key
               /\ \A q \in Operators \ {p} : job'[q] = job[q]
  <1>a. Stays => \A k : Kept(k) => (k = NoKey \/ k \in retired' \/ k = dotenv')
    BY DEF Kept
  <1>b. ASSUME NEW p \in Operators, UNCHANGED <<shell, app, row, exported>>, LogsAlone(p),
               Stays \/ retired' = retired \cup ({dotenv} \ {NoKey})
        PROVE  KeysInv'
    BY <1>b DEF Kept, KeysInv, KeptInUse, KeptInRows, KeptInCopies
  <1>c. ASSUME NEW e \in Events, NEW conf \in Docs, NEW key \in AllKeys, Kept(key), Stays,
               row' = [row EXCEPT ![e] = apply_pipeline(Content[e], conf.classify, resolve_cipher(conf, key).key)]
        PROVE  KeptInRows'
    <2>1. resolve_cipher(conf, key).key \in {key, NoKey}
      BY CipherKey
    <2>2. row'[e].metadata.key = resolve_cipher(conf, key).key
      <3>1. conf.classify \in BOOLEAN
        BY DEF Docs
      <3>2. row'[e] = apply_pipeline(Content[e], conf.classify, resolve_cipher(conf, key).key)
        BY <1>c DEF Typed
      <3>3. QED
        BY <3>1, <3>2, PipelineSeals
    <2>3. \A f \in Events \ {e} : row'[f] = row[f]
      BY <1>c DEF Typed
    <2>4. QED
      BY <1>c, <2>1, <2>2, <2>3 DEF Kept, KeysInv, KeptInRows
  <1>1. ASSUME NEW a \in Apps, NEW key \in AllKeys, Mount(a, key) PROVE KeysInv'
    <2>1. /\ app'[a].key = key /\ Kept(key) /\ \A b \in Apps \ {a} : app'[b] = app[b]
          /\ Stays /\ UNCHANGED <<shell, job, row, exported>>
      BY <1>1 DEF Mount, Typed, KeysInv, KeptInUse, Kept, disk, store, marks
    <2>2. QED
      BY <2>1 DEF Kept, KeysInv, KeptInUse, KeptInRows, KeptInCopies
  <1>2. ASSUME NEW a \in Apps, NEW e \in Events, Capture(a, e) PROVE KeysInv'
    <2>1. app[a].conf \in Docs /\ app[a].key \in AllKeys /\ Kept(app[a].key)
      BY DEF Typed, Processes, KeysInv, KeptInUse
    <2>2. Stays /\ UNCHANGED <<shell, app, job, exported>>
      BY <1>2 DEF Capture, disk
    <2>3. KeptInRows'
      BY <1>2, <2>1, <2>2, <1>c DEF Capture
    <2>4. QED
      BY <2>2, <2>3 DEF Kept, KeysInv, KeptInUse, KeptInCopies
  <1>3. ASSUME NEW p \in Operators, NEW e \in Events, build_and_write(p, e) PROVE KeysInv'
    <2>1. config \in Docs /\ job[p].key \in AllKeys /\ Kept(job[p].key)
      BY <1>3 DEF build_and_write, Typed, Jobs, KeysInv, KeptInUse
    <2>2. /\ Stays /\ UNCHANGED <<shell, app, exported>>
          /\ job'[p].pc = "idle" /\ \A q \in Operators \ {p} : job'[q] = job[q]
      BY <1>3, Fields DEF build_and_write, disk, Typed
    <2>3. KeptInRows'
      <3>1. CASE resolve_cipher(config, job[p].key).ok
        BY <1>3, <2>1, <2>2, <3>1, <1>c DEF build_and_write
      <3>2. CASE ~resolve_cipher(config, job[p].key).ok
        BY <1>3, <2>2, <3>2 DEF build_and_write, Kept, KeysInv, KeptInRows
      <3>3. QED
        BY <3>1, <3>2
    <2>4. QED
      BY <2>2, <2>3 DEF Kept, KeysInv, KeptInUse, KeptInCopies
  <1>4. ASSUME NEW p \in Operators, log_event(p) PROVE KeysInv'
    <2>1. /\ job'[p].key = load_dotenv_if_present /\ \A q \in Operators \ {p} : job'[q] = job[q]
          /\ Stays /\ UNCHANGED <<shell, app, row, exported>>
      BY <1>4, Fields DEF log_event, Typed, Jobs, Idle, disk, store, marks
    <2>2. Kept(load_dotenv_if_present)
      BY DEF load_dotenv_if_present, KeysInv, KeptInUse, Kept
    <2>3. QED
      BY <2>1, <2>2 DEF Kept, KeysInv, KeptInUse, KeptInRows, KeptInCopies
  <1>5. ASSUME NEW p \in Operators, (\E key \in Keys : TurnOn(p, key)) \/ (\E value \in BOOLEAN : toggle_bool_setting(p, value))
        PROVE  KeysInv'
    <2>1. job'[p].pc = "truncate" /\ \A q \in Operators \ {p} : job'[q] = job[q]
      BY <1>5 DEF TurnOn, toggle_bool_setting, Typed
    <2>2. Stays /\ UNCHANGED <<shell, app, row, exported>>
      BY <1>5 DEF TurnOn, toggle_bool_setting, disk, store
    <2>3. QED
      BY <1>b, <2>1, <2>2
  <1>6. ASSUME NEW p \in Operators, Truncate(p) \/ WriteConfig(p) \/ Kill(p) PROVE KeysInv'
    <2>1. job'[p].pc \in {"write", "env", "idle"} /\ \A q \in Operators \ {p} : job'[q] = job[q]
      BY <1>6, Fields DEF Truncate, WriteConfig, Kill, Typed, Jobs
    <2>2. Stays /\ UNCHANGED <<shell, app, row, exported>>
      BY <1>6 DEF Truncate, WriteConfig, Kill, disk, store, marks
    <2>3. QED
      BY <1>b, <2>1, <2>2
  <1>7. ASSUME NEW p \in Operators, TruncateEnv(p) \/ write_env_file_var(p) PROVE KeysInv'
    <2>1. job'[p].pc \in {"key", "idle"} /\ \A q \in Operators \ {p} : job'[q] = job[q]
      BY <1>7, Fields DEF TruncateEnv, write_env_file_var, Typed, Jobs
    <2>2. retired' = retired \cup ({dotenv} \ {NoKey}) /\ UNCHANGED <<shell, app, row, exported>>
      BY <1>7 DEF TruncateEnv, write_env_file_var, store
    <2>3. QED
      BY <1>b, <2>1, <2>2
  <1>8. ASSUME (\E key \in AllKeys : SetShell(key)) \/ Export \/ UNCHANGED vars PROVE KeysInv'
    <2>1. Stays /\ UNCHANGED <<app, job, row>> /\ shell' \in {shell, dotenv, NoKey} /\ exported' \in {exported, row}
      BY <1>8 DEF SetShell, Export, vars, disk, store, marks
    <2>2. QED
      BY <2>1 DEF Kept, KeysInv, KeptInUse, KeptInRows, KeptInCopies
  <1>9. ASSUME NEW e \in Events, Import(e) \/ Remove(e) PROVE KeysInv'
    <2>1. /\ row'[e] \in {exported[e], NoRow} /\ \A f \in Events \ {e} : row'[f] = row[f]
          /\ Stays /\ UNCHANGED <<shell, app, job, exported>>
      BY <1>9 DEF Import, Remove, Typed, disk
    <2>2. QED
      BY <2>1 DEF Kept, KeysInv, KeptInUse, KeptInRows, KeptInCopies
  <1>10. QED
    BY <1>1, <1>2, <1>3, <1>4, <1>5, <1>6, <1>7, <1>8, <1>9, Zenon DEF Next, AllKeys

(* What is sealed can be read by the CLI as long as neither the key it was *)
(* sealed with nor the one the reader's shell exports has been replaced in *)
(* .env, however often keys are rotated, rows exported and imported, and   *)
(* commands killed (load_dotenv_if_present, get_event, write_env_file_var).*)
THEOREM SealedIsReadable == Spec => []SealedReadable
  <1>1. Init => Typed /\ KeysInv
    BY TypedInit, KeysInit
  <1>2. Typed /\ KeysInv /\ [Next]_vars => (Typed /\ KeysInv)'
    BY TypedStep, KeysStep
  <1>3. KeysInv => SealedReadable
    BY DEF KeysInv, KeptInUse, KeptInRows, Kept, SealedReadable, Rows, get_event, load_dotenv_if_present,
           decrypt_metadata_for_display
  <1>4. QED
    BY <1>1, <1>2, <1>3, PTL DEF Spec

(***************************************************************************)
(* What redaction does to a text: it is not tagged any more, and what only *)
(* its secret told apart is the same.                                      *)
(***************************************************************************)
LEMMA TextMasked ==
  ASSUME NEW t, IsText(t)
  PROVE  IsText(redact_text(t)) /\ redact_text(t).kind # "tagged" /\ redact_text(t).digits = t.digits
  <1> DEFINE kind == t.kind  secret == t.secret  digits == t.digits
  <1>1. t = [kind |-> kind, secret |-> secret, digits |-> digits]
    BY DEF IsText
  <1> HIDE DEF kind, secret, digits
  <1>2. CASE kind = "tagged"
    <2>1. redact_text(t) = [kind |-> "masked", secret |-> NoSecret, digits |-> digits]
      BY <1>1, <1>2 DEF redact_text
    <2> QED
      BY <1>1, <2>1 DEF IsText
  <1>3. CASE kind # "tagged"
    BY <1>1, <1>3 DEF redact_text, IsText
  <1> QED
    BY <1>2, <1>3

LEMMA SameMasked ==
  ASSUME NEW t, NEW u, IsText(t), IsText(u), SameText(t, u)
  PROVE  redact_text(t) = redact_text(u)
  BY DEF SameText, IsText, redact_text

LEMMA NormText ==
  ASSUME NEW t, IsText(t)
  PROVE  IsText(Norm(t)) /\ redact_text(Norm(t)) = Norm(redact_text(t))
  <1>1. t = [kind |-> t.kind, secret |-> t.secret, digits |-> t.digits]
    BY DEF IsText
  <1>2. Norm(t) = [kind |-> t.kind, secret |-> t.secret, digits |-> 0]
    BY <1>1 DEF Norm
  <1>3. CASE t.kind = "tagged"
    <2>1. redact_text(t) = [kind |-> "masked", secret |-> NoSecret, digits |-> t.digits]
      BY <1>1, <1>3 DEF redact_text
    <2>2. ASSUME NEW u, NEW secret, NEW digits, u = [kind |-> "tagged", secret |-> secret, digits |-> digits]
          PROVE  redact_text(u) = [kind |-> "masked", secret |-> NoSecret, digits |-> digits]
      <3>1. redact_text(u) = [u EXCEPT !.kind = "masked", !.secret = NoSecret]
        BY <2>2 DEF redact_text
      <3> QED
        BY <2>2, <3>1
    <2>3. redact_text(Norm(t)) = [kind |-> "masked", secret |-> NoSecret, digits |-> 0]
      BY <1>2, <1>3, <2>2
    <2> QED
      BY <1>2, <2>1, <2>3 DEF Norm, IsText
  <1>4. CASE t.kind # "tagged"
    BY <1>2, <1>4 DEF redact_text, IsText
  <1> QED
    BY <1>3, <1>4

(***************************************************************************)
(* What the pipeline makes of an event ev.                                 *)
(***************************************************************************)
Masked(ev, stored) ==
  /\ \A t \in {stored.message, stored.stacktrace, stored.metadata.text} \cup stored.context : t.kind # "tagged"
  /\ stored.fingerprint = <<redact_text(ev.message), redact_text(ev.stack_norm), stored.category>>

LEMMA PipelineMasks ==
  ASSUME NEW ev, IsBuilt(ev), NEW auto_classify \in BOOLEAN, NEW key
  PROVE  Masked(ev, apply_pipeline(ev, auto_classify, key))
  <1> DEFINE rich == enrich(ev)
             redacted == redact(rich)
             ready == IF auto_classify THEN classify(redacted) ELSE redacted
             sealed == encrypt_metadata(ready, key)
             stored == apply_pipeline(ev, auto_classify, key)
             AllFields == {"message", "stacktrace", "stack_norm", "context", "metadata", "words", "category"}
  <1>1. /\ DOMAIN rich = AllFields /\ DOMAIN rich.context = {"object", "values"}
        /\ rich.message = ev.message /\ rich.stacktrace = ev.stacktrace /\ rich.metadata = ev.metadata
        /\ \A t \in rich.context.values : IsText(t)
    <2>1. CASE ev.context.object
      <3>1. rich = [ev EXCEPT !.context = [ev.context EXCEPT !.values = ev.context.values \cup Argv]]
        BY <2>1, BuiltFields DEF enrich
      <3>2. /\ rich.context = [ev.context EXCEPT !.values = ev.context.values \cup Argv]
            /\ DOMAIN rich = AllFields /\ rich.message = ev.message /\ rich.stacktrace = ev.stacktrace
            /\ rich.metadata = ev.metadata
        BY <3>1, BuiltFields
      <3>3. rich.context.values = ev.context.values \cup Argv /\ DOMAIN rich.context = {"object", "values"}
        BY <3>2, BuiltFields
      <3> QED
        BY <3>2, <3>3, BuiltFields, MetadataAssumption
    <2>2. CASE ~ev.context.object
      BY <2>2, BuiltFields DEF enrich
    <2> QED
      BY <2>1, <2>2
  <1> HIDE DEF rich
  <1>2. /\ redacted.message = redact_text(ev.message)
        /\ redacted.stacktrace = redact_text(ev.stacktrace)
        /\ redacted.stack_norm = Norm(redact_text(ev.stacktrace))
        /\ redacted.context.values = {redact_text(t) : t \in rich.context.values}
        /\ redacted.metadata.text = redact_text(ev.metadata.text)
        /\ DOMAIN redacted = AllFields /\ DOMAIN redacted.metadata = {"key", "text"}
    <2> DEFINE masked == stacktrace(rich, redact_text(rich.stacktrace))
               values == {redact_text(t) : t \in rich.context.values}
    <2>1. /\ DOMAIN masked = AllFields /\ masked.message = rich.message /\ masked.context = rich.context
          /\ masked.metadata = rich.metadata /\ masked.stacktrace = redact_text(rich.stacktrace)
          /\ masked.stack_norm = Norm(redact_text(rich.stacktrace))
      BY <1>1 DEF stacktrace, Norm
    <2>2. redacted = [masked EXCEPT !.message = redact_text(masked.message),
                                    !.context = [masked.context EXCEPT !.values = values],
                                    !.metadata = [masked.metadata EXCEPT !.text = redact_text(masked.metadata.text)]]
      BY <1>1, <2>1 DEF redact
    <2> HIDE DEF masked, values
    <2>3. /\ redacted.message = redact_text(masked.message)
          /\ redacted.context = [masked.context EXCEPT !.values = values]
          /\ redacted.metadata = [masked.metadata EXCEPT !.text = redact_text(masked.metadata.text)]
          /\ redacted.stacktrace = masked.stacktrace /\ redacted.stack_norm = masked.stack_norm
          /\ DOMAIN redacted = AllFields
      BY <2>1, <2>2
    <2>4. redacted.context.values = values
      BY <1>1, <2>1, <2>3
    <2>5. redacted.metadata.text = redact_text(ev.metadata.text) /\ DOMAIN redacted.metadata = {"key", "text"}
      <3>1. rich.metadata = [key |-> NoKey, text |-> ev.metadata.text]
        BY <1>1, BuiltFields
      <3> QED
        BY <2>1, <2>3, <3>1
    <2> QED
      BY <1>1, <2>1, <2>3, <2>4, <2>5 DEF values
  <1> HIDE DEF redacted
  <1>3. /\ ready.message = redacted.message /\ ready.stacktrace = redacted.stacktrace
        /\ ready.stack_norm = redacted.stack_norm /\ ready.context = redacted.context
        /\ ready.metadata = redacted.metadata /\ DOMAIN ready = AllFields
    <2>1. ASSUME NEW c
          PROVE  LET marked == [redacted EXCEPT !.category = c]
                 IN  /\ marked.message = redacted.message /\ marked.stacktrace = redacted.stacktrace
                     /\ marked.stack_norm = redacted.stack_norm /\ marked.context = redacted.context
                     /\ marked.metadata = redacted.metadata /\ DOMAIN marked = AllFields
      BY <1>2
    <2>2. ready = redacted \/ \E c : ready = [redacted EXCEPT !.category = c]
      BY DEF classify
    <2> HIDE DEF ready
    <2> QED
      BY <1>2, <2>1, <2>2
  <1> HIDE DEF ready
  <1>4. /\ sealed.message = ready.message /\ sealed.stacktrace = ready.stacktrace
        /\ sealed.stack_norm = ready.stack_norm /\ sealed.context = ready.context
        /\ sealed.metadata.text = ready.metadata.text
    <2>1. sealed = [ready EXCEPT !.metadata = [ready.metadata EXCEPT !.key = key]]
      BY <1>3 DEF encrypt_metadata
    <2>2. sealed.metadata = [ready.metadata EXCEPT !.key = key]
      BY <1>3, <2>1
    <2> QED
      BY <1>2, <1>3, <2>1, <2>2
  <1> HIDE DEF sealed
  <1>5. stored = build(sealed)
    BY DEF apply_pipeline, stored, sealed, ready, redacted, rich
  <1> HIDE DEF stored
  <1>6. /\ stored.message = redact_text(ev.message) /\ stored.stacktrace = redact_text(ev.stacktrace)
        /\ stored.metadata.text = redact_text(ev.metadata.text)
        /\ stored.context = {redact_text(t) : t \in rich.context.values}
        /\ stored.fingerprint = <<redact_text(ev.message), Norm(redact_text(ev.stacktrace)), stored.category>>
    BY <1>2, <1>3, <1>4, <1>5 DEF build, compute_fingerprint
  <1>7. redact_text(ev.stack_norm) = Norm(redact_text(ev.stacktrace))
    BY BuiltFields, NormText
  <1>8. \A t \in stored.context : t.kind # "tagged"
    BY <1>1, <1>6, TextMasked
  <1>9. /\ stored.message.kind # "tagged" /\ stored.stacktrace.kind # "tagged"
        /\ stored.metadata.text.kind # "tagged"
    BY <1>6, BuiltFields, TextMasked
  <1> QED
    BY <1>6, <1>7, <1>8, <1>9 DEF Masked, stored

(***************************************************************************)
(* Whatever is in the database or in an export has been through it.        *)
(***************************************************************************)
MaskInv ==
  \A e \in Events :
    /\ row[e] # NoRow => Masked(Content[e], row[e])
    /\ exported[e] # NoRow => Masked(Content[e], exported[e])

LEMMA MaskInit == Init => MaskInv
  BY DEF Init, MaskInv

LEMMA MaskWrite ==
  ASSUME Typed, MaskInv, NEW e \in Events, NEW auto_classify \in BOOLEAN, NEW key,
         row' = [row EXCEPT ![e] = apply_pipeline(Content[e], auto_classify, key)], UNCHANGED exported
  PROVE  MaskInv'
  <1>1. row'[e] = apply_pipeline(Content[e], auto_classify, key) /\ \A f \in Events \ {e} : row'[f] = row[f]
    BY DEF Typed
  <1>2. Masked(Content[e], row'[e])
    BY <1>1, PipelineMasks, MetadataAssumption
  <1> QED
    BY <1>1, <1>2 DEF MaskInv

LEMMA MaskStep == Typed /\ MaskInv /\ [Next]_vars => MaskInv'
  <1> SUFFICES ASSUME Typed, MaskInv, [Next]_vars PROVE MaskInv'
    OBVIOUS
  <1>q. ASSUME UNCHANGED <<row, exported>> PROVE MaskInv'
    BY <1>q DEF MaskInv
  <1>1. ASSUME NEW a \in Apps, NEW key \in AllKeys, Mount(a, key) PROVE MaskInv'
    BY <1>1, <1>q DEF Mount, store
  <1>2. ASSUME NEW a \in Apps, NEW e \in Events, Capture(a, e) PROVE MaskInv'
    <2>1. app[a].conf.classify \in BOOLEAN
      BY DEF Typed, Processes, Docs
    <2> QED
      BY <1>2, <2>1, MaskWrite DEF Capture
  <1>3. ASSUME NEW p \in Operators, NEW e \in Events, build_and_write(p, e) PROVE MaskInv'
    <2>1. config.classify \in BOOLEAN
      BY DEF Typed, Docs
    <2> QED
      BY <1>3, <1>q, <2>1, MaskWrite DEF build_and_write
  <1>4. ASSUME NEW p \in Operators,
               \/ log_event(p) \/ Truncate(p) \/ WriteConfig(p) \/ TruncateEnv(p) \/ write_env_file_var(p) \/ Kill(p)
               \/ \E key \in Keys : TurnOn(p, key)
               \/ \E value \in BOOLEAN : toggle_bool_setting(p, value)
        PROVE  MaskInv'
    BY <1>4, <1>q DEF log_event, Truncate, WriteConfig, TruncateEnv, write_env_file_var, Kill, TurnOn,
                      toggle_bool_setting, store
  <1>5. ASSUME Export PROVE MaskInv'
    BY <1>5 DEF Export, MaskInv
  <1>6. ASSUME (\E key \in AllKeys : SetShell(key)) \/ UNCHANGED vars PROVE MaskInv'
    BY <1>6, <1>q DEF SetShell, vars, store
  <1>7. ASSUME NEW e \in Events, Import(e) \/ Remove(e) PROVE MaskInv'
    <2>1. /\ row'[e] \in {exported[e], NoRow} /\ \A f \in Events \ {e} : row'[f] = row[f]
          /\ UNCHANGED exported
      BY <1>7 DEF Import, Remove, Typed
    <2> QED
      BY <2>1 DEF MaskInv
  <1> QED
    BY <1>1, <1>2, <1>3, <1>4, <1>5, <1>6, <1>7, Zenon DEF Next, AllKeys

(* No secret that stands beside its tag is stored, nor tells two           *)
(* fingerprints apart, whatever callers hand in, whatever the rules are    *)
(* and whether or not the application classifies (apply_pipeline,          *)
(* EventBuilder::redact, compute_fingerprint).                             *)
THEOREM NoTraceOfSecrets == Spec => []SecretsLeaveNoTrace
  <1>1. Init => Typed /\ MaskInv
    BY TypedInit, MaskInit
  <1>2. Typed /\ MaskInv /\ [Next]_vars => (Typed /\ MaskInv)'
    BY TypedStep, MaskStep
  <1>3. MaskInv => SecretsLeaveNoTrace
    <2> SUFFICES ASSUME MaskInv, NEW e \in Rows, NEW f \in Rows
                 PROVE  /\ \A t \in {row[e].message, row[e].stacktrace, row[e].metadata.text} \cup row[e].context :
                             t.kind # "tagged"
                        /\ SameFailure(Content[e], Content[f]) /\ row[e].category = row[f].category =>
                             row[e].fingerprint = row[f].fingerprint
      BY DEF SecretsLeaveNoTrace
    <2>1. Masked(Content[e], row[e]) /\ Masked(Content[f], row[f])
      BY DEF MaskInv, Rows
    <2>2. /\ IsText(Content[e].message) /\ IsText(Content[e].stack_norm)
          /\ IsText(Content[f].message) /\ IsText(Content[f].stack_norm)
      BY MetadataAssumption, BuiltFields, NormText DEF Rows
    <2>3. SameFailure(Content[e], Content[f]) =>
            /\ redact_text(Content[e].message) = redact_text(Content[f].message)
            /\ redact_text(Content[e].stack_norm) = redact_text(Content[f].stack_norm)
      BY <2>2, SameMasked DEF SameFailure
    <2> QED
      BY <2>1, <2>3 DEF Masked
  <1> QED
    BY <1>1, <1>2, <1>3, PTL DEF Spec
=============================================================================
