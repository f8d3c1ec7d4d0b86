------------------------------ MODULE Pipeline ------------------------------
(***************************************************************************)
(* What becomes of an event between the caller and the store:              *)
(* apply_pipeline (witslog-runtime lib.rs) enriches, redacts, classifies,  *)
(* encrypts and builds, in this order.  witslog_log (witslog-ffi lib.rs)   *)
(* does the same without classifying.                                      *)
(*                                                                         *)
(* A text is what the properties tell apart of a string.  Its kind:        *)
(*   "plain"   no secret in it;                                            *)
(*   "tagged"  a secret with what a redaction pattern looks for beside it  *)
(*             (password=..., AKIA...);                                    *)
(*   "keyed"   a secret whose tag is the JSON key above it;                *)
(*   "masked"  a tagged secret, redacted.                                  *)
(* digits stands for the numbers in it.                                    *)
(***************************************************************************)
EXTENDS Naturals, Sequences, FiniteSetsExt

CONSTANTS
  Argv,        \* the process's arguments, texts that enrich adds to the context
  Rules,       \* the classifier's rules, custom ones before the built-in ones
  NoSecret, NoKey, NoCategory

Plain(n) == [kind |-> "plain", secret |-> NoSecret, digits |-> n]

(***************************************************************************)
(* An event under construction: metadata is sealed with key, or NoKey;     *)
(* context.object is FALSE if the caller gave a JSON value that is no      *)
(* object; words, per kind of rule, are what rules can match.              *)
(***************************************************************************)
stacktrace(ev, t) == [ev EXCEPT !.stacktrace = t, !.stack_norm = [t EXCEPT !.digits = 0]]

EventBuilder(message, trace, context, metadata, words) ==
  stacktrace(
    [message |-> message, stacktrace |-> trace, stack_norm |-> trace,
     context |-> context, metadata |-> [key |-> NoKey, text |-> metadata],
     words |-> words, category |-> NoCategory], trace)

\* What callers hand in: texts, and a category of their own or none.
IsText(t) == t = [kind |-> t.kind, secret |-> t.secret, digits |-> t.digits]

IsBuilt(ev) ==
  /\ ev = [EventBuilder(ev.message, ev.stacktrace, ev.context, ev.metadata.text, ev.words)
             EXCEPT !.category = ev.category]
  /\ IsText(ev.message) /\ IsText(ev.stacktrace) /\ IsText(ev.metadata.text)
  /\ ev.context = [object |-> ev.context.object, values |-> ev.context.values]
  /\ \A t \in ev.context.values : IsText(t)

\* What the caller put in the context wins; a context that is no object is left alone.
enrich(ev) == IF ev.context.object THEN [ev EXCEPT !.context.values = @ \cup Argv] ELSE ev

\* A Rule looks at one string at a time, and redact_json at values, not at keys.
redact_text(t) == IF t.kind = "tagged" THEN [t EXCEPT !.kind = "masked", !.secret = NoSecret] ELSE t

\* Mutant: the normalized trace is not computed anew.
redact_KeepsNorm(ev) ==
  [ev EXCEPT !.message = redact_text(@), !.stacktrace = redact_text(@),
             !.context.values = {redact_text(t) : t \in @}, !.metadata.text = redact_text(@)]

\* The exception is a text that is redacted and hashed as the message is, and left out.
redact(ev) ==
  LET masked == stacktrace(ev, redact_text(ev.stacktrace))
  IN  [masked EXCEPT !.message = redact_text(@),
                     !.context.values = {redact_text(t) : t \in @}, !.metadata.text = redact_text(@)]

(***************************************************************************)
(* By error code, then by exception, then by message; among the rules of a *)
(* kind the first that matches.  A category the caller set stays.          *)
(***************************************************************************)
classify(ev) ==
  LET hits(kind) == {i \in 1..Len(Rules) : Rules[i].kind = kind /\ Rules[i].word \in ev.words[kind]}
      strongest == IF hits("code") # {} THEN hits("code")
                   ELSE IF hits("exception") # {} THEN hits("exception") ELSE hits("message")
  IN  IF ev.category = NoCategory /\ strongest # {}
      THEN [ev EXCEPT !.category = Rules[Min(strongest)].category] ELSE ev

encrypt_metadata(ev, key) == [ev EXCEPT !.metadata.key = key]

\* The hash of these, here of all lines of the trace: that it takes the first five
\* only makes more events alike.
compute_fingerprint(ev) == <<ev.message, ev.stack_norm, ev.category>>

build(ev) ==
  [message |-> ev.message, stacktrace |-> ev.stacktrace, context |-> ev.context.values,
   metadata |-> ev.metadata, category |-> ev.category, fingerprint |-> compute_fingerprint(ev)]

apply_pipeline(ev, auto_classify, key) ==
  LET redacted == redact(enrich(ev))
  IN  build(encrypt_metadata(IF auto_classify THEN classify(redacted) ELSE redacted, key))

\* What a reader who holds key is shown of metadata: the text, or a placeholder.
decrypt_metadata_for_display(metadata, key) ==
  IF metadata.key \in {NoKey, key} THEN metadata.text ELSE [Plain(0) EXCEPT !.kind = "<encrypted>"]
=============================================================================
