-------------------------------- MODULE Live --------------------------------
(***************************************************************************)
(* Rung 6 as a pure function: crates/checks/src/rung6_live.rs, and what    *)
(* crates/sweeper/src/bin/liveness.rs reads out of a document for it.      *)
(*                                                                         *)
(* A document has two fields, `services` and its legacy name `endpoints`.  *)
(* A field is [form, entries]: "null" for absent or null, "array", or      *)
(* "other" for anything else.  An entry is what was written as its         *)
(* `endpoint`, trimmed:                                                    *)
(*   text    FALSE if it is absent or not a string                         *)
(*   blank   nothing is left of it                                         *)
(*   scheme  the scheme it starts with, "none" for no known one            *)
(*   triple  it has the shape of a CAIP-10 identifier                      *)
(*   email   it has the shape of an address                                *)
(*   url     the URL it names                                              *)
(***************************************************************************)
EXTENDS Checks

NullField == [form |-> "null", entries |-> <<>>]

\* What stands in a document: its services, or what the older name holds.
Services(doc) == IF doc.services.form # "null" THEN doc.services ELSE doc.endpoints

HasEntries(doc) == Services(doc).form = "array"

\* classify_endpoint.  The order matters: an address after mailto:, and an
\* identifier with a scheme-like prefix, must be known before the shapes are.
Kind(entry) ==
    CASE ~entry.text -> "missing"
      [] entry.text /\ entry.blank -> "other"
      [] entry.text /\ ~entry.blank ->
           CASE entry.scheme \in {"https", "http"} -> entry.scheme
             [] entry.scheme = "mailto" -> "email"
             [] entry.scheme = "none" ->
                  IF entry.triple THEN "caip10"
                  ELSE IF entry.email THEN "email" ELSE "other"

IsProbeable(kind) == kind \in {"https", "http"}

\* The distinct URLs of a document that a pass would ask.
Probeable(doc) ==
    LET entries == Services(doc).entries
    IN  IF HasEntries(doc)
        THEN {entries[i].url : i \in {j \in DOMAIN entries : IsProbeable(Kind(entries[j]))}}
        ELSE {}

\* Neither an error nor a status.
Unanswered == [error |-> "none", status |-> 0]

\* What is observed of a URL, in the four ways rung 6 tells apart.
SeenAt(obs) ==
    CASE obs.error # "none" ->
           CASE CouldNotAsk(obs.error) -> "refused"
             [] obs.error = "ssrf_blocked" -> "not_live"
             [] OTHER -> "our_error"
      [] obs.error = "none" ->
           CASE Success(obs.status) \/ obs.status = 402 -> "live"
             [] DeclinedUs(obs.status) /\ obs.status # 402 -> "refused"
             [] obs.status = 0 -> "our_error"
             [] OTHER -> "not_live"

\* Mutant: any definite answer is a failure, even beside a live one.
Verdict_worst(seen) ==
    IF "not_live" \in seen THEN "fail"
    ELSE IF "live" \in seen THEN "pass"
    ELSE IF "refused" \in seen THEN "refused" ELSE "error"

\* pass > fail > refused > error
Verdict(seen) ==
    IF "live" \in seen THEN "pass"
    ELSE IF "not_live" \in seen THEN "fail"
    ELSE IF "refused" \in seen THEN "refused" ELSE "error"
=============================================================================
