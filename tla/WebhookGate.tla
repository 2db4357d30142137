------------------------------ MODULE WebhookGate ------------------------------
(***************************************************************************)
(* What a POST to the webhook has to pass before its envelope is handled:  *)
(* the bounded reading of its body (fetchAdapter.ts), then the checks of   *)
(* the adapter in their order (handleDispatch of webhookAdapter.ts).  A    *)
(* request is a record: the length its headers declare, or Undeclared; the *)
(* bytes its body sends before it ends, or breaks off; how its signature   *)
(* fits its body; and what the bytes mean.                                 *)
(***************************************************************************)
EXTENDS Integers

CONSTANT MaxBodyBytes

ASSUME GateAssumption == MaxBodyBytes \in Nat \ {0}

Undeclared == -1
Signature == {"right", "wrong", "malformed", "missing", "uncheckable"}
Content == {"envelope", "notJson", "tooDeep", "notAnEnvelope"}
Request == [declared : Int, bytes : Nat, breaks : BOOLEAN, signature : Signature, content : Content]

\* The codes of the answers other than 200.
Refused == {"payload_too_large", "missing_body", "unauthorized", "invalid_signature_format",
            "internal_error", "bad_content"}

\* readBodyWithCap() on a request whose body is a stream: the body, or why
\* there is none.  Reading stops at the chunk that exceeds the limit, before a
\* body breaks off or after.
Read(r) ==
  CASE r.declared > MaxBodyBytes \/ r.bytes > MaxBodyBytes -> "overLimit"
    [] r.breaks \/ r.bytes = 0 -> "nothing"
    [] OTHER -> "body"

\* The answer to the first check that fails: 413, 400, 401, 400, 500, 400.
Verdict(r) ==
  CASE Read(r) = "overLimit" -> "payload_too_large"
    [] Read(r) = "nothing" -> "missing_body"
    [] r.signature \in {"missing", "wrong"} -> "unauthorized"
    [] r.signature = "malformed" -> "invalid_signature_format"
    [] r.signature = "uncheckable" -> "internal_error"
    [] r.content # "envelope" -> "bad_content"
    [] OTHER -> "accepted"

\* Sent by someone who has the secret, and arrived whole.
Authentic(r) == Read(r) = "body" /\ r.signature = "right"
=============================================================================
