-------------------------- MODULE CredentialCheck --------------------------
(***************************************************************************)
(* What "config set" makes of a service's answer to the credential it is   *)
(* about to save: internal/services/verify.go and the VerifyCredentials of *)
(* the plugins.  No state.                                                 *)
(*                                                                         *)
(* An answer is its status, 0 if none came, and what its body says:        *)
(* "yes", "no" or nothing that parses.                                     *)
(***************************************************************************)
EXTENDS Integers

CONSTANTS
    Service,    \* the registered names
    Verifiers,  \* those whose plugin implements CredentialVerifier
    Token,      \* values a user may set
    Accepted    \* <<service, token>>: the service lets that token upload

ASSUME CheckAssumption ==
    Verifiers \subseteq Service /\ Accepted \subseteq Service \X Token

Answer == [status : 0..599, body : {"yes", "no", "garbled"}]

\* Mutant: only 401 and 403 count as a refusal.
authCheckOutcome_Only401(status) ==
    CASE status \in 200..299   -> "works"
      [] status \in {401, 403} -> "rejected"
      [] OTHER                 -> "inconclusive"

authCheckOutcome(status) ==
    CASE status \in 200..299           -> "works"
      [] status = 429 \/ status >= 500 -> "inconclusive"
      [] OTHER                         -> "rejected"

\* One authenticated GET (zincdrive: a signature asked for nothing); an error
\* of the transport and credentialTimeout leave it open.
AccountCheck(a) == IF a.status = 0 THEN "inconclusive" ELSE authCheckOutcome(a.status)

\* DataNodes refuses a key with status 200 and says so in the body.
DataNodesCheck(a) ==
    IF a.status # 200 THEN AccountCheck(a)
    ELSE CASE a.body = "yes" -> "works"
           [] a.body = "no"  -> "rejected"
           [] OTHER          -> "inconclusive"

\* interim knows the key; one that is not approved may still upload to an
\* instance that is public, which a second request tells.
InterimCheck(key, instance) ==
    IF AccountCheck(key) # "works" THEN AccountCheck(key)
    ELSE CASE key.body = "yes"     -> "works"
           [] key.body = "garbled" -> "inconclusive"
           [] key.body = "no" ->
                IF instance.status \notin 200..299 \/ instance.body = "garbled" THEN "inconclusive"
                ELSE IF instance.body = "yes" THEN "works" ELSE "rejected"

VerifyCredentials(service, key, instance) ==
    CASE service = "interim"   -> InterimCheck(key, instance)
      [] service = "datanodes" -> DataNodesCheck(key)
      [] OTHER                 -> AccountCheck(key)

isCredentialKey(key) == key \in {"API_TOKEN", "API_KEY", "TOKEN"}

-----------------------------------------------------------------------------

\* No answer, a rate limit, an error of the server, an error page.
NoVerdict(service) ==
    {[status |-> s, body |-> "garbled"] : s \in {0, 429, 503}}
        \cup IF service \in {"datanodes", "interim"}
             THEN {[status |-> 200, body |-> "garbled"]} ELSE {}

\* What the account endpoint says of a token.
Verdicts(service, token) ==
    IF <<service, token>> \in Accepted THEN {[status |-> 200, body |-> "yes"]}
    ELSE CASE service = "datanodes" -> {[status |-> 200, body |-> "no"], [status |-> 404, body |-> "no"]}
           [] service = "interim"   -> {[status |-> 200, body |-> "no"], [status |-> 401, body |-> "no"]}
           [] OTHER                 -> {[status |-> s, body |-> "no"] : s \in {400, 401, 403}}

\* The pairs of answers the requests of one check can get.
Exchanges(service, token) ==
    (Verdicts(service, token) \cup NoVerdict(service))
        \X ({[status |-> 200, body |-> "no"]} \cup NoVerdict(service))

\* The service has said what it thinks of the token.
Decided(service, exchange) ==
    /\ exchange[1] \notin NoVerdict(service)
    /\ service = "interim" /\ exchange[1].status = 200 /\ exchange[1].body = "no"
          => exchange[2] \notin NoVerdict(service)

=============================================================================
