---------------------------- MODULE Middlewares ----------------------------
(***************************************************************************)
(* The middleware chain of the gateway: the twelve hooks of the Middleware *)
(* trait (middleware.rs), what the three shipped middlewares decide in     *)
(* them (ip_restriction.rs, request_size.rs, metrics.rs), and how a chain  *)
(* of them is run by the loops of gateway.rs.                              *)
(*                                                                         *)
(* A chain may also hold a "plugin": any other implementation of the       *)
(* trait.  PluginDecisions says which decisions it may take in each hook.  *)
(***************************************************************************)
EXTENDS Integers, Sequences

CONSTANTS
  Chain,            \* the middlewares in the order main.rs pushes them
  PluginDecisions,  \* hook -> the decisions a plugin may return in it
  MaxBytes,         \* RequestSizeMiddleware.max_bytes
  None              \* Option::None

Shipped == {"metrics", "ip_restriction", "request_size"}

Hooks == {"early_request", "request", "request_body", "upstream_connected",
          "upstream_request", "upstream_response", "response",
          "response_body", "error", "logging"}

\* gateway.rs walks the chain backwards (.iter().rev()) in these hooks ...
ReversedHooks == {"upstream_response", "response", "response_body",
                  "error", "logging"}

\* ... and reads an Err as Continue (unwrap_or) in these.
TolerantHooks == {"error", "logging"}

\* A hook returns Ok(Continue), Ok(Stop) or Err(_).
Decisions == {"Continue", "Stop", "Err"}

ASSUME ChainAssumption ==
  /\ Chain \in Seq(Shipped \cup {"plugin"})
  /\ \A m \in Shipped : \E i \in 1..Len(Chain) : Chain[i] = m
  /\ \A i, j \in 1..Len(Chain) : Chain[i] = Chain[j] => i = j

ASSUME PluginAssumption ==
  PluginDecisions \in [Hooks -> SUBSET Decisions \ {{}}]

ASSUME MaxBytesAssumption == MaxBytes \in Nat

----------------------------------------------------------------------------
\* (Mutant: allow is consulted before deny.)
MutantAllowFirst(e, client) ==
  /\ e.deny \cup e.allow # {}
  /\ client # None /\ client \notin e.allow
  /\ client \in e.deny \/ e.allow # {}

\* IpRestrictionMiddleware::handle_request on a route entry e and a client
\* address (None when the connection has no inet address): an entry whose two
\* lists are empty has no ACL, deny is consulted before allow, and a list of
\* allowed blocks rejects whoever is not on it.
IpRestrictionRejects(e, client) ==
  /\ e.deny \cup e.allow # {}
  /\ client # None
  /\ \/ client \in e.deny
     \/ client \notin e.allow /\ e.allow # {}

\* RequestSizeMiddleware::handle_request: the declared Content-Length.
RequestSizeRejectsHeader(q) == q.declared /\ q.body > MaxBytes

\* (Mutants: each piece is measured alone; the limit is off by one.)
MutantSizePerPiece(read, chunk) == chunk > 0 /\ chunk >= MaxBytes
MutantSizeOffByOne(read, chunk) == chunk > 0 /\ read + chunk + 1 >= MaxBytes

\* RequestSizeMiddleware::handle_request_body: read is bytes_read before the
\* call, chunk the length of the piece (0 for a call without data).
RequestSizeRejectsChunk(read, chunk) == chunk > 0 /\ read + chunk >= MaxBytes

\* The hook of a shipped middleware answers the client itself and stops.
Rejects(m, hook, q, read, chunk) ==
  \/ m = "ip_restriction" /\ hook = "request"
       /\ IpRestrictionRejects(q.entry, q.client)
  \/ m = "request_size" /\ hook = "request" /\ RequestSizeRejectsHeader(q)
  \/ m = "request_size" /\ hook = "request_body"
       /\ RequestSizeRejectsChunk(read, chunk)

\* What a hook may return.  A rejection is Err when the answer cannot be
\* written (respond_error fails), which cannot happen once an answer is out:
\* the session ignores a second one.  MetricsMiddleware always continues, as
\* does every hook a middleware does not override.
Returns(m, hook, q, read, chunk, answered) ==
  IF m = "plugin" THEN PluginDecisions[hook]
  ELSE IF ~Rejects(m, hook, q, read, chunk) THEN {"Continue"}
  ELSE IF answered THEN {"Stop"} ELSE {"Stop", "Err"}

\* What the chain loop makes of it.
Decides(m, hook, q, read, chunk, answered) ==
  LET R == Returns(m, hook, q, read, chunk, answered)
  IN  IF hook \in TolerantHooks /\ "Err" \in R
      THEN (R \ {"Err"}) \cup {"Continue"} ELSE R

\* Position i of the chain is visited before position k.
Precedes(hook, i, k) == IF hook \in ReversedHooks THEN i > k ELSE i < k

\* The ways a pass over the chain may end: nobody halts it (by = 0), or the
\* middleware at position "by" does, all those before it having continued.
Passes(hook, q, read, chunk, answered) ==
  LET D(i) == Decides(Chain[i], hook, q, read, chunk, answered)
  IN  {p \in [res : Decisions, by : 0..Len(Chain)] :
         IF p.by = 0
         THEN p.res = "Continue" /\ \A i \in 1..Len(Chain) : "Continue" \in D(i)
         ELSE /\ p.res \in D(p.by) \ {"Continue"}
              /\ \A i \in 1..Len(Chain) :
                   Precedes(hook, i, p.by) => "Continue" \in D(i)}

\* Middleware m was called in pass p.
Called(m, hook, p) ==
  \E i \in 1..Len(Chain) :
    /\ Chain[i] = m
    /\ p.by = 0 \/ i = p.by \/ Precedes(hook, i, p.by)

\* The status a plugin answers with, when it does.
PluginStatus == 418

\* (Mutant: ip_restriction stops without an answer.)
MutantAclSilent(p) ==
  IF p.res = "Stop" /\ Chain[p.by] = "request_size" THEN {413} ELSE {0}

\* The statuses the pass may have written to the client; 0 is none.  A plugin
\* that stops has "usually", not always, sent a response (middleware.rs:30).
Answers(p) ==
  IF p.res # "Stop" THEN {0}
  ELSE CASE Chain[p.by] = "ip_restriction" -> {403}
         [] Chain[p.by] = "request_size"   -> {413}
         [] OTHER                          -> {0, PluginStatus}

\* The pass ended in Err because the client could not be answered.
AnswerLost(p) == p.res = "Err" /\ Chain[p.by] # "plugin"
=============================================================================
