------------------------------ MODULE Upstream ------------------------------
(***************************************************************************)
(* What the Upstream trait (upstream.rs) promises the gateway: a request   *)
(* that asks for a peer gets one of the backends that were members when it *)
(* asked and that is not known to be sick at the moment it is handed over, *)
(* or learns that the upstream is unavailable.  Members and their health   *)
(* change at any time.  LoadBalancer is shown to implement it.             *)
(***************************************************************************)
CONSTANTS
  Backends,
  Requests,
  Examined,  \* the backends are health-checked
  None

VARIABLES
  members,   \* the backends of the upstream
  sick,      \* backends that are not to be used
  call,      \* request -> how far its select_peer is
  asked,     \* request -> the members when it asked
  given      \* request -> the peer it got

promise == <<members, sick, call, asked, given>>

Init ==
  /\ members \in SUBSET Backends
  /\ sick \in SUBSET Backends
  /\ call = [r \in Requests |-> "none"]
  /\ asked = [r \in Requests |-> {}]
  /\ given = [r \in Requests |-> None]

Discover ==
  /\ members' \in SUBSET Backends
  /\ UNCHANGED <<sick, call, asked, given>>

Examine ==
  /\ Examined
  /\ sick' \in SUBSET Backends
  /\ UNCHANGED <<members, call, asked, given>>

\* select_peer is called.
Ask(r) ==
  /\ call[r] = "none"
  /\ call' = [call EXCEPT ![r] = "asked"]
  /\ asked' = [asked EXCEPT ![r] = members]
  /\ UNCHANGED <<members, sick, given>>

\* It returns a peer ...
HandOut(r) ==
  /\ call[r] = "asked"
  /\ call' = [call EXCEPT ![r] = "peer"]
  /\ \E b \in asked[r] \ sick : given' = [given EXCEPT ![r] = b]
  /\ UNCHANGED <<members, sick, asked>>

\* ... or UpstreamUnavailable: of an upstream whose backends nobody examines,
\* only when it had none.
Refuse(r) ==
  /\ call[r] = "asked"
  /\ Examined \/ asked[r] = {}
  /\ call' = [call EXCEPT ![r] = "unavailable"]
  /\ UNCHANGED <<members, sick, asked, given>>

Next ==
  \/ Discover \/ Examine
  \/ \E r \in Requests : Ask(r) \/ HandOut(r) \/ Refuse(r)

Spec == Init /\ [][Next]_promise

\* A request that asks is answered, whatever the pool does meanwhile.
FairSpec ==
  Spec /\ \A r \in Requests : WF_promise(HandOut(r) \/ Refuse(r))
=============================================================================
