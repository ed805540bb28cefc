---------------------------- MODULE RequestReply ----------------------------
(***************************************************************************)
(* What forwarding a request through a tunnel promises its caller, with no *)
(* stream, no channels and no goroutines: a call is answered or fails,     *)
(* once; it is answered only after the client at the other end was given   *)
(* it, which happens at most once and only for a call that was made; and   *)
(* every call ends.  A call that failed may have been run all the same.    *)
(***************************************************************************)
EXTENDS Naturals

CONSTANT Requests

VARIABLES call,   \* "none", "waiting", "answered" or "failed"
          ran     \* how often the client was given each request

vars == <<call, ran>>

Init == /\ call = [r \in Requests |-> "none"]
        /\ ran = [r \in Requests |-> 0]

Make(r) == /\ call[r] = "none"
           /\ call' = [call EXCEPT ![r] = "waiting"]
           /\ UNCHANGED ran

(* The tunnel is known to be closed when the call is made. *)
Refuse(r) == /\ call[r] = "none"
             /\ call' = [call EXCEPT ![r] = "failed"]
             /\ UNCHANGED ran

Run(r) == /\ call[r] # "none" /\ ran[r] = 0
          /\ ran' = [ran EXCEPT ![r] = 1]
          /\ UNCHANGED call

Answer(r) == /\ call[r] = "waiting" /\ ran[r] = 1
             /\ call' = [call EXCEPT ![r] = "answered"]
             /\ UNCHANGED ran

Fail(r) == /\ call[r] = "waiting"
           /\ call' = [call EXCEPT ![r] = "failed"]
           /\ UNCHANGED ran

Next == \E r \in Requests : Make(r) \/ Refuse(r) \/ Run(r) \/ Answer(r) \/ Fail(r)

Spec == Init /\ [][Next]_vars

Waiting(r) == call[r] = "waiting"

Ended(r) == call[r] \in {"answered", "failed"}

(* No call waits for ever. *)
EveryCallEnds == \A r \in Requests : Waiting(r) ~> Ended(r)
=============================================================================
