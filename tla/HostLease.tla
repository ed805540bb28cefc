----------------------------- MODULE HostLease -----------------------------
(***************************************************************************)
(* What the tunnel server promises about hostnames, with no registry, no   *)
(* goroutines and no database: a stream acquires the lease of a hostname   *)
(* only while nobody holds it, keeps it until it is evicted, and an        *)
(* evicted stream never gets it back.  TunnelSessions implements this.     *)
(***************************************************************************)

CONSTANTS Streams,   \* the streams that may ask for a hostname
          Hosts,     \* the hostnames
          None       \* no hostname

VARIABLES lease,     \* "none", "held" or "lost" for each stream
          at         \* the hostname a stream acquired, None before it did

vars == <<lease, at>>

Init == /\ lease = [s \in Streams |-> "none"]
        /\ at = [s \in Streams |-> None]

Holders(h) == {s \in Streams : lease[s] = "held" /\ at[s] = h}

(* A stream gets a hostname nobody holds. *)
Acquire(s, h) == /\ lease[s] = "none"
                 /\ Holders(h) = {}
                 /\ lease' = [lease EXCEPT ![s] = "held"]
                 /\ at' = [at EXCEPT ![s] = h]

(* Whoever holds the hostname loses it: an administrator disconnects it, or a
   stream that acquired it earlier ends. *)
Evict(h) == /\ Holders(h) # {}
            /\ lease' = [s \in Streams |-> IF s \in Holders(h) THEN "lost" ELSE lease[s]]
            /\ UNCHANGED at

(* A stream that lost its lease is over. *)
Release(s) == /\ lease[s] = "lost"
              /\ lease' = [lease EXCEPT ![s] = "none"]
              /\ at' = [at EXCEPT ![s] = None]

(* The process restarts: leases are volatile. *)
Reset == /\ lease' = [s \in Streams |-> "none"]
         /\ at' = [s \in Streams |-> None]

Next == \/ \E s \in Streams, h \in Hosts : Acquire(s, h)
        \/ \E h \in Hosts : Evict(h)
        \/ \E s \in Streams : Release(s)
        \/ Reset

Spec == Init /\ [][Next]_vars
=============================================================================
