--------------------------- MODULE SessionsAtHost ---------------------------
(***************************************************************************)
(* TunnelSessions seen from one hostname, by what Ingress assumes of the    *)
(* tunnel and of the connections there.                                     *)
(*                                                                         *)
(* Ingress tells apart what TunnelSessions uses again: the tunnels that the *)
(* hostname has one after the other, and the connections of a stream.  The  *)
(* variables added here are history: they number both, and no step of       *)
(* TunnelSessions depends on them but by the bounds.                        *)
(***************************************************************************)
EXTENDS TunnelSessions

CONSTANTS Host,       \* the hostname
          MaxTunnels, \* bound on the tunnels created at it
          MaxTurns    \* bound on the connections of each stream that look it up

ASSUME HostAssumption ==
    /\ Host \in Hosts
    /\ MaxTunnels \in Nat /\ MaxTurns \in Nat

Turns == 0 .. MaxTurns - 1

Conns == Streams \X Turns

ASSUME ConnsAssumption == None \notin Conns \cup Nat \cup Tunnel

VARIABLES nextId, \* the id the next tunnel at the hostname gets
          turn,   \* how many connections of a stream are over
          found   \* the id of the tunnel a connection looked up

history == <<nextId, turn, found>>
atVars == <<vars, history>>

HasTunnelAt(n) == tunnels[n] # None /\ tunnels[n].host = Host

Taken == \E n \in Names : HasTunnelAt(n)

Row == IF Taken THEN nextId - 1 ELSE None

(* The stream has looked the hostname up and its handler has not returned. *)
Here(s) == host[s] = Host

AtInit ==
    /\ Init
    /\ nextId = 1
    /\ turn = [s \in Streams |-> 0]
    /\ found = [c \in Conns |-> None]

AtNext ==
    /\ Next
    /\ nextId' = IF ~Taken /\ Taken' THEN nextId + 1 ELSE nextId
    /\ turn' = [s \in Streams |-> IF Here(s) /\ ~Here(s)' THEN turn[s] + 1 ELSE turn[s]]
    /\ found' = [c \in Conns |-> IF ~Here(c[1]) /\ Here(c[1])' /\ c[2] = turn[c[1]]
                                 THEN Row ELSE found[c]]
    /\ nextId' <= MaxTunnels + 1
    /\ \A s \in Streams : Here(s)' => turn[s] < MaxTurns

AtSpec == AtInit /\ [][AtNext]_atVars

-----------------------------------------------------------------------------
(* What Ingress sees.                                                      *)

StateOf(s) == IF pc[s] = "claim" THEN "found" ELSE IF closed[s] THEN "closed" ELSE "open"

(* The i-th connection of stream s. *)
Seen(s, i) == IF i < turn[s] THEN "closed"
              ELSE IF i = turn[s] /\ Here(s) THEN StateOf(s) ELSE "new"

ConnState == [c \in Conns |-> Seen(c[1], c[2])]

Registered == IF registry[Host] = None THEN None ELSE <<registry[Host], turn[registry[Host]]>>

HostSeen == INSTANCE HostConns WITH
              row <- Row,
              registry <- Registered,
              connState <- ConnState,
              connTunnel <- found

(* The handlers, the registry and the control plane do to a hostname what
   Ingress assumes: a connection is registered by a stream that found the
   hostname's tunnel, it is open until it is closed, for good, and what is
   unregistered is closed, whoever's teardown or Disconnect it was. *)
ServesAsAssumed == HostSeen!ConnSpec
=============================================================================
