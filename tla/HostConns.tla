----------------------------- MODULE HostConns -----------------------------
(***************************************************************************)
(* One hostname as a public request sees it: the id of the tunnel that has  *)
(* it, the connection registered there, and what becomes of connections.    *)
(* Ingress is built on it; SessionsAtHost shows that the handlers of        *)
(* TunnelSessions do nothing else.                                          *)
(***************************************************************************)
EXTENDS Naturals

CONSTANTS Conns,  \* connections, each used once
          None    \* no tunnel, no connection

VARIABLES row,        \* the id of the tunnel at the hostname
          nextId,     \* the id the next tunnel gets
          registry,   \* the connection registered at the hostname
          connState,  \* "new", "found", "open" or "closed"
          connTunnel  \* the id of the tunnel the connection looked up

conns == <<registry, connState, connTunnel>>
connVars == <<row, nextId, conns>>

ConnInit ==
    /\ row = None /\ nextId = 1
    /\ registry = None
    /\ connState = [c \in Conns |-> "new"]
    /\ connTunnel = [c \in Conns |-> None]

(* The row comes, with an id of its own, and goes; no connection notices. *)
NewTunnel ==
    /\ row = None
    /\ row' = nextId /\ nextId' = nextId + 1
    /\ UNCHANGED conns

DropTunnel ==
    /\ row # None
    /\ row' = None
    /\ UNCHANGED <<nextId, conns>>

(* Connect finds the tunnel of its agent. *)
FindTunnel(c) ==
    /\ connState[c] = "new" /\ row # None
    /\ connState' = [connState EXCEPT ![c] = "found"]
    /\ connTunnel' = [connTunnel EXCEPT ![c] = row]
    /\ UNCHANGED <<row, nextId, registry>>

(* RegisterIfAbsent; the stream ends if the hostname is taken. *)
Register(c) ==
    /\ connState[c] = "found"
    /\ IF registry = None
       THEN registry' = c /\ connState' = [connState EXCEPT ![c] = "open"]
       ELSE connState' = [connState EXCEPT ![c] = "closed"] /\ UNCHANGED registry
    /\ UNCHANGED <<row, nextId, connTunnel>>

(* The Close at the head of the handler's own teardown. *)
CloseConn(c) ==
    /\ connState[c] = "open"
    /\ connState' = [connState EXCEPT ![c] = "closed"]
    /\ UNCHANGED <<row, nextId, registry, connTunnel>>

(* Unregister or Disconnect: both go by hostname and close what they find. *)
Unregister ==
    /\ registry # None
    /\ registry' = None
    /\ connState' = [connState EXCEPT ![registry] = "closed"]
    /\ UNCHANGED <<row, nextId, connTunnel>>

(* The process ends, and every stream with it. *)
DropAll ==
    /\ registry' = None
    /\ connState' = [c \in Conns |-> IF connState[c] = "new" THEN "new" ELSE "closed"]
    /\ UNCHANGED <<row, nextId, connTunnel>>

Serve == (\E c \in Conns : FindTunnel(c) \/ Register(c) \/ CloseConn(c)) \/ Unregister

ConnNext == NewTunnel \/ DropTunnel \/ Serve \/ DropAll

ConnSpec == ConnInit /\ [][ConnNext]_connVars
=============================================================================
