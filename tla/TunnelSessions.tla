--------------------------- MODULE TunnelSessions ---------------------------
(***************************************************************************)
(* The life of a tunnel on the server: the goroutine that runs one gRPC    *)
(* Connect stream (internal/server/grpc_tunnel.go), the in-memory Registry *)
(* of active connections (registry.go), the rows of the agents and tunnels *)
(* tables (store.go), and the HTTP handlers that change them               *)
(* (controlplane_api.go, admin_ui.go, admin_ui_tunnels.go).                *)
(*                                                                         *)
(* A step is one critical section of Registry.mu or one SQL statement: the *)
(* pool has a single connection, so statements are serialised and nothing  *)
(* else is.  Statements run under the stream's context fail once the       *)
(* client is gone and the handler ignores the error; those of the deferred *)
(* teardown run under context.Background().  A statement whose context is  *)
(* live succeeds.  Log lines and tunnel_events rows are not modelled.      *)
(***************************************************************************)
EXTENDS Naturals, FiniteSets

CONSTANTS Streams,     \* Connect streams that may be open at the same time
          Agents,      \* agent names; an agent's credential is the agent
          Names,       \* tunnel names
          Hosts,       \* hostnames
          Admins,      \* HTTP requests that may be in progress together
          None,        \* no connection, no row, no agent, no hostname
          MaxCrashes   \* bound on restarts of the server process

ASSUME ConstantsAssumption ==
    /\ None \notin Streams \cup Agents \cup Names \cup Hosts
    /\ MaxCrashes \in Nat

VARIABLES registry,     \* Registry.tunnels: hostname -> the stream whose conn it is
          closed,       \* GrpcTunnelConn.closed of a stream's conn; TRUE before it has one
          pc,           \* where the Connect handler of a stream is
          up,           \* the stream's context is live: the client is still there
          agent, name,  \* what the Register message said
          host,         \* the hostname read from the tunnel's row
          agentStatus,  \* agents.status, "absent" before the row exists
          tunnels,      \* tunnels rows by name, None when there is none
          task,         \* the control-plane request an admin has in progress
          crashes       \* how often the process was restarted

memory == <<registry, closed>>
stream == <<pc, up, agent, name, host>>
vars == <<memory, stream, agentStatus, tunnels, task, crashes>>

-----------------------------------------------------------------------------
(* Where a Connect handler can be.                                         *)

Admission == {"auth", "lookup", "claim"}           \* before RegisterIfAbsent
Startup   == {"touch", "desire", "report", "ack"}  \* registered, not yet serving
Teardown  == {"close", "unregister", "agentOffline", "tunnelOffline"}
Claimed   == Startup \cup {"serve"} \cup Teardown  \* between RegisterIfAbsent and return
Holding   == Startup \cup {"serve", "close", "unregister"}  \* Unregister still to come

Tunnel == [host : Hosts, agent : Agents \cup {None},
           desired : {"running", "stopped"}, actual : {"running", "offline"}]

Status == {"absent", "authorized", "connected", "offline", "revoked"}

Task == [op : {"delete", "uiDelete", "uiDeleteRow", "start", "stop", "reportStop", "assign"},
         name : Names, arg : Hosts \cup Agents \cup {None}]

Init == /\ registry = [h \in Hosts |-> None]
        /\ closed = [s \in Streams |-> TRUE]
        /\ pc = [s \in Streams |-> "idle"]
        /\ up = [s \in Streams |-> FALSE]
        /\ agent = [s \in Streams |-> None]
        /\ name = [s \in Streams |-> None]
        /\ host = [s \in Streams |-> None]
        /\ agentStatus = [a \in Agents |-> "absent"]
        /\ tunnels = [n \in Names |-> None]
        /\ task = [m \in Admins |-> None]
        /\ crashes = 0

-----------------------------------------------------------------------------
(* The registry.                                                           *)

(* A takeover in place of the refusal of RegisterIfAbsent. *)
RegisterAlways(h, s) ==
    /\ registry' = [registry EXCEPT ![h] = s]
    /\ closed' = [t \in Streams |-> IF t = s THEN FALSE
                                    ELSE IF t = registry[h] THEN TRUE ELSE closed[t]]

(* RegisterIfAbsent, when it returns true; the conn is new. *)
RegisterIfAbsent(h, s) ==
    /\ registry[h] = None
    /\ registry' = [registry EXCEPT ![h] = s]
    /\ closed' = [closed EXCEPT ![s] = FALSE]

(* Removing an entry and leaving its connection open. *)
RemoveOpen(h) ==
    /\ registry' = [registry EXCEPT ![h] = None]
    /\ UNCHANGED closed

(* Closing a connection and leaving its entry. *)
CloseKeep(h) ==
    /\ closed' = [s \in Streams |-> closed[s] \/ s = registry[h]]
    /\ UNCHANGED registry

(* Unregister and Disconnect: close and delete whatever is registered at h. *)
Remove(h) ==
    /\ registry' = [registry EXCEPT ![h] = None]
    /\ closed' = [s \in Streams |-> closed[s] \/ s = registry[h]]

-----------------------------------------------------------------------------
(* The SQL statements.  An UPDATE of a row that is gone changes nothing.   *)

TouchAgent(a, status) == agentStatus' = [agentStatus EXCEPT ![a] = status]

(* CreateAgent; an agent's name is unique. *)
InsertAgent(a) == agentStatus[a] = "absent" /\ agentStatus' = [agentStatus EXCEPT ![a] = "authorized"]

RevokeAgentByName(a) == agentStatus' = [agentStatus EXCEPT ![a] = "revoked"]

SetTunnelDesiredState(n, state) ==
    tunnels' = IF tunnels[n] = None THEN tunnels
               ELSE [tunnels EXCEPT ![n] = [@ EXCEPT !.desired = state]]

UpdateTunnelStateByName(n, state) ==
    tunnels' = IF tunnels[n] = None THEN tunnels
               ELSE [tunnels EXCEPT ![n] = [@ EXCEPT !.actual = state]]

(* CreateTunnel is one transaction; name and hostname are unique. *)
InsertTunnel(n, h, a) ==
    /\ tunnels[n] = None
    /\ \A k \in Names : tunnels[k] # None => tunnels[k].host # h
    /\ tunnels' = [tunnels EXCEPT ![n] =
                     [host |-> h, agent |-> a, desired |-> "stopped", actual |-> "offline"]]

AssignTunnelToAgent(n, a) ==
    tunnels' = IF tunnels[n] = None THEN tunnels
               ELSE [tunnels EXCEPT ![n] = [@ EXCEPT !.agent = a]]

-----------------------------------------------------------------------------
(* The Connect handler of stream s.                                        *)

Goto(s, label) == pc' = [pc EXCEPT ![s] = label]

(* The handler returns: the stream is over and its number can be used again. *)
Return(s) == /\ Goto(s, "idle")
             /\ up' = [up EXCEPT ![s] = FALSE]
             /\ agent' = [agent EXCEPT ![s] = None]
             /\ name' = [name EXCEPT ![s] = None]
             /\ host' = [host EXCEPT ![s] = None]

(* A client opens a stream with the credential of agent a and registers as
   tunnel n.  A stream that sends anything else is answered and returns
   without having changed any state. *)
Open(s, a, n) ==
    /\ pc[s] = "idle"
    /\ Goto(s, "auth")
    /\ up' = [up EXCEPT ![s] = TRUE]
    /\ agent' = [agent EXCEPT ![s] = a]
    /\ name' = [name EXCEPT ![s] = n]
    /\ UNCHANGED <<memory, host, agentStatus, tunnels, task, crashes>>

(* The client goes away, or the network does. *)
ClientGone(s) ==
    /\ pc[s] # "idle" /\ up[s]
    /\ up' = [up EXCEPT ![s] = FALSE]
    /\ UNCHANGED <<memory, pc, agent, name, host, agentStatus, tunnels, task, crashes>>

(* Admitting any credential that has a row. *)
AuthorizedIfKnown(s) == agentStatus[agent[s]] # "absent"

Authorized(s) == agentStatus[agent[s]] \notin {"absent", "revoked"}

(* GetAgentByCredentialHash and the check of its status. *)
Authenticate(s) ==
    /\ pc[s] = "auth"
    /\ \/ up[s] /\ Authorized(s) /\ Goto(s, "lookup") /\ UNCHANGED <<up, agent, name, host>>
       \/ ~(up[s] /\ Authorized(s)) /\ Return(s)
    /\ UNCHANGED <<memory, agentStatus, tunnels, task, crashes>>

(* Finding the tunnel by its name only. *)
TunnelExists(n, a) == tunnels[n] # None

(* GetTunnelForAgent finds a row. *)
AssignedTo(n, a) == tunnels[n] # None /\ tunnels[n].agent = a

LookupTunnel(s) ==
    /\ pc[s] = "lookup"
    /\ \/ /\ up[s] /\ AssignedTo(name[s], agent[s])
          /\ host' = [host EXCEPT ![s] = tunnels[name[s]].host]
          /\ Goto(s, "claim")
          /\ UNCHANGED <<up, agent, name>>
       \/ ~(up[s] /\ AssignedTo(name[s], agent[s])) /\ Return(s)
    /\ UNCHANGED <<memory, agentStatus, tunnels, task, crashes>>

(* RegisterIfAbsent succeeds, or the stream is refused with hostname_conflict. *)
Claim(s) ==
    /\ pc[s] = "claim"
    /\ RegisterIfAbsent(host[s], s)
    /\ Goto(s, "touch")
    /\ UNCHANGED <<up, agent, name, host, agentStatus, tunnels, task, crashes>>

HostnameConflict(s) ==
    /\ pc[s] = "claim"
    /\ registry[host[s]] # None
    /\ Return(s)
    /\ UNCHANGED <<memory, agentStatus, tunnels, task, crashes>>

(* A swapped constant: the tunnel's state written to the agent's row. *)
RunningStatus(s) == "running"

ConnectedStatus(s) == "connected"

(* The three statements after the registration, under the stream's context. *)
WriteConnected(s) ==
    /\ pc[s] = "touch"
    /\ IF up[s] THEN TouchAgent(agent[s], ConnectedStatus(s)) ELSE UNCHANGED agentStatus
    /\ Goto(s, "desire")
    /\ UNCHANGED <<memory, up, agent, name, host, tunnels, task, crashes>>

WriteDesired(s) ==
    /\ pc[s] = "desire"
    /\ IF up[s] THEN SetTunnelDesiredState(name[s], "running") ELSE UNCHANGED tunnels
    /\ Goto(s, "report")
    /\ UNCHANGED <<memory, up, agent, name, host, agentStatus, task, crashes>>

WriteRunning(s) ==
    /\ pc[s] = "report"
    /\ IF up[s] THEN UpdateTunnelStateByName(name[s], "running") ELSE UNCHANGED tunnels
    /\ Goto(s, "ack")
    /\ UNCHANGED <<memory, up, agent, name, host, agentStatus, task, crashes>>

(* Send the RegisterAck, then start the sender goroutine and receive; a failed
   Send returns, which runs the deferred teardown. *)
SendAck(s) ==
    /\ pc[s] = "ack"
    /\ Goto(s, IF up[s] THEN "serve" ELSE "close")
    /\ UNCHANGED <<memory, up, agent, name, host, agentStatus, tunnels, task, crashes>>

(* Recv returns an error only when the stream is broken; closing the conn does
   not end the stream. *)
RecvError(s) ==
    /\ pc[s] = "serve" /\ ~up[s]
    /\ Goto(s, "close")
    /\ UNCHANGED <<memory, up, agent, name, host, agentStatus, tunnels, task, crashes>>

(* The deferred function: conn.Close, Unregister, and two statements. *)
CloseConn(s) ==
    /\ pc[s] = "close"
    /\ closed' = [closed EXCEPT ![s] = TRUE]
    /\ Goto(s, "unregister")
    /\ UNCHANGED <<registry, up, agent, name, host, agentStatus, tunnels, task, crashes>>

(* A teardown that forgets the registry. *)
SkipUnregister(s) ==
    /\ pc[s] = "unregister"
    /\ Goto(s, "agentOffline")
    /\ UNCHANGED <<memory, up, agent, name, host, agentStatus, tunnels, task, crashes>>

Unregister(s) ==
    /\ pc[s] = "unregister"
    /\ Remove(host[s])
    /\ Goto(s, "agentOffline")
    /\ UNCHANGED <<up, agent, name, host, agentStatus, tunnels, task, crashes>>

(* The teardown run under the stream's context. *)
StreamContext(s) == up[s]

TeardownContext(s) == TRUE

WriteAgentOffline(s) ==
    /\ pc[s] = "agentOffline"
    /\ IF TeardownContext(s) THEN TouchAgent(agent[s], "offline") ELSE UNCHANGED agentStatus
    /\ Goto(s, "tunnelOffline")
    /\ UNCHANGED <<memory, up, agent, name, host, tunnels, task, crashes>>

WriteTunnelOffline(s) ==
    /\ pc[s] = "tunnelOffline"
    /\ IF TeardownContext(s) THEN UpdateTunnelStateByName(name[s], "offline") ELSE UNCHANGED tunnels
    /\ Return(s)
    /\ UNCHANGED <<memory, agentStatus, task, crashes>>

(* What the handler goroutine does by itself. *)
Handler(s) ==
    \/ Authenticate(s) \/ LookupTunnel(s) \/ Claim(s) \/ HostnameConflict(s)
    \/ WriteConnected(s) \/ WriteDesired(s) \/ WriteRunning(s) \/ SendAck(s)
    \/ RecvError(s) \/ CloseConn(s) \/ Unregister(s)
    \/ WriteAgentOffline(s) \/ WriteTunnelOffline(s)

-----------------------------------------------------------------------------
(* The control plane.  A handler reads the tunnel's row first and acts on  *)
(* it by name later; an admin is one such request in progress.             *)

CreateAgent(a) ==
    /\ InsertAgent(a)
    /\ UNCHANGED <<memory, stream, tunnels, task, crashes>>

(* Only the row: no connection is touched. *)
RevokeAgent(a) ==
    /\ agentStatus[a] # "absent"
    /\ RevokeAgentByName(a)
    /\ UNCHANGED <<memory, stream, tunnels, task, crashes>>

CreateTunnel(n, h, a) ==
    /\ a # None => agentStatus[a] # "absent"
    /\ InsertTunnel(n, h, a)
    /\ UNCHANGED <<memory, stream, agentStatus, task, crashes>>

(* GetTunnelByName at the head of a handler, with the check that follows it. *)
Begin(m, op, n, arg) ==
    /\ task[m] = None
    /\ tunnels[n] # None
    /\ task' = [task EXCEPT ![m] = [op |-> op, name |-> n, arg |-> arg]]
    /\ UNCHANGED <<memory, stream, agentStatus, tunnels, crashes>>

BeginDelete(m, n) == Begin(m, "delete", n, None)
BeginUiDelete(m, n) == tunnels[n] # None /\ Begin(m, "uiDelete", n, tunnels[n].host)
BeginStart(m, n) == tunnels[n] # None /\ tunnels[n].agent # None /\ Begin(m, "start", n, None)
BeginStop(m, n) == Begin(m, "stop", n, None)
BeginAssign(m, n, a) == (a # None => agentStatus[a] # "absent") /\ Begin(m, "assign", n, a)

Doing(m, op) == task[m] # None /\ task[m].op = op

Finish(m) == task' = [task EXCEPT ![m] = None]

Continue(m, op) == task' = [task EXCEPT ![m] = [@ EXCEPT !.op = op]]

(* DELETE /api/tunnels/{name}, and the last step of the admin page's delete. *)
DeleteRow(m) ==
    /\ Doing(m, "delete") \/ Doing(m, "uiDeleteRow")
    /\ tunnels' = [tunnels EXCEPT ![task[m].name] = None]
    /\ Finish(m)
    /\ UNCHANGED <<memory, stream, agentStatus, crashes>>

(* The admin page's delete first disconnects the hostname it read. *)
UiDisconnect(m) ==
    /\ Doing(m, "uiDelete")
    /\ Remove(task[m].arg)
    /\ Continue(m, "uiDeleteRow")
    /\ UNCHANGED <<stream, agentStatus, tunnels, crashes>>

DoStart(m) ==
    /\ Doing(m, "start")
    /\ SetTunnelDesiredState(task[m].name, "running")
    /\ Finish(m)
    /\ UNCHANGED <<memory, stream, agentStatus, crashes>>

(* Stopping is two statements; the registered connection is left alone. *)
DoStop(m) ==
    /\ Doing(m, "stop")
    /\ SetTunnelDesiredState(task[m].name, "stopped")
    /\ Continue(m, "reportStop")
    /\ UNCHANGED <<memory, stream, agentStatus, crashes>>

ReportStop(m) ==
    /\ Doing(m, "reportStop")
    /\ UpdateTunnelStateByName(task[m].name, "offline")
    /\ Finish(m)
    /\ UNCHANGED <<memory, stream, agentStatus, crashes>>

DoAssign(m) ==
    /\ Doing(m, "assign")
    /\ AssignTunnelToAgent(task[m].name, task[m].arg)
    /\ Finish(m)
    /\ UNCHANGED <<memory, stream, agentStatus, crashes>>

(* The request is cancelled: the statement it was about to run fails, and the
   handler returns.  Disconnect runs whatever became of the request. *)
Cancel(m) ==
    /\ task[m] # None /\ task[m].op # "uiDelete"
    /\ Finish(m)
    /\ UNCHANGED <<memory, stream, agentStatus, tunnels, crashes>>

(* POST /admin/ui/tunnels/disconnect. *)
Disconnect(h) ==
    /\ registry[h] # None
    /\ Remove(h)
    /\ UNCHANGED <<stream, agentStatus, tunnels, task, crashes>>

(* The process dies and is started again; only the database survives, and
   nothing of it is reset at startup. *)
Restart ==
    /\ crashes < MaxCrashes
    /\ crashes' = crashes + 1
    /\ registry' = [h \in Hosts |-> None]
    /\ closed' = [s \in Streams |-> TRUE]
    /\ pc' = [s \in Streams |-> "idle"]
    /\ up' = [s \in Streams |-> FALSE]
    /\ agent' = [s \in Streams |-> None]
    /\ name' = [s \in Streams |-> None]
    /\ host' = [s \in Streams |-> None]
    /\ task' = [m \in Admins |-> None]
    /\ UNCHANGED <<agentStatus, tunnels>>

Client(s) == ClientGone(s) \/ \E a \in Agents, n \in Names : Open(s, a, n)

AdminStep(m) ==
    \/ DeleteRow(m) \/ UiDisconnect(m) \/ DoStart(m) \/ DoStop(m)
    \/ ReportStop(m) \/ DoAssign(m) \/ Cancel(m)

AdminBegin(m) ==
    \E n \in Names :
       \/ BeginDelete(m, n) \/ BeginUiDelete(m, n) \/ BeginStart(m, n) \/ BeginStop(m, n)
       \/ \E a \in Agents \cup {None} : BeginAssign(m, n, a)

ControlPlane ==
    \/ \E a \in Agents : CreateAgent(a) \/ RevokeAgent(a)
    \/ \E n \in Names, h \in Hosts, a \in Agents \cup {None} : CreateTunnel(n, h, a)
    \/ \E h \in Hosts : Disconnect(h)
    \/ \E m \in Admins : AdminBegin(m) \/ AdminStep(m)

Next == \/ \E s \in Streams : Handler(s) \/ Client(s)
        \/ ControlPlane
        \/ Restart

Spec == Init /\ [][Next]_vars

(* The goroutine of a handler is scheduled and its statements return; nothing
   obliges a client or an administrator to act. *)
HandlerFairness(s) == WF_vars(Handler(s))

FairSpec == Spec /\ \A s \in Streams : HandlerFairness(s)

-----------------------------------------------------------------------------
(* Properties.                                                             *)

TypeOK ==
    /\ registry \in [Hosts -> Streams \cup {None}]
    /\ closed \in [Streams -> BOOLEAN]
    /\ pc \in [Streams -> {"idle"} \cup Admission \cup Claimed]
    /\ up \in [Streams -> BOOLEAN]
    /\ agent \in [Streams -> Agents \cup {None}]
    /\ name \in [Streams -> Names \cup {None}]
    /\ host \in [Streams -> Hosts \cup {None}]
    /\ agentStatus \in [Agents -> Status]
    /\ tunnels \in [Names -> Tunnel \cup {None}]
    /\ task \in [Admins -> Task \cup {None}]
    /\ crashes \in 0 .. MaxCrashes

(* No hostname stays claimed by a handler that has returned: an entry of the
   registry belongs to a stream that registered that very hostname and still
   has its deferred Unregister before it. *)
EntryHasHandler ==
    \A h \in Hosts : registry[h] # None =>
        pc[registry[h]] \in Holding /\ host[registry[h]] = h

(* A connection that is not closed can be found: it is the one the registry
   has for its hostname.  So no stream is open yet unreachable, and at most one
   stream is open for each hostname, whatever Disconnect, deletes and the
   teardown of earlier streams did in between. *)
OpenIsRegistered ==
    \A s \in Streams : ~closed[s] =>
        pc[s] \in Holding \ {"unregister"} /\ registry[host[s]] = s

(* A lookup of the registry finds a closed connection only between the two
   calls of that connection's own teardown. *)
RegisteredIsOpen ==
    \A h \in Hosts : registry[h] # None /\ closed[registry[h]] => pc[registry[h]] = "unregister"

(* An agent shown as connected is accounted for when a handler of it is past the
   write of that status and has still to write "offline". *)
AgentAccounted(a) ==
    agentStatus[a] = "connected" =>
        \E s \in Streams : agent[s] = a /\ pc[s] \in Claimed \ {"touch", "tunnelOffline"}

(* Likewise a tunnel shown as running, by a handler that registered as it. *)
TunnelAccounted(n) ==
    tunnels[n] # None /\ tunnels[n].actual = "running" =>
        \E s \in Streams : name[s] = n /\ pc[s] \in Claimed \ {"touch", "desire", "report"}

(* Only the death of the process strands a row: an agent accounted for stays so
   through every other step, whoever else registers, is revoked or tears down,
   and after a restart the next stream of a stranded agent accounts for it again. *)
OnlyCrashesStrandAgents ==
    [][\A a \in Agents : AgentAccounted(a) => AgentAccounted(a)' \/ Restart]_vars

(* The same of tunnels, which may be deleted and created again at another
   hostname while a handler that looked them up before goes on. *)
OnlyCrashesStrandTunnels ==
    [][\A n \in Names : TunnelAccounted(n) => TunnelAccounted(n)' \/ Restart]_vars

(* An agent is out: it is revoked and no stream of it is past authentication. *)
Out(a) == /\ agentStatus[a] = "revoked"
          /\ \A s \in Streams : agent[s] = a => pc[s] \in {"idle", "auth"}

(* Revocation becomes final once the streams that authenticated before it are
   gone: then the agent stays revoked and no stream of it gets in. *)
RevocationSettles == [][\A a \in Agents : Out(a) => Out(a)']_vars

(* The tunnel's row names the agent. *)
HasTunnel(a, n) == n \in {k \in Names : tunnels[k] # None /\ tunnels[k].agent = a}

(* A tunnel is out of an agent's hands: it is not assigned to it, and no stream
   of the agent for it is past the lookup. *)
Unassigned(a, n) ==
    /\ ~HasTunnel(a, n)
    /\ \A s \in Streams : agent[s] = a /\ name[s] = n => pc[s] \in {"idle", "auth", "lookup"}

(* Taking a tunnel from an agent, or deleting it, is final once the streams that
   looked it up before are gone: only a new assignment lets the agent in. *)
UnassignmentSettles ==
    [][\A a \in Agents, n \in Names :
          Unassigned(a, n) => Unassigned(a, n)' \/ HasTunnel(a, n)']_vars

(* The hostname of a client that is gone becomes free. *)
DeadStreamReleasesHost ==
    \A s \in Streams, h \in Hosts :
        (registry[h] = s /\ ~up[s]) ~> (registry[h] # s)

(* When the clients are gone for good, the rows catch up: in a process that was
   not restarted no agent is left shown as connected and no tunnel as running,
   in whatever order the last streams came, were disconnected and tore down. *)
RowsCatchUp ==
    <>[](\A s \in Streams : ~up[s]) =>
        <>[](crashes = 0 =>
               /\ \A a \in Agents : agentStatus[a] # "connected"
               /\ \A n \in Names : tunnels[n] # None => tunnels[n].actual = "offline")

(* The registry and the flags of the connections implement the leases. *)
Lease == INSTANCE HostLease WITH
    lease <- [s \in Streams |-> IF pc[s] \notin Claimed THEN "none"
                                ELSE IF closed[s] THEN "lost" ELSE "held"],
    at <- [s \in Streams |-> IF pc[s] \in Claimed THEN host[s] ELSE None]

ImplementsLease == Lease!Spec

(* What the code and its documents say and the program does not do.        *)

(* "Registry maps hostname to the active tunnel connection", and "Server looks
   up the active tunnel": an entry leaves the registry when an administrator
   disconnects it, when its own client is gone, or with the process; it does not
   leave it because an earlier stream of the hostname has ended. *)
ActiveTunnelStays ==
    [][\A h \in Hosts : registry[h] # None /\ registry'[h] = None =>
          \/ ~up[registry[h]]
          \/ Disconnect(h) \/ (\E m \in Admins : UiDisconnect(m)) \/ Restart]_vars

(* "Revoke an agent": the status an administrator gave an agent stays. *)
RevokedStaysRevoked ==
    [][\A a \in Agents : agentStatus[a] = "revoked" => agentStatus'[a] = "revoked"]_vars
=============================================================================
