# fwdx in TLA+

fwdx exposes a local HTTP application under a public hostname.  A client opens
one outbound gRPC stream per tunnel; the server keeps the connections in an
in-memory registry, forwards each public request over the stream of its
hostname and waits for the response.  Tunnels, agents, users, sessions, access
rules and logs are rows of a SQLite database.

This directory models the server's core and the client's processes, checks them
with TLC on small instances and proves their properties with TLAPS for every
instance: safety outright, liveness from fairness and the fact, plain from the
guards, that no action the argument needs is ever disabled.

## Inventory

| Part | State | Operations | Hard to get right |
|---|---|---|---|
| Tunnel stream handler (`internal/server/grpc_tunnel.go`, `Connect`) | one goroutine per stream; local variables; the rows it writes | register, authenticate, look the tunnel up, claim its hostname, write three rows, serve, deferred teardown | status and row are read once and used later; teardown goes by hostname; its writes come after it freed the hostname |
| Registry (`registry.go`) | hostname -> connection, under one mutex; volatile | `RegisterIfAbsent`, `Unregister`, `Disconnect`, `Get` | must agree with the handlers that are alive and with the connections' `closed` flags |
| Tunnel connection (`GrpcTunnelConn`) | `sendCh` (64), `pending`, `closed`, two mutexes | `EnqueueRequest`, `Close`, the sender goroutine, delivery in the receive loop | concurrent callers, timeouts, a close in the middle of a send, responses that come too late |
| Client connector (`internal/tunnel/connector.go`, `proxy_local.go`) | one request at a time | register, run a request locally with retries, answer | requests queue behind a slow one; the stream breaks with work under way |
| Control plane (`controlplane_api.go`, `admin_ui*.go`) | rows of `tunnels`, `agents`, `tunnel_access_rules` | create, assign, start, stop, delete, disconnect, revoke, access rule | every handler reads the row, then writes by name; several statements without a transaction |
| HTTP ingress (`proxy.go`) | none of its own | look up row, connection and rule; forward; log | three reads of two stores that change in between |
| Store (`store.go`) | SQLite, one connection in the pool | one SQL statement or one transaction at a time | no statement spans two of a handler's steps |
| Domain store (`domains.go`) | list in memory and a JSON file | add, remove, load | a failed or interrupted write, or a read that fails at the start, leaves list and file apart |
| Login and sessions (`session.go`, `auth_http.go`, `oidc.go`) | `oidc_login_states`, `oidc_sessions`, cookies | login, callback, logout, device start and poll | single use, expiry, callbacks that arrive twice |
| Client manager (`internal/tunnel/tunnel.go`, `runtime_state.go`) | a state file per tunnel, a child process, the stored credential | create, start, start detached, stop, delete | parent, child and a second command race over the file; PIDs are used again |
| Logs, events, statistics (`store.go`, `stats.go`) | `request_logs`, `tunnel_events`, counters | insert, list, retention | retention runs on every hundredth insert |

How they interact: a client's stream calls into the handler; the handler calls
the registry and the store; the ingress calls the registry and then the
connection's `EnqueueRequest`; an administrator's request changes rows, and
with `Disconnect` the registry.  Registry and connections are shared memory,
the rows are shared through single statements, handler and client share the
stream.  The OIDC provider is outside: it redeems codes and states claims, which
may change at any time.  Commands on a client machine share nothing but files.

What makes each part correct: the registry and the live handlers describe the
same tunnels; a hostname has at most one open connection and is freed when its
client is gone; admission follows the rows; rows say "connected" or "running"
only while somebody will write "offline", unless the process died; a caller gets
the response to its own request or none, and always returns; a close wakes
everybody; what must not be repeated is run once.  A login yields one session,
of the subject who authenticated; a session that is over stays over; an
administrator was made one by the provider's claims; the domain list and its
file differ only while a save or after an error.  The record of a running tunnel
is lost to nobody who saw it, a stop reports what has ended, and no stranger is
killed for having an old PID.

## Modules

`TunnelSessions` - the life of a tunnel on the server.  `pc[s]` is the place of
the `Connect` handler of stream `s`: `auth`, `lookup`, `claim` before
`RegisterIfAbsent`, then `touch`, `desire`, `report`, `ack` (the writes and the
acknowledgement), `serve` (the receive loop) and `close`, `unregister`,
`agentOffline`, `tunnelOffline` (the deferred function).  `registry` and
`closed` are the volatile state of `registry.go` and of the connections;
`agentStatus` and `tunnels` the rows; `task[m]` a control-plane request between
two of its statements.  One action is one critical section of the registry's
mutex or one SQL statement: `NewStore` limits the pool to one connection, so
statements are serialised and nothing larger is.  A statement under the
stream's context fails once the client is gone (`up[s]` false) and the handler
ignores it, as in the code; the deferred ones run under
`context.Background()`.  Any request may be cancelled between its statements
(`Cancel`).  `Restart` kills every handler and request, and empties what is
volatile.

`HostLease` - the abstract specification of the above: a stream acquires a
hostname nobody holds, keeps it until it is evicted, and an evicted stream
never gets it back.  A stream between `RegisterIfAbsent` and the end of its
handler maps to a lease that is `held` while its connection is not closed and
`lost` after; the lease is for the hostname it read.

`TunnelConn` - one registered connection at work: the calls of
`EnqueueRequest`, `Close`, the sender goroutine, the receive loop of `Connect`,
the stream in both directions and the client's loop: it takes a request
(`busy`), asks the local application up to `MaxAttempts` times (`left`; more
than once only for a method in `Idempotent`, after a transport error), and
answers.  A step is one channel
operation, one operation on the stream, or one critical section of `closedMu`
or `pendingMu`.  `Close` holds `closedMu` from setting the flag to the end of
its notifications, hence its two steps and the state `closing`, in which the
check at the head of `EnqueueRequest` waits.  `recvHand` is the channel the
receive loop has taken out of `pending` and not yet sent to.

`RequestReply` - the abstract specification of a forwarded request: a call is
answered or fails, once; it is answered only after the client was given the
request, which happens at most once.  Its liveness is `EveryCallEnds`: a call
that waits is answered or fails.

`AccessRules` - the tunnel at one hostname and its access rule: `row` is the id
of the tunnel, `nextId` what AUTOINCREMENT gives next (ids are never given
again), `rules` the table `tunnel_access_rules`, `edit[e]` an
`UpsertTunnelAccessRule` between the statement that reads the old rule and the
one that writes the merged one; `CancelAll` ends them all, with the process.
`Validated` is `validateAccessRuleInput`:
fields left blank are taken from the old rule, fields the mode does not use are
cleared.  A step is one SQL statement or one transaction; `CreateTunnel` is one
transaction, a delete takes the rule along (`ON DELETE CASCADE`, foreign keys
are switched on), a write for a deleted tunnel fails.  A secret stands for its
hash.  `UpsertTunnelStatus`, which can insert a tunnel without a rule, is called
by tests only and is left out.

`Ingress` - extends `AccessRules` with `ProxyHandler`.  A request's handler
(`req[r]`) reads the row, the registry, the row again if there was none, and the
rule, in steps of their own; `Send` is its `EnqueueRequest`.  The connections
are those of `HostConns` (`ConnStep`); `Restart` ends them, the updates and the
requests.  `since` is a history variable: the rules in force since the handler has its connection,
and whether the request is void because a tunnel was deleted, or the second
lookup failed, since it arrived.

`HostConns` - what the ingress assumes of one hostname: its tunnel comes and goes
(`row`, with an id that is never given again), and a connection is `new`, looks
the tunnel up (`found`), registers if nobody has (`open`, or `closed` at once),
and is closed by itself or when the hostname is unregistered, for good.  Streams,
clients, agents, names and administrators are left out, so that a connection
does any of this whenever it is possible.

`SessionsAtHost` - `TunnelSessions` seen from one hostname.  A stream of
`TunnelSessions` is used again after its handler returns and a tunnel has no id,
so three history variables number both: `nextId` counts the tunnels at the
hostname, `turn[s]` the connections of stream `s` that are over, `found[c]` is
the id of the tunnel that connection `c` looked up, where `c` is a stream and a
turn.  `Row`, `Registered` and `ConnState` are `HostConns`' view of the registry,
the `closed` flags and the places of the handlers; that this view behaves as
`HostConns` says is `ServesAsAssumed`.

`LoginSessions` - logins, sessions and the admission of requests.  `states`,
`users` and `sessions` are the tables; `req[q]` the handler of a request: a
browser login (`Callback`, `Exchange`, `Upsert`, `Select`, `Issue`), a device
login (`DevicePoll`, and on from `Upsert`), or a request with a token
(`Present`, then `DropExpired` or `Touch`, then `act` if the role that was read
is `admin`).  A step is one SQL statement, one transaction (`ConsumeLoginState`)
or one exchange with the provider; any handler may be cut off between them
(`CutOff`).  The provider is the environment: `claims` change when it likes, and
`codes` are redeemed once, for the login whose PKCE challenge they were asked
with.  `SeenGroups` has the branch in which userinfo fails and the groups are
missing.  Times are states: an open login or a session expires at any moment.
`issued` (who a token was issued for, at which login) and `granted` (who was ever
an administrator by his claims) are history variables.

`SessionBook` - the abstract specification of the above, with no tables, no
provider and no handlers: a browser login opens one session at most, a login
that came to nothing opens none, a device login may open one at any time, and a
session belongs to whom it was opened for until it is over, which it stays.  A
login that may still open one (`left`) is one whose state is not consumed, or
that a handler has in hand; a session's holder is lost when its row is gone or
past its time.

`DomainStore` - the allowed domains: the list in memory, the file, and
`saveLocked` in its two halves, since `os.WriteFile` truncates before it writes.
A change and its save happen under the store's mutex (`holder`). `Reload` is
`NewDomainStore`, which ignores every error of `Load`: a file that is torn
cannot be parsed and gives an empty list (`LoadSucceeds`, through `Loaded`), and
a read of a file that is there may fail, which gives an empty list over whatever
the file holds (`LoadFails`).  `failed` is a history variable: a save or such a
read failed, and no save has succeeded since.

`AdminDomains` - the two composed: a request past the gate (`act`) adds or
removes a domain, and a restart kills the handlers and reloads the list.  It
implements `LoginSpec`.

`ClientRuntime` - the processes of one tunnel on a client machine.  `file` is
`run/<name>.json`, `tmp` the name beside it under which it is written, `proc[p]`
the process under PID `p`: a command of ours at its place in the code, or a
stranger whose command line looks like ours or not.  A step is one system call,
or one `ps`.  `runtimeStateIfRunning` is `Read`, `ProbeAlive` or `ProbeDead`
(`kill -0`), `LookRunning` or `LookOther` (`ps`, and the two minutes for which a
record is believed); `Answer` is what the command that asked does with it.  A PID
is free as soon as its process is gone, unless the process is a child whose
parent has not waited for it (`Zombie`).  `void` is a history variable: the
process that a command saw has ended.

The abstractions of `ClientRuntime`: writing the temporary file is one step,
as is removing a record together with the probe or the `ps` that decided it;
`SIGKILL` and the `SIGTERM` of our own processes take effect at once, a
stranger may ignore `SIGTERM`; `Reread` reads and removes in one step; a process
of another user counts as dead, because `kill -0` fails; the calls of the
server's API before, between and after are left out, and a command that fails
in one is an `Exit`.

`TunnelSessionsProofs`, `SessionsAtHostProofs`, `TunnelConnProofs`,
`AccessRulesProofs`, `IngressProofs`, `LoginSessionsProofs`, `AdminDomainsProofs`
and `ClientRuntimeProofs` - the theorems.  `MCTunnelSessions`,
`MCSessionsAtHost`, `MCTunnelConn`, `MCAccessRules`, `MCIngress`,
`MCAdminDomains` and `MCClientRuntime` - the instances TLC checks.

## Runs

| Run | Question | Bounds and why they are enough |
|---|---|---|
| `sessions_core` | Registry and connections stay consistent, only the death of the process strands an agent's row, revocation and reassignment settle, and the registry implements `HostLease` | two streams (one dying, one taking over), two agents, one tunnel and hostname, one administrator in the middle of a request plus any number of requests of one statement, one restart |
| `sessions_hosts` | Only the death of the process strands a running tunnel's row, also when the tunnel is deleted and created again at another hostname; and one of two hostnames, watched over its life, sees of tunnels, streams, disconnects and restarts only what `HostConns` allows | two hostnames, one name, one agent, two streams, one administrator, one restart; at the watched hostname one tunnel and one connection of each stream, enough for one stream's teardown to unregister the other's connection; the other hostname is not bounded |
| `sessions_live` | A hostname whose client is gone becomes free, and the rows catch up when the clients are gone for good | two streams, one hostname, one restart |
| `conn_core` | No leak in `pending`, responses reach their own callers and are not lost, a close leaves nobody asleep and releases the waiting without a timer, what must not be repeated runs once; with the timers every call returns; the connection implements `RequestReply` | two calls, one of them idempotent, a send channel of capacity one: one buffered and one blocked, or one in the sender's hand and one buffered; two attempts |
| `ingress_core` | A tunnel has its rule and a deleted one has none; a stored rule is complete for its mode; a blank field keeps the stored one; what is forwarded was admitted by a rule in force while it was handled | one request, since requests do not touch what others read; two tunnels one after the other (an update may outlive its tunnel), two connections each used once, one update at a time, a rule of every mode, an update that leaves the password blank and one that is refused |
| `admin_core` | A login yields one session, of its own subject; what is over stays over; demotions settle; the tables implement `SessionBook`; only the granted change the domains; list and file differ only during a save or after an error | two subjects, one group that makes administrators, one browser login (its callback may come twice, with codes of both subjects) and any number of device logins, one token, two requests at a time, one domain; restarts, failed saves and failed reads without bound |
| `runtime_core` | A stop reports what has ended, a running tunnel's record is lost to nobody who saw it, strangers are spared | three PIDs: a command, the process its record names and one that interferes, or a parent, its child and a stop |

The run of the ingress checks no deadlock, because the ids run out at
`MaxTunnels`, a bound of the model; those of a connection check none, because a
connection really stops: its calls have returned, or the client is silent for
ever.  The others check it.

Five more runs check what the code or its documents say and find it violated;
they are the findings of `PROJECT.json`:

* `sessions_active` - the teardown of a stream that was disconnected
  unregisters the hostname, and with it the connection of the stream that
  registered in the meantime.  That stream's client stays connected and is sent
  nothing.
* `sessions_revoked` - a stream of the agent writes `connected` or `offline`
  over `revoked`.
* `conn_panic` - `EnqueueRequest` sends on the channel that `Close` closed.
* `rules_keep` - the form says of a password "leave blank to keep"; of two
  updates at the same time, the one that left it blank writes back the password
  it read and undoes the other's.
* `runtime_detached` - the child of a detached start finds the record its parent
  has written of it, and refuses to start because the tunnel "is already
  running".

The bounds named in the modules are `MaxCrashes` (restarts), `SendCap` (the
capacity of `sendCh`, 64 in the code and 1 in the runs), `MaxAttempts` (of the
client's local request, 4 in the code and 2 in the runs), `MaxTunnels` (the
tunnels created at a hostname) and `MaxTurns` (the connections of a stream there
that `SessionsAtHost` numbers).  In `admin_core` a token is drawn once, so one
session is issued, which either subject may get by either kind of login and
which is then presented any number of times.  Streams and tunnel names are used
again after a handler returns or a row is deleted, so a run is not limited to as
many connections as it has streams.

## Fairness

`TunnelSessions!FairSpec` is weak fairness of each `Connect` handler
(`HandlerFairness(s)`): the Go scheduler runs a goroutine that can run, and a
statement returns because the pool serves one statement after the other.  Clients and administrators have
none.  That a vanished client ends in an error of `Recv` is the transport's
work (a reset connection, or TCP giving up); `up[s]` false is the moment the
server notices.

`TunnelConn!ServerFairness` is weak fairness of the goroutines' steps that do
not depend on the peer: of a call, registering, receiving from the response
channel and cleaning up (`CallFairness(r)`); of the connection, finishing a
`Close` that began, the handler's own `Close` once it is at its deferred
function, and the receive loop's steps while it does not wait for the stream
(`ConnFairness`).  `TimerFairness` adds that a call gets past its check and that
its context's deadline of 65 s or its timer of 60 s fires (`TimersOf(r)`).  It is
not part of `FairSpec`: `EveryCallReturns` and the liveness half of
`ImplementsPromise` have it as their premise, and `CloseReleasesWaiters` does
without, since no timer may help there.  The sender, the client and
the stream have no fairness: each may be stuck for ever.

Weak fairness of an action says nothing while the action is disabled.  That none
is disabled where the code has something to do is plain from the guards, which
split the cases of each place; `HandlersNotStuck` and `NothingStuck`, in the
proof modules, write it down as the hypothesis of the liveness theorems.

## Proofs

`TunnelSessionsProofs`, for any sets of streams, agents, names, hostnames and
administrators and any number of restarts: type correctness, every invariant of
the passing runs, every action property, the refinement, and the release of dead
hostnames.
The invariant about the registry is `Typing /\ RegistryInv`.  `Typing`
strengthens `TypeOK` by what a handler knows at its place (`SessionOK`: it has an
agent and a name once it is open, and a hostname once it looked it up) and by the
shape of tasks.  `RegistryInv` says that the registered entries and the open
connections are the same pairs, except that a handler between its `Close` and its
`Unregister` may still be registered with a closed connection; none of its three
invariants is inductive alone, since `Unregister` removes an entry by hostname
and only their conjunction says whose entry that can be.  `StepKinds` classifies
every step by what it does to registry and handlers, so that the steps of rows
and tasks are treated once.  `OnlyCrashesStrandAgents` and
`OnlyCrashesStrandTunnels` follow from who writes the rows (`AgentWrites`, `RunningWrites`) and from `HandlersGoOn`:
a handler leaves the code between its two writes only by the second.
`RevocationSettles` and `UnassignmentSettles` rest on `EarlyStreams`, which says
how a stream gets past authentication and lookup.  For `ServerImplementsLease`,
`HolderIsRegistered` makes the holder of a lease the registered stream, so that
a `Remove` evicts one stream or none (`RemoveEvicts`).
`ActiveStaysUndisturbed` is the other side of the finding of `sessions_active`:
as long as nobody disconnects a hostname, its entry goes only after its client
is gone, or with the process; so `Disconnect` is the whole cause.  `OwnerInv`
carries it: without a disconnect whoever has still to unregister a hostname is
registered there, and begins its teardown only when its client is gone.
`DeadStreamsRelease` follows a dead stream from place to place of its handler
(`DeadAt`, `DeadMovesOn`): it moves on, or its hostname is already somebody
else's, or free.  `HostnamesAreUnique` follows from who writes a row's hostname
(`HostWrites`): only its creation, which looks at every other row.

`SessionsAtHostProofs`: `SessionsServeAsAssumed`, that the sessions of any number
of streams, agents, hostnames and administrators refine `HostConns` at any
hostname, for any bounds, hence for every finite behaviour.  `Typing` and
`RegistryInv` are what it rests on, with `HistoryInv`: a stream at the hostname is
past its lookup and has a connection that is not over.  `Cells` says what a step
does to the connections of a stream: the earlier ones stay closed, the later ones
new, so that only the present one counts (`Was`, `Becomes`).  `QuietSteps` leaves
of the steps the registry does not notice those that look up and those that are
refused, and each of the others has a lemma of its own.  `RemoveStep` needs
`EntryHasHandler`: a removal at another hostname closes no connection of this one,
and one at this hostname closes the registered one, whoever's it is; `OfflineStep`
needs `OpenIsRegistered`: a handler that ends has closed its connection long
before.  `RowSteps` says that the tunnel comes and goes in steps no stream takes
part in.

`TunnelConnProofs`, for any set of calls and any capacity: type correctness
(with the bound on the channel), every invariant of the run, the refinement, and the two liveness properties.  `SentInv` (what is on a channel
or on the stream belongs to a call that is past its send) makes `PendingInv` inductive: a response can
only remove the entry of a call that has sent.  `ChannelInv` ties every response
channel, and the response in the receive loop's hand, to its own call.
`WaiterInv` is the strengthening of `ClosedWakesWaiters` to the time before the
close: a waiting call has something in its channel, or is in the receive loop's
hand, or is pending while `Close` has not notified yet; `AnswersNotLost` rests on
it too, because the receive loop must find the call pending when its response
arrives.  `OnceInv` says that a request is at one place only, once, before the
client is given it; with `RunsInv`, which counts the attempts by the ones that
are left, it gives `LocalRuns`.  `ConnectionKeepsPromise` is the safety of
`RequestReply`: `AnswerInv` says that what is on its way back answers a request
the client was given, once.  `LateCallsAreRefused` says what the check at the
head of `EnqueueRequest` does achieve, next to the panic of `conn_panic`: a call
that begins after `Close` has, fails without a panic, and the client never sees
its request.  It rests on `SentGrows`, which says that only a call in its send
puts a request anywhere.  For the liveness theorems, `LiveInv` gathers the invariants
above and what the receive loop has in its hand; `CallGoesOn` and `CloseGoesOn`
say where a call and a `Close` can go next.  `CloseReleasesEveryWaiter` uses
`WaiterInv`: after `Close` a waiter without a response is in the receive loop's
hand.  `CallsReturn` and `ConnectionImplementsPromise` add the timers.

`AccessRulesProofs`, for any sets of editors, inputs, names and secrets and any
number of tunnels: type correctness, `RowsHaveRules` and `RuleComplete`.
`RowsHaveRules` alone is not inductive: `RowInv` adds that the row's id is below
`nextId`, so that a new tunnel cannot get the id of one that has a rule.
`ValidatedType` and `ValidatedComplete` say what the merge of any input with any
complete rule returns; `RuleComplete` follows because a merge takes the old rule
from an `edit` whose copy was itself complete.  `BlankKeepsAlone` is `BlankKeeps`
for one editor: `ReadIsStored`, that the copy an update took is still the rule
that is stored when it writes, is then an invariant through deletes and
creations.  That there is one editor is needed: `rules_keep` shows two undoing
each other's change.

`IngressProofs`, for any number of requests, connections and tunnels on top:
type correctness and `AdmittedByRule`.  The invariant, `AdmissionInv`, is `Own`
for every request: unless the request is void, the row its handler copied is
the present one, a request past the registry has the rule in force among
`since`, and a request past its check presents what one of those rules asks
for, or its connection is of another tunnel.  That the copy stays
right rests on ids that are never given again, that is on `RowInv`; that the
rule it finds by the copy was in force rests on `RowsHaveRules`.
`StoreAdmission`, `ConnAdmission` and `RequestAdmission` are its three kinds of
steps.  `IngressImplementsRules` is the refinement `IngressSpec => Spec`: no
request writes what the store keeps, so a rule is complete whenever a handler
reads it (`RulesReadAreComplete`), and one editor's blanks are kept under any
number of requests (`BlankKeepsUnderRequests`).  `IngressImplementsConns` is the
same of `HostConns`: what the ingress sees of the hostname is what
`SessionsServeAsAssumed` proves of the sessions.  The two theorems meet in
`HostConns` from both sides: the ingress reads no more of a hostname than its
variables, and the sessions do no more to them than its actions.

`LoginSessionsProofs`, for any sets of subjects, groups, logins, tokens and
requests: type correctness, `LoginOnce`, `SessionOfSubject`, `OverStaysOver`,
`DemotionSettles`, and that every administrator was one by his claims
(`AdminsWereGranted`).  `LoginInv` adds to the types what a handler knows at its
step (`KnownAt`).  `OnceInv` counts for `LoginOnce` the handlers that passed
`Callback` together with the sessions of a login: while the login's state is
stored there are none, and later one at most.  `LoginsKeepBook` is the
refinement of `SessionBook`: `LoginSteps` says how a step changes the logins in
progress, `SessionSteps` how it changes a session, and `OnceInv` gives the one
place where both change at once: a session is issued by the one handler that has
its login in hand, which then has it no longer.  `TokenSteps`, `RowSteps` and
`ClaimSteps` classify the steps by what they do to sessions, users and claims;
the two action properties are proved from them.  `GrantInv` follows the role
from the claims through the handler to the row and to the session that is read.

`AdminDomainsProofs`: `AdminSpec => LoginSpec` (`RefinesLogins`), so all of the
above, the book of sessions included, holds of the composition (`LoginsHold`);
`AdminTypeOK` and `FileHoldsList`, whose conjunction `DomainInv` is inductive,
with a restart that reads the file and one that fails to; and
`OnlyAdminsChange`, from `AdminsWereGranted`.

`ClientRuntimeProofs`, for any set of PIDs: type correctness, `StoppedIsGone`,
`RecordKept` and `SparesStrangers`.  The invariant, `RuntimeInv`, is `Knows` for
every command: it has been told (`void`) when what it saw ended, it is about to
stop only what it found running, and it removes a record only once the process
in it has ended.  The lemmas about `Consistent` treat the ways in
which processes change: a command moves on (`StepKeeps`, `RunKeeps`), a process
ends (`GoneKeeps`), a record gets older (`AgeKeeps`), a check answers
(`AnswerKeeps`).

The assumptions are those on the constants (`ConstantsAssumption` of
`TunnelSessions`, `TunnelConn` and `AccessRules`, `HostAssumption`,
`ConnsAssumption`, `IngressAssumption`,
`LoginAssumption`, `RowAssumption`, `DomainAssumption`, `AdminAssumption`, `RuntimeAssumption`,
`NoneAssumption`: the markers are not values, the capacity is positive, what the
runs enumerate has its type, the requests are the writers of the list), which TLC
evaluates in each run.

Model-checked only: `RowsCatchUp`.  Each handler reaches its end by the argument
of `DeadStreamsRelease`, but that all have needs an induction over the set of
streams under a temporal formula, which is out of the prover's reach.  So is
`ENABLED`, which it can only treat as a name: the liveness theorems
(`DeadStreamsRelease`, `CloseReleasesEveryWaiter`, `CallsReturn` and
`ConnectionImplementsPromise`) have `HandlersNotStuck` or `NothingStuck` as a
hypothesis, `FairSpec` and `[]NothingStuck` imply the property.  The runs
`sessions_live` and `conn_core` check the properties under `FairSpec` itself, with
`ENABLED` evaluated.  `BlankKeeps` is proved for one editor only, as it must be.

## What the properties leave open

Some of what the code does wrong or leaves undecided is in the models but excluded
by no property, because no document says what should happen.  A live stream's rows
may say "offline", when an earlier stream, or another tunnel of the same agent,
ended after it registered; the properties exclude only the reverse.  An agent
revoked, or a tunnel taken away, while a stream is between the check and its
registration goes on being served: `RevocationSettles` and `UnassignmentSettles`
begin when such streams are gone.  A logout whose delete fails is answered like
one that succeeded, and leaves the session (`Logout`); `OverStaysOver` speaks of
sessions that were deleted.  A request admitted as administrator stays so when the
role changes under it: `OnlyAdminsChange` asks for a subject who was ever made
one.  The older of two logins in progress may write its role last
(`DemotionSettles` begins when they agree).  A start may remove the record that
another start has written since it looked (`RecordKept` excepts it).  And a domain
file that cannot be read when the server starts is overwritten by the next change
(`FileHoldsList` says when list and file may differ, not that the domains survive).

## Not modelled

Contents of requests and responses, headers, body limits; the request log with
its retention, tunnel events and traffic statistics, which no decision of the
server reads; the wording of pages and of the command line; TLS, listeners and
configuration; who may do what in the control plane (owner checks); token
verification and the provider's own device-code states, which are library and
service code.  Of the ingress: how the client's address is read behind proxies
and size limits.  Of the login: cookies and redirects.  Of the client: its
configuration files, the credential stored there, the log it follows, and the
calls of the server's API around a start or a delete.  `Registry.Register` has
no caller.  Websocket upgrades are answered 501 by the code.

## Plan

Done: the core (`TunnelSessions` and `TunnelConn` with their abstractions), the
admission of requests (`AccessRules`, `Ingress`, and `HostConns` between them and
the core), the login with the admin gate
and the domain list (`LoginSessions`, `DomainStore`, `AdminDomains`) and the
client's processes (`ClientRuntime`); their safety is proved, and their liveness
but for what is said above.  What would come next, in this order:

1. What `ClientRuntime` promises, as an abstract specification of a record and
   the one process it names.
2. The client's credential: create, start and delete call the server and write
   a file, in an order that decides what a failure in between leaves behind.
3. The owner checks of the control plane, on top of `LoginSessions`.
4. `RequestLogs`: the retention that runs on every hundredth insert.
5. A fault model of the database (a statement that fails under a live context),
   which the modules now exclude by assumption.
