----------------------------- MODULE TunnelConn -----------------------------
(***************************************************************************)
(* One registered tunnel connection at work (internal/server/grpc_tunnel.go *)
(* and the loop of internal/tunnel/connector.go): HTTP handlers call        *)
(* EnqueueRequest, the sender goroutine writes the requests to the gRPC     *)
(* stream, the client runs them one after the other, the Connect handler    *)
(* receives the responses and hands each to the caller that waits for it,   *)
(* and Close may come at any time, from an administrator or at the end of   *)
(* the stream.                                                              *)
(*                                                                          *)
(* A step is one operation on a channel, on the stream, or one critical     *)
(* section of closedMu or pendingMu.  A request stands for its ID, a fresh  *)
(* UUID, and a response for the ID it carries.                              *)
(***************************************************************************)
EXTENDS Naturals, Sequences, FiniteSets, Functions

CONSTANTS Requests,       \* the calls of EnqueueRequest
          Idempotent,     \* those with GET, HEAD or OPTIONS
          MaxAttempts,    \* how often the client asks the local application, 4 in the code
          SendCap,        \* capacity of sendCh, 64 in the code
          None,           \* no request
          Empty, Nil,     \* a response channel holding nothing; holding nil
          Failed,         \* EnqueueRequest returned (nil, true)
          Panicked        \* EnqueueRequest panicked: send on closed channel

ASSUME ConstantsAssumption ==
    /\ SendCap \in Nat \ {0} /\ MaxAttempts \in Nat \ {0}
    /\ Idempotent \subseteq Requests
    /\ {None, Empty, Nil, Failed, Panicked} \cap Requests = {}
    /\ None \notin [call : Requests, response : Requests]
    /\ Empty # Nil /\ None # Failed /\ None # Panicked /\ Failed # Panicked

VARIABLES pc,         \* where each call of EnqueueRequest is
          result,     \* what it returned: a response, Failed or Panicked
          pending,    \* keys of c.pending
          respCh,     \* contents of each call's response channel, capacity 1
          sendCh,     \* requests buffered in c.sendCh
          closer,     \* Close: "open", "closing" (sendCh closed), "closed"
          sender,     \* the sender goroutine: "none", "running", "stopped"
          inHand,     \* the message the sender took and has not sent
          handler,    \* the Connect handler: "ack", "recv", "close", "returned"
          recvHand,   \* the call whose channel the handler found in c.pending
          up,         \* the gRPC stream is alive
          toClient, toServer,  \* requests and responses on the stream
          taken,      \* how often the client was given each request
          busy,       \* the one it is running
          left,       \* how often it may still ask; 0: there is something to answer
          runs        \* (history) how often the local application was asked for each

calls == <<pc, result>>
conn == <<pending, respCh, sendCh, closer>>
server == <<sender, inHand, handler, recvHand>>
wire == <<up, toClient, toServer>>
client == <<taken, busy, left, runs>>
vars == <<calls, conn, server, wire, client>>

-----------------------------------------------------------------------------

Init == /\ pc = [r \in Requests |-> "new"]
        /\ result = [r \in Requests |-> None]
        /\ pending = {}
        /\ respCh = [r \in Requests |-> Empty]
        /\ sendCh = <<>>
        /\ closer = "open"
        /\ sender = "none" /\ inHand = None
        /\ handler = "ack" /\ recvHand = None
        /\ up = TRUE /\ toClient = <<>> /\ toServer = <<>>
        /\ taken = [r \in Requests |-> 0] /\ busy = None
        /\ left = 0 /\ runs = [r \in Requests |-> 0]

Goto(r, label) == pc' = [pc EXCEPT ![r] = label]

(* The outcome is decided; the deferred delete from c.pending is left. *)
Leave(r, outcome) == /\ Goto(r, "cleanup")
                     /\ result' = [result EXCEPT ![r] = outcome]

-----------------------------------------------------------------------------
(* EnqueueRequest.                                                         *)

(* The check of c.closed; it waits for a Close in progress, which holds
   closedMu. *)
Check(r) ==
    /\ pc[r] = "new"
    /\ \/ closer = "open" /\ Goto(r, "register") /\ UNCHANGED result
       \/ /\ closer = "closed"
          /\ Goto(r, "done")
          /\ result' = [result EXCEPT ![r] = Failed]
    /\ UNCHANGED <<conn, server, wire, client>>

Register(r) ==
    /\ pc[r] = "register"
    /\ pending' = pending \cup {r}
    /\ Goto(r, "send")
    /\ UNCHANGED <<result, respCh, sendCh, closer, server, wire, client>>

(* A channel without a capacity. *)
SendUnbounded(r) ==
    /\ pc[r] = "send" /\ closer = "open"
    /\ sendCh' = Append(sendCh, r)
    /\ Goto(r, "wait")
    /\ UNCHANGED <<result, pending, respCh, closer, server, wire, client>>

Send(r) ==
    /\ pc[r] = "send" /\ closer = "open"
    /\ Len(sendCh) < SendCap
    /\ sendCh' = Append(sendCh, r)
    /\ Goto(r, "wait")
    /\ UNCHANGED <<result, pending, respCh, closer, server, wire, client>>

(* The channel was closed since the check, before the send or while it was
   blocked in it. *)
SendPanics(r) ==
    /\ pc[r] = "send" /\ closer # "open"
    /\ Leave(r, Panicked)
    /\ UNCHANGED <<conn, server, wire, client>>

(* Close's nil taken for a response. *)
ReceiveNilAsResponse(r) ==
    /\ pc[r] = "wait" /\ respCh[r] # Empty
    /\ respCh' = [respCh EXCEPT ![r] = Empty]
    /\ Leave(r, IF respCh[r] = Nil THEN r ELSE respCh[r])
    /\ UNCHANGED <<pending, sendCh, closer, server, wire, client>>

(* A response or Close's nil is received. *)
Receive(r) ==
    /\ pc[r] = "wait" /\ respCh[r] # Empty
    /\ respCh' = [respCh EXCEPT ![r] = Empty]
    /\ Leave(r, IF respCh[r] = Nil THEN Failed ELSE respCh[r])
    /\ UNCHANGED <<pending, sendCh, closer, server, wire, client>>

(* A send that does not watch the context. *)
AbandonWait(r) ==
    /\ pc[r] = "wait"
    /\ Leave(r, Failed)
    /\ UNCHANGED <<conn, server, wire, client>>

(* ctx.Done, in both selects: the caller went away, or its 65 seconds are
   over; in the second also the timer of 60 seconds. *)
Abandon(r) ==
    /\ pc[r] \in {"send", "wait"}
    /\ Leave(r, Failed)
    /\ UNCHANGED <<conn, server, wire, client>>

(* A return that leaves the entry in c.pending. *)
CleanupKeeps(r) ==
    /\ pc[r] = "cleanup"
    /\ Goto(r, "done")
    /\ UNCHANGED <<result, conn, server, wire, client>>

(* A return that clears c.pending. *)
CleanupAll(r) ==
    /\ pc[r] = "cleanup"
    /\ pending' = {}
    /\ Goto(r, "done")
    /\ UNCHANGED <<result, respCh, sendCh, closer, server, wire, client>>

Cleanup(r) ==
    /\ pc[r] = "cleanup"
    /\ pending' = pending \ {r}
    /\ Goto(r, "done")
    /\ UNCHANGED <<result, respCh, sendCh, closer, server, wire, client>>

EnqueueRequest(r) ==
    Check(r) \/ Register(r) \/ Send(r) \/ SendPanics(r) \/ Receive(r) \/ Abandon(r) \/ Cleanup(r)

-----------------------------------------------------------------------------
(* Close.                                                                  *)

(* closed is set and sendCh closed; closedMu stays held. *)
CloseChan ==
    /\ closer = "open"
    /\ closer' = "closing"
    /\ UNCHANGED <<calls, pending, respCh, sendCh, server, wire, client>>

(* Emptying c.pending without telling the callers. *)
DropPending ==
    /\ closer = "closing"
    /\ closer' = "closed"
    /\ pending' = {}
    /\ UNCHANGED <<calls, respCh, sendCh, server, wire, client>>

(* nil to every pending channel that is empty; the locks are released. *)
NotifyPending ==
    /\ closer = "closing"
    /\ closer' = "closed"
    /\ respCh' = [r \in Requests |-> IF r \in pending /\ respCh[r] = Empty
                                     THEN Nil ELSE respCh[r]]
    /\ UNCHANGED <<calls, pending, sendCh, server, wire, client>>

-----------------------------------------------------------------------------
(* The sender goroutine.                                                   *)

Take ==
    /\ sender = "running" /\ inHand = None
    /\ sendCh # <<>>
    /\ inHand' = Head(sendCh)
    /\ sendCh' = Tail(sendCh)
    /\ UNCHANGED <<calls, pending, respCh, closer, sender, handler, recvHand, wire, client>>

(* The channel is closed and drained. *)
SenderDone ==
    /\ sender = "running" /\ inHand = None
    /\ sendCh = <<>> /\ closer # "open"
    /\ sender' = "stopped"
    /\ UNCHANGED <<calls, conn, inHand, handler, recvHand, wire, client>>

(* stream.Send; on an error the goroutine ends and the message is lost. *)
Forward ==
    /\ sender = "running" /\ inHand # None
    /\ inHand' = None
    /\ \/ up /\ toClient' = Append(toClient, inHand) /\ UNCHANGED sender
       \/ ~up /\ sender' = "stopped" /\ UNCHANGED toClient
    /\ UNCHANGED <<calls, conn, handler, recvHand, up, toServer, client>>

-----------------------------------------------------------------------------
(* The Connect handler, from the RegisterAck on.                           *)

SendAck ==
    /\ handler = "ack"
    /\ \/ up /\ handler' = "recv" /\ sender' = "running"
       \/ ~up /\ handler' = "close" /\ UNCHANGED sender
    /\ UNCHANGED <<calls, conn, inHand, recvHand, wire, client>>

(* A response goes to whichever call is pending. *)
AnyPending(id) == pending

(* The call the response is for, while it is pending. *)
PendingFor(id) == pending \cap {id}

(* A response is received and its channel looked up and removed. *)
RecvResponse ==
    /\ handler = "recv" /\ recvHand = None
    /\ toServer # <<>>
    /\ toServer' = Tail(toServer)
    /\ LET id == Head(toServer)
           found == PendingFor(id)
       IN IF found = {} THEN UNCHANGED <<pending, recvHand>>
          ELSE \E r \in found : /\ pending' = pending \ {id}
                                /\ recvHand' = [call |-> r, response |-> id]
    /\ UNCHANGED <<calls, respCh, sendCh, closer, sender, inHand, handler, up, toClient, client>>

(* The non-blocking send to the channel found. *)
Deliver ==
    /\ recvHand # None
    /\ respCh' = IF respCh[recvHand.call] = Empty
                 THEN [respCh EXCEPT ![recvHand.call] = recvHand.response] ELSE respCh
    /\ recvHand' = None
    /\ UNCHANGED <<calls, pending, sendCh, closer, sender, inHand, handler, wire, client>>

RecvError ==
    /\ handler = "recv" /\ recvHand = None /\ ~up
    /\ handler' = "close"
    /\ UNCHANGED <<calls, conn, sender, inHand, recvHand, wire, client>>

(* conn.Close in the deferred function returns: it was closed, now or before. *)
CloseReturns ==
    /\ handler = "close" /\ closer = "closed"
    /\ handler' = "returned"
    /\ UNCHANGED <<calls, conn, sender, inHand, recvHand, wire, client>>

-----------------------------------------------------------------------------
(* The client's loop: one request at a time, one response for each.        *)

ClientTake ==
    /\ up /\ busy = None /\ toClient # <<>>
    /\ busy' = Head(toClient)
    /\ toClient' = Tail(toClient)
    /\ taken' = [taken EXCEPT ![Head(toClient)] = @ + 1]
    /\ left' = MaxAttempts
    /\ UNCHANGED <<calls, conn, server, up, toServer, runs>>

(* A retry of every method. *)
RetriedAlways == left > 1

(* A transport error is worth another attempt, for a method that may be repeated. *)
Retried == left > 1 /\ busy \in Idempotent

(* ProxyToLocal: a response, one that is too large, or a transport error. *)
TryLocal ==
    /\ busy # None /\ left > 0
    /\ runs' = [runs EXCEPT ![busy] = @ + 1]
    /\ \/ left' = 0
       \/ Retried /\ left' = left - 1
    /\ UNCHANGED <<calls, conn, server, wire, taken, busy>>

(* The response, or 502 when the local application gave none. *)
ClientAnswer ==
    /\ busy # None /\ left = 0
    /\ toServer' = IF up THEN Append(toServer, busy) ELSE toServer
    /\ busy' = None
    /\ UNCHANGED <<calls, conn, server, up, toClient, taken, left, runs>>

(* The client or the network is gone.  What was on its way to the server may
   still be received or not. *)
StreamBreaks ==
    /\ up
    /\ up' = FALSE
    /\ UNCHANGED <<calls, conn, server, toClient, toServer, client>>

-----------------------------------------------------------------------------

(* Close is called by the handler's deferred function or, at any time, by
   Registry.Disconnect or the Unregister of another stream. *)
Next == \/ \E r \in Requests : EnqueueRequest(r)
        \/ CloseChan \/ NotifyPending
        \/ Take \/ SenderDone \/ Forward
        \/ SendAck \/ RecvResponse \/ Deliver \/ RecvError \/ CloseReturns
        \/ ClientTake \/ TryLocal \/ ClientAnswer \/ StreamBreaks

Spec == Init /\ [][Next]_vars

(* The goroutines of the server are scheduled: a call that can go on without a
   timer does, a Close that has begun goes on, the handler's own Close begins,
   and the receive loop goes on with what it has.  No timer is assumed to fire. *)
CallFairness(r) ==
    /\ WF_vars(Register(r) \/ SendPanics(r))
    /\ WF_vars(Receive(r))
    /\ WF_vars(Cleanup(r))

ConnFairness ==
    /\ WF_vars(NotifyPending)
    /\ WF_vars(handler = "close" /\ CloseChan)
    /\ WF_vars(SendAck \/ Deliver \/ RecvError)

ServerFairness == ConnFairness /\ \A r \in Requests : CallFairness(r)

(* Whoever calls EnqueueRequest gets past its check, and the context's
   deadline and the timer fire if nothing else happens.  FairSpec does without:
   what depends on the timers says so. *)
TimersOf(r) == WF_vars(Check(r)) /\ WF_vars(Abandon(r))

TimerFairness == \A r \in Requests : TimersOf(r)

FairSpec == Spec /\ ServerFairness

-----------------------------------------------------------------------------
(* Properties.                                                             *)

InFlight == {r \in Requests : pc[r] \in {"send", "wait", "cleanup"}}

TypeOK ==
    /\ pc \in [Requests -> {"new", "register", "send", "wait", "cleanup", "done"}]
    /\ result \in [Requests -> Requests \cup {None, Failed, Panicked}]
    /\ pending \subseteq Requests
    /\ respCh \in [Requests -> Requests \cup {Empty, Nil}]
    /\ sendCh \in Seq(Requests) /\ Len(sendCh) <= SendCap
    /\ closer \in {"open", "closing", "closed"}
    /\ sender \in {"none", "running", "stopped"}
    /\ inHand \in Requests \cup {None}
    /\ handler \in {"ack", "recv", "close", "returned"}
    /\ recvHand \in [call : Requests, response : Requests] \cup {None}
    /\ up \in BOOLEAN
    /\ toClient \in Seq(Requests) /\ toServer \in Seq(Requests)
    /\ taken \in [Requests -> Nat]
    /\ busy \in Requests \cup {None}
    /\ left \in 0 .. MaxAttempts
    /\ runs \in [Requests -> Nat]

(* c.pending does not leak: it holds calls that have not returned, whether they
   were answered, gave up, were closed or panicked. *)
PendingIsInFlight == pending \subseteq InFlight

(* A caller gets the response to its own request, however late other responses
   arrive and whatever gave up before. *)
OwnResponse == \A r \in Requests : result[r] \in Requests => result[r] = r

(* Once Close is over, every caller that waits has been woken, or its response
   is in the hands of the receive loop: a call that registered too late for
   Close to see it never gets to wait. *)
ClosedWakesWaiters ==
    closer = "closed" =>
        \A r \in Requests : pc[r] = "wait" => respCh[r] # Empty \/ (recvHand # None /\ recvHand.call = r)

(* While connection and stream are up, the response to a call that still waits
   is on its way to it: it was pending before its request could be answered. *)
AnswersNotLost ==
    closer = "open" /\ up =>
        \A r \in Requests \ {busy} : taken[r] > 0 /\ pc[r] = "wait" =>
            \/ r \in Range(toServer)
            \/ recvHand # None /\ recvHand.call = r
            \/ respCh[r] = r

(* What must not be repeated reaches the local application once at most, also
   when its caller has given up, the connection was closed with the request in
   the channel, or the attempt failed. *)
LocalRuns == \A r \in Requests : runs[r] <= IF r \in Idempotent THEN MaxAttempts ELSE 1

(* With the timers every call returns: by a response, by Close, by its deadline
   or by a panic. *)
EveryCallReturns == TimerFairness => \A r \in Requests : <>(pc[r] = "done")

(* Close lets every waiting caller return, without the help of any timer. *)
CloseReleasesWaiters ==
    \A r \in Requests : (closer # "open" /\ pc[r] = "wait") ~> (pc[r] = "done")

(* How far a call is, for its caller. *)
Progress(r) == CASE pc[r] = "new" -> "none"
                 [] pc[r] \in {"register", "send", "wait"} -> "waiting"
                 [] pc[r] \in {"cleanup", "done"} /\ result[r] \in Requests -> "answered"
                 [] pc[r] \in {"cleanup", "done"} /\ result[r] \notin Requests -> "failed"

(* What the caller is promised. *)
Promise == INSTANCE RequestReply WITH
    call <- [r \in Requests |-> Progress(r)],
    ran <- taken

(* The safety of the promise is kept in any case, its liveness by the timers. *)
ImplementsPromise == Promise!Spec /\ (TimerFairness => Promise!EveryCallEnds)

(* "Close ... unblocks pending requests": no call ends in a panic. *)
NoPanic == \A r \in Requests : result[r] # Panicked
=============================================================================
