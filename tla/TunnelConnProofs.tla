-------------------------- MODULE TunnelConnProofs --------------------------
(***************************************************************************)
(* Theorems about TunnelConn, for any number of calls and any capacity of  *)
(* the send channel.                                                       *)
(***************************************************************************)
EXTENDS TunnelConn, TLAPS

-----------------------------------------------------------------------------
(* Sequences as first-in first-out buffers.                                *)

LEMMA RangeOfAppend ==
  ASSUME NEW S, NEW q \in Seq(S), NEW e \in S
  PROVE  Append(q, e) \in Seq(S) /\ Range(Append(q, e)) = Range(q) \cup {e}
  <1>1. /\ Append(q, e) \in Seq(S)
        /\ DOMAIN Append(q, e) = 1 .. Len(q) + 1
        /\ DOMAIN q = 1 .. Len(q)
        /\ Len(q) \in Nat
    OBVIOUS
  <1>2. /\ \A i \in 1 .. Len(q) : Append(q, e)[i] = q[i]
        /\ Append(q, e)[Len(q) + 1] = e
    OBVIOUS
  <1>3. 1 .. Len(q) + 1 = (1 .. Len(q)) \cup {Len(q) + 1}
    BY <1>1
  <1>4. Range(Append(q, e)) \subseteq Range(q) \cup {e}
    BY <1>1, <1>2, <1>3 DEF Range
  <1>5. Range(q) \cup {e} \subseteq Range(Append(q, e))
    <2>1. Range(q) \subseteq Range(Append(q, e))
      BY <1>1, <1>2, <1>3 DEF Range
    <2>2. e \in Range(Append(q, e))
      BY <1>1, <1>2, <1>3 DEF Range
    <2>3. QED
      BY <2>1, <2>2
  <1>6. QED
    BY <1>1, <1>4, <1>5

LEMMA RangeOfTail ==
  ASSUME NEW S, NEW q \in Seq(S), q # <<>>
  PROVE  /\ Head(q) \in S /\ Tail(q) \in Seq(S)
         /\ Range(q) = {Head(q)} \cup Range(Tail(q))
         /\ Len(Tail(q)) = Len(q) - 1
  <1>1. Head(q) \in S /\ Tail(q) \in Seq(S) /\ Len(Tail(q)) = Len(q) - 1
    OBVIOUS
  <1>2. \A i \in 1 .. Len(Tail(q)) : Tail(q)[i] = q[i + 1]
    OBVIOUS
  <1>3. Range(q) \subseteq {Head(q)} \cup Range(Tail(q))
    <2> SUFFICES ASSUME NEW i \in 1 .. Len(q), q[i] # Head(q) PROVE q[i] \in Range(Tail(q))
      <3>1. DOMAIN q = 1 .. Len(q)
        OBVIOUS
      <3>2. QED
        BY <3>1 DEF Range
    <2>1. i - 1 \in 1 .. Len(Tail(q)) /\ q[i] = Tail(q)[i - 1]
      BY <1>1, <1>2
    <2>2. i - 1 \in DOMAIN Tail(q)
      BY <1>1, <2>1
    <2>3. QED
      BY <2>1, <2>2 DEF Range
  <1>4. {Head(q)} \cup Range(Tail(q)) \subseteq Range(q)
    <2>1. Head(q) = q[1] /\ 1 \in 1 .. Len(q)
      OBVIOUS
    <2>2. \A i \in 1 .. Len(Tail(q)) : i + 1 \in 1 .. Len(q)
      BY <1>1
    <2>3. QED
      BY <1>2, <2>1, <2>2 DEF Range
  <1>5. QED
    BY <1>1, <1>3, <1>4

-----------------------------------------------------------------------------
(* Types.                                                                  *)

LEMMA CountOne ==
  ASSUME NEW S, NEW f \in [S -> Nat], NEW k \in S
  PROVE  [f EXCEPT ![k] = f[k] + 1] \in [S -> Nat]
  OBVIOUS

LEMMA InitTypes == Init => TypeOK
  BY ConstantsAssumption DEF Init, TypeOK

LEMMA NextTypes == TypeOK /\ [Next]_vars => TypeOK'
  <1> USE ConstantsAssumption DEF TypeOK, calls, conn, server, wire, client, Goto, Leave
  <1> SUFFICES ASSUME TypeOK, [Next]_vars PROVE TypeOK'
    OBVIOUS
  <1>1. ASSUME NEW r \in Requests, EnqueueRequest(r) PROVE TypeOK'
    <2>1. CASE Check(r)
      BY <2>1 DEF Check
    <2>2. CASE Register(r)
      BY <2>2 DEF Register
    <2>3. CASE Send(r)
      <3>1. sendCh' \in Seq(Requests) /\ Len(sendCh') <= SendCap
        BY <2>3 DEF Send
      <3>2. QED
        BY <2>3, <3>1 DEF Send
    <2>4. CASE SendPanics(r) \/ Abandon(r) \/ Cleanup(r)
      BY <2>4 DEF SendPanics, Abandon, Cleanup
    <2>5. CASE Receive(r)
      BY <2>5 DEF Receive
    <2>6. QED
      BY <1>1, <2>1, <2>2, <2>3, <2>4, <2>5 DEF EnqueueRequest
  <1>2. CASE CloseChan \/ NotifyPending
    BY <1>2 DEF CloseChan, NotifyPending
  <1>3. CASE Take
    <2>1. Head(sendCh) \in Requests /\ Tail(sendCh) \in Seq(Requests) /\ Len(Tail(sendCh)) <= SendCap
      BY <1>3, RangeOfTail DEF Take
    <2>2. QED
      BY <1>3, <2>1 DEF Take
  <1>4. CASE SenderDone
    BY <1>4 DEF SenderDone
  <1>5. CASE Forward
    <2>1. Append(toClient, inHand) \in Seq(Requests)
      BY <1>5 DEF Forward
    <2>2. QED
      BY <1>5, <2>1 DEF Forward
  <1>6. CASE SendAck \/ RecvError \/ CloseReturns \/ StreamBreaks
    BY <1>6 DEF SendAck, RecvError, CloseReturns, StreamBreaks
  <1>7. CASE RecvResponse
    <2>1. Head(toServer) \in Requests /\ Tail(toServer) \in Seq(Requests)
      BY <1>7, RangeOfTail DEF RecvResponse
    <2>2. pending' \subseteq Requests /\ recvHand' \in [call : Requests, response : Requests] \cup {None}
      BY <1>7, <2>1 DEF RecvResponse, PendingFor
    <2>3. toServer' \in Seq(Requests) /\ UNCHANGED <<calls, respCh, sendCh, closer, sender, inHand,
                                                   handler, up, toClient, client>>
      BY <1>7, <2>1 DEF RecvResponse
    <2>4. QED
      BY <2>2, <2>3
  <1>8. CASE Deliver
    BY <1>8 DEF Deliver
  <1>9. CASE ClientTake
    <2>1. Head(toClient) \in Requests /\ Tail(toClient) \in Seq(Requests)
      BY <1>9, RangeOfTail DEF ClientTake
    <2>2. /\ toClient' = Tail(toClient) /\ busy' = Head(toClient) /\ left' = MaxAttempts
          /\ UNCHANGED <<calls, conn, server, up, toServer, runs>>
      BY <1>9 DEF ClientTake
    <2>3. taken' = [taken EXCEPT ![Head(toClient)] = taken[Head(toClient)] + 1]
      BY <1>9 DEF ClientTake
    <2>4. taken' \in [Requests -> Nat]
      BY <2>1, <2>3, CountOne
    <2>5. toClient' \in Seq(Requests) /\ busy' \in Requests \cup {None} /\ left' \in 0 .. MaxAttempts
      BY <2>1, <2>2
    <2>6. /\ UNCHANGED <<pc, result, pending, respCh, sendCh, closer, sender, inHand, handler>>
          /\ UNCHANGED <<recvHand, up, toServer, runs>>
      BY <2>2
    <2>7. QED
      BY <2>4, <2>5, <2>6
  <1>10. CASE ClientAnswer
    <2>1. Append(toServer, busy) \in Seq(Requests)
      BY <1>10 DEF ClientAnswer
    <2>2. QED
      BY <1>10, <2>1 DEF ClientAnswer
  <1>11. CASE TryLocal
    BY <1>11 DEF TryLocal, Retried
  <1>12. CASE UNCHANGED vars
    BY <1>12 DEF vars
  <1>13. QED
    BY <1>1, <1>2, <1>3, <1>4, <1>5, <1>6, <1>7, <1>8, <1>9, <1>10, <1>11, <1>12 DEF Next

(* Every variable keeps its type, and the send channel never holds more than
   its capacity. *)
THEOREM TypeCorrect == Spec => []TypeOK
  BY InitTypes, NextTypes, PTL DEF Spec

-----------------------------------------------------------------------------
(* The entries of c.pending.                                                *)

(* A call that is about to send its request is pending, and only calls that
   have not returned are. *)
PendingInv == /\ PendingIsInFlight
              /\ \A r \in Requests : pc[r] = "send" => r \in pending

(* Requests that have left EnqueueRequest's send, and responses. *)
Sent == Range(sendCh) \cup Range(toClient) \cup Range(toServer)
          \cup {r \in Requests : taken[r] > 0} \cup ({inHand, busy} \ {None})

SentInv == \A r \in Sent : pc[r] \in {"wait", "cleanup", "done"}

(* A request gets on a channel, the stream or to the client by the send of its
   own call. *)
LEMMA SentGrows == TypeOK /\ [Next]_vars => Sent' \subseteq Sent \cup {r \in Requests : pc'[r] = "wait"}
  <1> USE ConstantsAssumption DEF calls, conn, server, wire, client
  <1> SUFFICES ASSUME TypeOK, [Next]_vars
               PROVE  Sent' \subseteq Sent \cup {r \in Requests : pc'[r] = "wait"}
    OBVIOUS
  <1>1. ASSUME NEW r \in Requests, EnqueueRequest(r)
        PROVE  Sent' \subseteq Sent \cup {k \in Requests : pc'[k] = "wait"}
    <2>1. CASE Send(r)
      <3>1. Range(sendCh') = Range(sendCh) \cup {r} /\ pc'[r] = "wait"
        BY <2>1, RangeOfAppend DEF Send, Goto, TypeOK
      <3>2. QED
        BY <2>1, <3>1 DEF Send, Sent
    <2>2. CASE ~Send(r)
      BY <1>1, <2>2 DEF EnqueueRequest, Check, Register, SendPanics, Receive, Abandon,
                        Cleanup, Sent
    <2>3. QED
      BY <2>1, <2>2
  <1>2. CASE CloseChan \/ NotifyPending \/ SenderDone \/ SendAck \/ RecvError \/ CloseReturns
             \/ Deliver \/ TryLocal \/ StreamBreaks \/ UNCHANGED vars
    BY <1>2 DEF CloseChan, NotifyPending, SenderDone, SendAck, RecvError, CloseReturns,
                Deliver, TryLocal, StreamBreaks, vars, Sent
  <1>3. CASE Take
    <2>1. Range(sendCh) = {Head(sendCh)} \cup Range(Tail(sendCh))
      BY <1>3, RangeOfTail DEF Take, TypeOK
    <2>2. QED
      BY <1>3, <2>1 DEF Take, Sent
  <1>4. CASE Forward
    <2>1. inHand # None /\ inHand \in Requests /\ toClient \in Seq(Requests)
      BY <1>4 DEF Forward, TypeOK
    <2>2. toClient' \in {toClient, Append(toClient, inHand)}
      BY <1>4 DEF Forward
    <2>3. Range(toClient') \subseteq Range(toClient) \cup {inHand}
      BY <2>1, <2>2, RangeOfAppend
    <2>4. QED
      BY <1>4, <2>1, <2>3 DEF Forward, Sent
  <1>5. CASE RecvResponse
    <2>1. Range(toServer') \subseteq Range(toServer)
      BY <1>5, RangeOfTail DEF RecvResponse, TypeOK
    <2>2. QED
      BY <1>5, <2>1 DEF RecvResponse, Sent
  <1>6. CASE ClientTake
    <2>1. Range(toClient) = {Head(toClient)} \cup Range(Tail(toClient))
      BY <1>6, RangeOfTail DEF ClientTake, TypeOK
    <2>2. QED
      BY <1>6, <2>1 DEF ClientTake, Sent
  <1>7. CASE ClientAnswer
    <2>1. Range(toServer') \subseteq Range(toServer) \cup {busy} /\ busy # None
      BY <1>7, RangeOfAppend DEF ClientAnswer, TypeOK
    <2>2. QED
      BY <1>7, <2>1 DEF ClientAnswer, Sent
  <1>8. QED
    BY <1>1, <1>2, <1>3, <1>4, <1>5, <1>6, <1>7 DEF Next

LEMMA NextSent == TypeOK /\ SentInv /\ [Next]_vars => SentInv'
  <1> SUFFICES ASSUME TypeOK, SentInv, [Next]_vars PROVE SentInv'
    OBVIOUS
  <1>1. \A r \in Sent : pc'[r] \in {"wait", "cleanup", "done"}
    <2>1. ASSUME NEW k \in Sent, NEW r \in Requests, EnqueueRequest(r)
          PROVE  pc'[k] \in {"wait", "cleanup", "done"}
      <3>1. k \in Requests
        BY DEF Sent, TypeOK, Range
      <3>2. pc[k] \in {"wait", "cleanup", "done"}
        BY DEF SentInv
      <3>3. CASE r # k
        BY <2>1, <3>1, <3>2, <3>3 DEF EnqueueRequest, Check, Register, Send, SendPanics,
                                      Receive, Abandon, Cleanup, Goto, Leave, TypeOK
      <3>4. CASE r = k
        BY <2>1, <3>1, <3>2, <3>4 DEF EnqueueRequest, Check, Register, Send, SendPanics,
                                      Receive, Abandon, Cleanup, Goto, Leave, TypeOK
      <3>5. QED
        BY <3>3, <3>4
    <2>2. CASE UNCHANGED pc
      BY <2>2 DEF SentInv
    <2>3. QED
      BY <2>1, <2>2 DEF Next, CloseChan, NotifyPending, Take, SenderDone, Forward, SendAck,
                        RecvResponse, Deliver, RecvError, CloseReturns, ClientTake, TryLocal,
                        ClientAnswer, StreamBreaks, vars, calls
  <1>2. QED
    BY <1>1, SentGrows DEF SentInv

LEMMA NextPending == TypeOK /\ SentInv /\ PendingInv /\ [Next]_vars => PendingInv'
  <1> USE DEF calls, conn, server, wire, client, Goto, Leave, PendingInv, PendingIsInFlight, InFlight, TypeOK
  <1> SUFFICES ASSUME TypeOK, SentInv, PendingInv, [Next]_vars PROVE PendingInv'
    OBVIOUS
  <1>1. ASSUME NEW r \in Requests, EnqueueRequest(r) PROVE PendingInv'
    BY <1>1 DEF EnqueueRequest, Check, Register, Send, SendPanics, Receive, Abandon, Cleanup
  <1>2. CASE RecvResponse
    <2>1. Head(toServer) \in Sent
      BY <1>2, RangeOfTail DEF RecvResponse, Sent
    <2>2. pc[Head(toServer)] # "send"
      BY <2>1 DEF SentInv
    <2>3. /\ pending' \subseteq pending
          /\ \A r \in pending : r # Head(toServer) => r \in pending'
          /\ UNCHANGED pc
      BY <1>2 DEF RecvResponse
    <2>4. QED
      BY <2>2, <2>3
  <1>3. ASSUME UNCHANGED <<pc, pending>> PROVE PendingInv'
    BY <1>3
  <1>4. CASE CloseChan \/ NotifyPending \/ Take \/ SenderDone \/ Forward \/ SendAck \/ Deliver
             \/ RecvError \/ CloseReturns \/ ClientTake \/ TryLocal \/ ClientAnswer \/ StreamBreaks
             \/ UNCHANGED vars
    BY <1>3, <1>4 DEF CloseChan, NotifyPending, Take, SenderDone, Forward, SendAck, Deliver,
                RecvError, CloseReturns, ClientTake, TryLocal, ClientAnswer, StreamBreaks, vars
  <1>5. QED
    BY <1>1, <1>2, <1>4 DEF Next

LEMMA PendingAlways == Spec => [](TypeOK /\ SentInv /\ PendingInv)
  <1>1. Init => SentInv /\ PendingInv
    BY ConstantsAssumption DEF Init, SentInv, Sent, PendingInv, PendingIsInFlight, InFlight, Range
  <1>2. QED
    BY <1>1, InitTypes, NextTypes, NextSent, NextPending, PTL DEF Spec

(* c.pending holds no call that has returned: it does not leak. *)
THEOREM PendingDoesNotLeak == Spec => []PendingIsInFlight
  <1>1. PendingInv => PendingIsInFlight
    BY DEF PendingInv
  <1>2. QED
    BY <1>1, PendingAlways, PTL

-----------------------------------------------------------------------------
(* Late calls.                                                             *)

(* The call has not begun, or was refused, and its request is nowhere. *)
Refused(r) == /\ pc[r] = "new" \/ (pc[r] = "done" /\ result[r] = Failed)
              /\ r \notin Sent

Undecided == \A r \in Requests : pc[r] = "new" => result[r] = None

LEMMA NextUndecided == TypeOK /\ Undecided /\ [Next]_vars => Undecided'
  <1> SUFFICES ASSUME TypeOK, Undecided, [Next]_vars PROVE Undecided'
    OBVIOUS
  <1>1. ASSUME NEW r \in Requests, EnqueueRequest(r) PROVE Undecided'
    BY <1>1 DEF Undecided, TypeOK, Goto, Leave, EnqueueRequest, Check, Register, Send, SendPanics,
                Receive, Abandon, Cleanup
  <1>2. CASE UNCHANGED calls
    BY <1>2 DEF Undecided, calls
  <1>3. QED
    BY <1>1, <1>2 DEF Next, CloseChan, NotifyPending, Take, SenderDone, Forward, SendAck,
                      RecvResponse, Deliver, RecvError, CloseReturns, ClientTake, TryLocal,
                      ClientAnswer, StreamBreaks, vars

LEMMA NextRefused ==
  ASSUME TypeOK, [Next]_vars, NEW r \in Requests, closer # "open", Refused(r)
  PROVE  closer' # "open" /\ Refused(r)'
  <1>1. /\ closer' # "open"
        /\ pc'[r] = "new" \/ (pc'[r] = "done" /\ result'[r] = Failed)
    <2>1. ASSUME NEW k \in Requests, EnqueueRequest(k)
          PROVE  /\ UNCHANGED closer
                 /\ pc'[r] = "new" \/ (pc'[r] = "done" /\ result'[r] = Failed)
      BY <2>1 DEF Refused, TypeOK, Goto, Leave, EnqueueRequest, Check, Register, Send, SendPanics,
                  Receive, Abandon, Cleanup, conn
    <2>2. CASE UNCHANGED calls /\ closer' # "open"
      BY <2>2 DEF Refused, calls
    <2>3. QED
      BY <2>1, <2>2 DEF Next, CloseChan, NotifyPending, Take, SenderDone, Forward, SendAck,
                        RecvResponse, Deliver, RecvError, CloseReturns, ClientTake, TryLocal,
                        ClientAnswer, StreamBreaks, vars, conn
  <1>2. r \notin Sent'
    BY <1>1, SentGrows DEF Refused
  <1>3. QED
    BY <1>1, <1>2 DEF Refused

(* A call whose check comes after Close has begun is refused: it panics on no
   closed channel, gets nobody's response, and its request is never given to the
   client (the head of EnqueueRequest).  What panics has passed its check before. *)
THEOREM LateCallsAreRefused ==
  ASSUME NEW r \in Requests
  PROVE  Spec => [](closer # "open" /\ pc[r] = "new"
                      => [](result[r] \in {None, Failed} /\ taken[r] = 0))
  <1> DEFINE Begins == closer # "open" /\ pc[r] = "new"
             Late == closer # "open" /\ Refused(r)
             Nothing == result[r] \in {None, Failed} /\ taken[r] = 0
  <1>1. Init => Undecided
    BY DEF Init, Undecided
  <1>2. SentInv /\ Begins => Late
    BY DEF SentInv, Refused
  <1>3. TypeOK /\ Late /\ [Next]_vars => Late'
    BY NextRefused
  <1>4. TypeOK /\ Undecided /\ Late => Nothing
    BY DEF Undecided, Refused, Sent, TypeOK
  <1> HIDE DEF Begins, Late, Nothing
  <1>5. Spec => [](Begins => []Nothing)
    BY <1>1, <1>2, <1>3, <1>4, NextUndecided, PendingAlways, PTL DEF Spec
  <1>6. QED
    BY <1>5 DEF Begins, Nothing

-----------------------------------------------------------------------------
(* Who is woken, and by what.                                              *)

(* A channel holds only its own response, and the receive loop carries a
   response to the call it is for. *)
ChannelInv == /\ \A r \in Requests : respCh[r] \in Requests => respCh[r] = r
              /\ recvHand # None => recvHand.call = recvHand.response
              /\ closer # "closed" => \A r \in Requests : respCh[r] # Nil

(* A waiting call can be found by the receive loop and by Close, or has been
   found already. *)
WaiterInv == \A r \in Requests : pc[r] = "wait" =>
                \/ respCh[r] # Empty
                \/ recvHand # None /\ recvHand.call = r
                \/ closer # "closed" /\ r \in pending

LEMMA NextChannel == TypeOK /\ ChannelInv /\ OwnResponse /\ [Next]_vars => ChannelInv' /\ OwnResponse'
  <1> USE ConstantsAssumption DEF calls, conn, server, wire, client, Goto, Leave, ChannelInv, OwnResponse, TypeOK
  <1> SUFFICES ASSUME TypeOK, ChannelInv, OwnResponse, [Next]_vars PROVE ChannelInv' /\ OwnResponse'
    OBVIOUS
  <1>1. ASSUME NEW r \in Requests, EnqueueRequest(r) PROVE ChannelInv' /\ OwnResponse'
    <2>1. CASE Receive(r)
      BY <2>1 DEF Receive
    <2>2. CASE ~Receive(r)
      BY <1>1, <2>2 DEF EnqueueRequest, Check, Register, Send, SendPanics, Abandon, Cleanup
    <2>3. QED
      BY <2>1, <2>2
  <1>2. CASE CloseChan \/ NotifyPending
    BY <1>2 DEF CloseChan, NotifyPending
  <1>3. CASE RecvResponse
    BY <1>3 DEF RecvResponse, PendingFor
  <1>4. CASE Deliver
    BY <1>4 DEF Deliver
  <1>5. ASSUME UNCHANGED <<result, respCh, recvHand, closer>> PROVE ChannelInv' /\ OwnResponse'
    BY <1>5
  <1>6. CASE Take \/ SenderDone \/ Forward \/ SendAck \/ RecvError \/ CloseReturns
             \/ ClientTake \/ TryLocal \/ ClientAnswer \/ StreamBreaks \/ UNCHANGED vars
    BY <1>5, <1>6 DEF Take, SenderDone, Forward, SendAck, RecvError, CloseReturns,
                      ClientTake, TryLocal, ClientAnswer, StreamBreaks, vars
  <1>7. QED
    BY <1>1, <1>2, <1>3, <1>4, <1>6 DEF Next

LEMMA NextWaiter ==
  TypeOK /\ PendingInv /\ ChannelInv /\ WaiterInv /\ [Next]_vars => WaiterInv'
  <1> USE ConstantsAssumption DEF calls, conn, server, wire, client, Goto, Leave, WaiterInv, TypeOK
  <1> SUFFICES ASSUME TypeOK, PendingInv, ChannelInv, WaiterInv, [Next]_vars PROVE WaiterInv'
    OBVIOUS
  <1>1. ASSUME NEW r \in Requests, EnqueueRequest(r) PROVE WaiterInv'
    <2>1. CASE Send(r)
      BY <2>1 DEF Send, PendingInv
    <2>2. CASE ~Send(r)
      BY <1>1, <2>2 DEF EnqueueRequest, Check, Register, SendPanics, Receive, Abandon, Cleanup
    <2>3. QED
      BY <2>1, <2>2
  <1>2. CASE CloseChan \/ NotifyPending
    BY <1>2 DEF CloseChan, NotifyPending
  <1>3. CASE RecvResponse
    <2>1. CASE UNCHANGED <<pending, recvHand>>
      BY <1>3, <2>1 DEF RecvResponse
    <2>2. CASE ~UNCHANGED <<pending, recvHand>>
      <3>1. PICK r \in pending :
              /\ pending' = pending \ {r}
              /\ recvHand' = [call |-> r, response |-> r]
        BY <1>3, <2>2 DEF RecvResponse, PendingFor
      <3>2. recvHand' # None /\ recvHand'.call = r
        <4>1. r \in Requests /\ recvHand' \in [call : Requests, response : Requests]
          BY <3>1
        <4>2. QED
          BY <3>1, <4>1
      <3>3. recvHand = None /\ UNCHANGED <<pc, respCh, closer>>
        BY <1>3 DEF RecvResponse
      <3>4. QED
        BY <3>1, <3>2, <3>3
    <2>3. QED
      BY <2>1, <2>2
  <1>4. CASE Deliver
    BY <1>4 DEF Deliver, ChannelInv
  <1>5. ASSUME UNCHANGED <<pc, pending, respCh, recvHand, closer>> PROVE WaiterInv'
    BY <1>5
  <1>6. CASE Take \/ SenderDone \/ Forward \/ SendAck \/ RecvError \/ CloseReturns
             \/ ClientTake \/ TryLocal \/ ClientAnswer \/ StreamBreaks \/ UNCHANGED vars
    BY <1>5, <1>6 DEF Take, SenderDone, Forward, SendAck, RecvError, CloseReturns,
                      ClientTake, TryLocal, ClientAnswer, StreamBreaks, vars
  <1>7. QED
    BY <1>1, <1>2, <1>3, <1>4, <1>6 DEF Next

LEMMA WakingAlways == Spec => [](ChannelInv /\ OwnResponse /\ WaiterInv)
  <1>1. Init => ChannelInv /\ OwnResponse /\ WaiterInv
    BY ConstantsAssumption DEF Init, ChannelInv, OwnResponse, WaiterInv
  <1>2. QED
    BY <1>1, PendingAlways, NextChannel, NextWaiter, PTL DEF Spec

(* A caller gets the response to its own request or none. *)
THEOREM CallersGetTheirOwn == Spec => []OwnResponse
  BY WakingAlways, PTL

(* When Close is over, no caller is left waiting for a wake-up that will not
   come. *)
THEOREM CloseWakesEveryWaiter == Spec => []ClosedWakesWaiters
  <1>1. WaiterInv => ClosedWakesWaiters
    BY DEF WaiterInv, ClosedWakesWaiters
  <1>2. QED
    BY <1>1, WakingAlways, PTL

(* While a request is under way, its answer is. *)
LEMMA NextAnswers ==
  TypeOK /\ SentInv /\ ChannelInv /\ WaiterInv /\ AnswersNotLost /\ [Next]_vars => AnswersNotLost'
  <1> USE ConstantsAssumption DEF calls, conn, server, wire, client, Goto, Leave
  <1> SUFFICES ASSUME TypeOK, SentInv, ChannelInv, WaiterInv, AnswersNotLost, [Next]_vars,
                      closer' = "open", up', NEW r \in Requests, r # busy', taken'[r] > 0, pc'[r] = "wait"
               PROVE  \/ r \in Range(toServer')
                      \/ recvHand' # None /\ recvHand'.call = r
                      \/ respCh'[r] = r
    BY DEF AnswersNotLost
  <1>1. ASSUME NEW k \in Requests, EnqueueRequest(k)
        PROVE  r \in Range(toServer') \/ (recvHand' # None /\ recvHand'.call = r) \/ respCh'[r] = r
    <2>1. UNCHANGED <<closer, up, busy, taken, toServer, recvHand>>
      BY <1>1 DEF EnqueueRequest, Check, Register, Send, SendPanics, Receive, Abandon, Cleanup
    <2>2. CASE pc[r] = "wait"
      <3>1. respCh'[r] = respCh[r]
        BY <1>1, <2>2 DEF EnqueueRequest, Check, Register, Send, SendPanics, Receive, Abandon,
                          Cleanup, TypeOK
      <3>2. QED
        BY <2>1, <2>2, <3>1 DEF AnswersNotLost
    <2>3. CASE pc[r] # "wait"
      <3>1. pc[r] = "send"
        BY <1>1, <2>3 DEF EnqueueRequest, Check, Register, Send, SendPanics, Receive, Abandon,
                          Cleanup, TypeOK
      <3>2. r \in Sent
        BY <2>1 DEF Sent
      <3>3. QED
        BY <3>1, <3>2 DEF SentInv
    <2>4. QED
      BY <2>2, <2>3
  <1>2. ASSUME UNCHANGED <<pc, closer, up, busy, taken>>, Range(toServer') = Range(toServer),
               UNCHANGED <<recvHand, respCh>>
        PROVE  r \in Range(toServer') \/ (recvHand' # None /\ recvHand'.call = r) \/ respCh'[r] = r
    BY <1>2 DEF AnswersNotLost
  <1>3. CASE Take \/ SenderDone \/ Forward \/ SendAck \/ RecvError \/ CloseReturns \/ TryLocal
             \/ UNCHANGED vars
    BY <1>2, <1>3 DEF Take, SenderDone, Forward, SendAck, RecvError, CloseReturns, TryLocal, vars
  <1>4. CASE CloseChan \/ NotifyPending \/ StreamBreaks
    BY <1>4 DEF CloseChan, NotifyPending, StreamBreaks
  <1>5. CASE RecvResponse
    <2>1. CASE r \in Range(Tail(toServer))
      BY <1>5, <2>1 DEF RecvResponse
    <2>2. CASE r \notin Range(Tail(toServer))
      <3>1. UNCHANGED <<pc, respCh, closer, up, busy, taken>> /\ recvHand = None
        BY <1>5 DEF RecvResponse
      <3>2. r = Head(toServer) \/ respCh[r] = r
        BY <1>5, <2>2, <3>1, RangeOfTail DEF RecvResponse, AnswersNotLost, TypeOK
      <3>3. CASE respCh[r] = r
        BY <3>1, <3>3
      <3>4. CASE r = Head(toServer) /\ respCh[r] # r
        <4>1. respCh[r] = Empty
          BY <3>1, <3>4 DEF ChannelInv, TypeOK
        <4>2. r \in pending
          BY <3>1, <4>1 DEF WaiterInv
        <4>3. recvHand' = [call |-> r, response |-> r]
          BY <1>5, <3>4, <4>2 DEF RecvResponse, PendingFor
        <4>4. recvHand' \in [call : Requests, response : Requests]
          BY <4>3
        <4>5. QED
          BY <4>3, <4>4
      <3>5. QED
        BY <3>2, <3>3, <3>4
    <2>3. QED
      BY <2>1, <2>2
  <1>6. CASE Deliver
    <2>1. UNCHANGED <<pc, closer, up, busy, taken, toServer>>
      BY <1>6 DEF Deliver
    <2>2. CASE recvHand.call = r
      BY <1>6, <2>1, <2>2 DEF Deliver, ChannelInv, TypeOK
    <2>3. CASE recvHand.call # r
      BY <1>6, <2>1, <2>3 DEF Deliver, AnswersNotLost, TypeOK
    <2>4. QED
      BY <2>2, <2>3
  <1>7. CASE ClientTake
    BY <1>7 DEF ClientTake, AnswersNotLost, TypeOK
  <1>8. CASE ClientAnswer
    <2>1. UNCHANGED <<pc, closer, up, taken, recvHand, respCh>> /\ busy \in Requests
      BY <1>8 DEF ClientAnswer, TypeOK
    <2>2. Range(toServer') = Range(toServer) \cup {busy}
      BY <1>8, <2>1, RangeOfAppend DEF ClientAnswer, TypeOK
    <2>3. QED
      BY <2>1, <2>2 DEF AnswersNotLost
  <1>9. QED
    BY <1>1, <1>3, <1>4, <1>5, <1>6, <1>7, <1>8 DEF Next

(* While connection and stream are up, no response is lost between the client
   and the call that waits for it. *)
THEOREM AnswersAreNotLost == Spec => []AnswersNotLost
  <1>1. Init => AnswersNotLost
    BY ConstantsAssumption DEF Init, AnswersNotLost
  <1>2. QED
    BY <1>1, PendingAlways, WakingAlways, NextAnswers, PTL DEF Spec

-----------------------------------------------------------------------------
(* How often a request reaches the local application.                      *)

Distinct(q) == \A i, j \in 1 .. Len(q) : q[i] = q[j] => i = j

LEMMA DistinctAppend ==
  ASSUME NEW S, NEW q \in Seq(S), NEW e \in S, Distinct(q), e \notin Range(q)
  PROVE  Distinct(Append(q, e))
  <1>1. Len(Append(q, e)) = Len(q) + 1 /\ Len(q) \in Nat /\ DOMAIN q = 1 .. Len(q)
    OBVIOUS
  <1>2. \A i \in 1 .. Len(q) : Append(q, e)[i] = q[i] /\ q[i] # e
    BY <1>1 DEF Range
  <1>3. Append(q, e)[Len(q) + 1] = e
    OBVIOUS
  <1>4. \A i \in 1 .. Len(q) + 1 : i \in 1 .. Len(q) \/ i = Len(q) + 1
    BY <1>1
  <1>5. QED
    BY <1>1, <1>2, <1>3, <1>4 DEF Distinct

LEMMA DistinctTail ==
  ASSUME NEW S, NEW q \in Seq(S), q # <<>>, Distinct(q)
  PROVE  Distinct(Tail(q)) /\ Head(q) \notin Range(Tail(q))
  <1>1. Len(Tail(q)) = Len(q) - 1 /\ Len(q) \in Nat /\ Head(q) = q[1] /\ Len(q) > 0
        /\ DOMAIN Tail(q) = 1 .. Len(Tail(q))
    OBVIOUS
  <1>2. \A i \in 1 .. Len(Tail(q)) : Tail(q)[i] = q[i + 1] /\ i + 1 \in 1 .. Len(q)
    BY <1>1
  <1>3. Distinct(Tail(q))
    <2> SUFFICES ASSUME NEW i \in 1 .. Len(Tail(q)), NEW j \in 1 .. Len(Tail(q)),
                        Tail(q)[i] = Tail(q)[j]
                 PROVE  i = j
      BY DEF Distinct
    <2>1. i + 1 = j + 1
      BY <1>2 DEF Distinct
    <2>2. QED
      BY <2>1
  <1>4. ASSUME NEW i \in 1 .. Len(Tail(q)), Tail(q)[i] = Head(q) PROVE FALSE
    <2>1. 1 = i + 1
      BY <1>1, <1>2, <1>4 DEF Distinct
    <2>2. QED
      BY <2>1
  <1>5. QED
    BY <1>1, <1>3, <1>4 DEF Range

(* A request is in one place, once, before the client is given it. *)
OnceInv == /\ Distinct(sendCh) /\ Distinct(toClient)
           /\ \A r \in Range(sendCh) : r # inHand /\ r \notin Range(toClient) /\ taken[r] = 0
           /\ inHand # None => inHand \notin Range(toClient) /\ taken[inHand] = 0
           /\ \A r \in Range(toClient) : taken[r] = 0

(* The attempts made are those the count of the ones left says. *)
RunsInv == \A r \in Requests :
             /\ taken[r] = 0 => runs[r] = 0 /\ busy # r
             /\ IF busy = r /\ left > 0
                THEN runs[r] = MaxAttempts - left /\ (r \notin Idempotent => left = MaxAttempts)
                ELSE runs[r] <= IF r \in Idempotent THEN MaxAttempts ELSE 1

LEMMA NextOnce == TypeOK /\ SentInv /\ OnceInv /\ [Next]_vars => OnceInv'
  <1> USE ConstantsAssumption DEF calls, conn, server, wire, client
  <1> SUFFICES ASSUME TypeOK, SentInv, OnceInv, [Next]_vars PROVE OnceInv'
    OBVIOUS
  <1>1. ASSUME UNCHANGED <<sendCh, toClient, inHand, taken>> PROVE OnceInv'
    BY <1>1 DEF OnceInv, Distinct
  <1>2. ASSUME NEW r \in Requests, EnqueueRequest(r) PROVE OnceInv'
    <2>1. CASE Send(r)
      <3>1. r \notin Sent
        BY <2>1 DEF Send, SentInv
      <3>2. /\ sendCh' = Append(sendCh, r) /\ Range(sendCh') = Range(sendCh) \cup {r}
            /\ UNCHANGED <<toClient, inHand, taken>>
        BY <2>1, RangeOfAppend DEF Send, TypeOK
      <3>3. Distinct(sendCh')
        BY <3>1, <3>2, DistinctAppend DEF OnceInv, Sent, TypeOK
      <3>4. r # inHand /\ r \notin Range(toClient) /\ taken[r] = 0
        BY <3>1 DEF Sent, TypeOK
      <3>5. QED
        BY <3>2, <3>3, <3>4 DEF OnceInv, Distinct
    <2>2. CASE ~Send(r)
      BY <1>1, <1>2, <2>2 DEF EnqueueRequest, Check, Register, SendPanics, Receive, Abandon, Cleanup
    <2>3. QED
      BY <2>1, <2>2
  <1>3. CASE Take
    <2>1. /\ sendCh' = Tail(sendCh) /\ inHand' = Head(sendCh) /\ inHand = None
          /\ UNCHANGED <<toClient, taken>>
      BY <1>3 DEF Take
    <2>2. Range(sendCh) = {Head(sendCh)} \cup Range(Tail(sendCh)) /\ Head(sendCh) \in Requests
      BY <1>3, RangeOfTail DEF Take, TypeOK
    <2>3. Distinct(Tail(sendCh)) /\ Head(sendCh) \notin Range(Tail(sendCh))
      BY <1>3, DistinctTail DEF Take, OnceInv, TypeOK
    <2>4. QED
      BY <2>1, <2>2, <2>3 DEF OnceInv, Distinct
  <1>4. CASE Forward
    <2>1. inHand \in Requests /\ inHand' = None /\ UNCHANGED <<sendCh, taken>>
      BY <1>4 DEF Forward, TypeOK
    <2>2. CASE UNCHANGED toClient
      BY <2>1, <2>2 DEF OnceInv, Distinct, TypeOK, Range
    <2>3. CASE toClient' = Append(toClient, inHand)
      <3>1. Range(toClient') = Range(toClient) \cup {inHand}
        BY <2>1, <2>3, RangeOfAppend DEF TypeOK
      <3>2. Distinct(toClient')
        BY <2>1, <2>3, DistinctAppend DEF OnceInv, TypeOK
      <3>3. Range(sendCh) \subseteq Requests
        BY DEF TypeOK, Range
      <3>4. QED
        BY <2>1, <3>1, <3>2, <3>3 DEF OnceInv, Distinct
    <2>4. QED
      BY <1>4, <2>2, <2>3 DEF Forward
  <1>5. CASE ClientTake
    <2>1. /\ toClient' = Tail(toClient) /\ UNCHANGED <<sendCh, inHand>>
          /\ taken' = [taken EXCEPT ![Head(toClient)] = @ + 1]
      BY <1>5 DEF ClientTake
    <2>2. Range(toClient) = {Head(toClient)} \cup Range(Tail(toClient)) /\ Head(toClient) \in Requests
      BY <1>5, RangeOfTail DEF ClientTake, TypeOK
    <2>3. Distinct(Tail(toClient)) /\ Head(toClient) \notin Range(Tail(toClient))
      BY <1>5, DistinctTail DEF ClientTake, OnceInv, TypeOK
    <2>4. \A r \in Requests : r # Head(toClient) => taken'[r] = taken[r]
      BY <2>1 DEF TypeOK
    <2>5. Range(sendCh) \subseteq Requests /\ Range(Tail(toClient)) \subseteq Requests
          /\ (inHand # None => inHand \in Requests)
      <3>1. sendCh \in Seq(Requests) /\ toClient \in Seq(Requests) /\ inHand \in Requests \cup {None}
        BY DEF TypeOK
      <3>2. Range(sendCh) \subseteq Requests /\ Range(toClient) \subseteq Requests
        BY <3>1 DEF Range
      <3>3. QED
        BY <2>2, <3>1, <3>2
    <2>6. Distinct(sendCh') /\ Distinct(toClient')
      BY <2>1, <2>3 DEF OnceInv, Distinct
    <2>7. \A r \in Range(toClient) : r # None /\ r # inHand /\ r \notin Range(sendCh)
      <3>1. None \notin Requests /\ Range(toClient) \subseteq Requests
        BY <2>2, <2>5
      <3>2. QED
        BY <3>1 DEF OnceInv
    <2>8. \A r \in Range(sendCh') : taken'[r] = 0
      BY <2>1, <2>2, <2>4, <2>5, <2>7 DEF OnceInv
    <2>9. \A r \in Range(toClient') : taken'[r] = 0
      BY <2>1, <2>2, <2>3, <2>4, <2>5 DEF OnceInv
    <2>10. inHand' # None => taken'[inHand'] = 0
      BY <2>1, <2>2, <2>4, <2>5, <2>7 DEF OnceInv
    <2>11. QED
      BY <2>1, <2>2, <2>6, <2>7, <2>8, <2>9, <2>10 DEF OnceInv
  <1>6. CASE CloseChan \/ NotifyPending \/ SenderDone \/ SendAck \/ RecvResponse \/ Deliver \/ RecvError
             \/ CloseReturns \/ TryLocal \/ ClientAnswer \/ StreamBreaks \/ UNCHANGED vars
    BY <1>1, <1>6 DEF CloseChan, NotifyPending, SenderDone, SendAck, RecvResponse, Deliver,
                      RecvError, CloseReturns, TryLocal, ClientAnswer, StreamBreaks, vars
  <1>7. QED
    BY <1>2, <1>3, <1>4, <1>5, <1>6 DEF Next

LEMMA NextRuns == TypeOK /\ OnceInv /\ RunsInv /\ [Next]_vars => RunsInv'
  <1> USE ConstantsAssumption DEF calls, conn, server, wire, client
  <1> SUFFICES ASSUME TypeOK, OnceInv, RunsInv, [Next]_vars PROVE RunsInv'
    OBVIOUS
  <1>1. ASSUME UNCHANGED client PROVE RunsInv'
    BY <1>1 DEF RunsInv
  <1>2. ASSUME NEW r \in Requests, EnqueueRequest(r) PROVE RunsInv'
    BY <1>1, <1>2 DEF EnqueueRequest, Check, Register, Send, SendPanics, Receive, Abandon, Cleanup
  <1>3. CASE ClientTake
    <2>1. Head(toClient) \in Requests /\ taken[Head(toClient)] = 0
      BY <1>3, RangeOfTail DEF ClientTake, OnceInv, TypeOK
    <2>2. /\ busy = None /\ busy' = Head(toClient) /\ left' = MaxAttempts /\ UNCHANGED runs
          /\ taken' = [taken EXCEPT ![Head(toClient)] = @ + 1]
      BY <1>3 DEF ClientTake
    <2>3. QED
      BY <2>1, <2>2 DEF RunsInv, TypeOK
  <1>4. CASE TryLocal
    <2>1. /\ busy \in Requests /\ left > 0 /\ UNCHANGED <<busy, taken>>
          /\ runs' = [runs EXCEPT ![busy] = @ + 1]
          /\ left' = 0 \/ (left > 1 /\ busy \in Idempotent /\ left' = left - 1)
      BY <1>4 DEF TryLocal, Retried, TypeOK
    <2>2. \A r \in Requests : runs'[r] = IF r = busy THEN runs[r] + 1 ELSE runs[r]
      BY <2>1 DEF TypeOK
    <2>3. QED
      BY <2>1, <2>2 DEF RunsInv, TypeOK
  <1>5. CASE ClientAnswer
    BY <1>5 DEF ClientAnswer, RunsInv, TypeOK
  <1>6. CASE CloseChan \/ NotifyPending \/ Take \/ SenderDone \/ Forward \/ SendAck \/ RecvResponse
             \/ Deliver \/ RecvError \/ CloseReturns \/ StreamBreaks \/ UNCHANGED vars
    BY <1>1, <1>6 DEF CloseChan, NotifyPending, Take, SenderDone, Forward, SendAck, RecvResponse,
                      Deliver, RecvError, CloseReturns, StreamBreaks, vars
  <1>7. QED
    BY <1>2, <1>3, <1>4, <1>5, <1>6 DEF Next

(* Whatever gives up, closes, breaks or fails, a request that must not be
   repeated reaches the local application once at most. *)
THEOREM LocalRunsBounded == Spec => []LocalRuns
  <1>1. Init => OnceInv /\ RunsInv
    BY ConstantsAssumption DEF Init, OnceInv, RunsInv, Distinct, Range
  <1>2. TypeOK /\ RunsInv => LocalRuns
    BY ConstantsAssumption DEF TypeOK, RunsInv, LocalRuns
  <1>3. QED
    BY <1>1, <1>2, PendingAlways, NextOnce, NextRuns, PTL DEF Spec

-----------------------------------------------------------------------------
(* The promise of RequestReply.                                            *)

(* The client is given a request once at most, and what is on its way back is
   the response to a request it was given. *)
AnswerInv ==
    \A r \in Requests :
        /\ taken[r] \in {0, 1}
        /\ \/ r = busy \/ r \in Range(toServer) \/ respCh[r] = r
           \/ recvHand # None /\ recvHand.response = r
           => taken[r] = 1

LEMMA NextAnswer ==
  TypeOK /\ OnceInv /\ ChannelInv /\ AnswerInv /\ [Next]_vars => AnswerInv'
  <1> USE ConstantsAssumption DEF calls, conn, server, wire, client, Goto, Leave
  <1> SUFFICES ASSUME TypeOK, OnceInv, ChannelInv, AnswerInv, [Next]_vars PROVE AnswerInv'
    OBVIOUS
  <1>1. ASSUME UNCHANGED <<busy, toServer, respCh, recvHand, taken>> PROVE AnswerInv'
    BY <1>1 DEF AnswerInv
  <1>2. ASSUME NEW r \in Requests, EnqueueRequest(r) PROVE AnswerInv'
    <2>1. CASE Receive(r)
      BY <2>1 DEF Receive, AnswerInv, TypeOK
    <2>2. CASE ~Receive(r)
      BY <1>1, <1>2, <2>2 DEF EnqueueRequest, Check, Register, Send, SendPanics, Abandon, Cleanup
    <2>3. QED
      BY <2>1, <2>2
  <1>3. CASE NotifyPending
    BY <1>3 DEF NotifyPending, AnswerInv, TypeOK
  <1>4. CASE RecvResponse
    <2>1. Range(toServer) = {Head(toServer)} \cup Range(Tail(toServer)) /\ Head(toServer) \in Requests
      BY <1>4, RangeOfTail DEF RecvResponse, TypeOK
    <2>2. /\ toServer' = Tail(toServer) /\ recvHand = None
          /\ UNCHANGED <<busy, respCh, taken>>
          /\ recvHand' # None => recvHand'.response = Head(toServer)
      BY <1>4 DEF RecvResponse
    <2>3. QED
      BY <2>1, <2>2 DEF AnswerInv
  <1>5. CASE Deliver
    BY <1>5 DEF Deliver, AnswerInv, ChannelInv, TypeOK
  <1>6. CASE ClientTake
    <2>1. Head(toClient) \in Requests /\ taken[Head(toClient)] = 0
      BY <1>6, RangeOfTail DEF ClientTake, OnceInv, TypeOK
    <2>2. /\ busy' = Head(toClient) /\ taken' = [taken EXCEPT ![Head(toClient)] = 1]
          /\ UNCHANGED <<toServer, respCh, recvHand>>
      BY <1>6, <2>1 DEF ClientTake
    <2>3. QED
      BY <2>1, <2>2 DEF AnswerInv, TypeOK
  <1>7. CASE ClientAnswer
    <2>1. busy \in Requests /\ busy' = None /\ UNCHANGED <<respCh, recvHand, taken>>
      BY <1>7 DEF ClientAnswer, TypeOK
    <2>2. Range(toServer') \subseteq Range(toServer) \cup {busy}
      BY <1>7, <2>1, RangeOfAppend DEF ClientAnswer, TypeOK
    <2>3. QED
      BY <2>1, <2>2 DEF AnswerInv
  <1>8. CASE CloseChan \/ Take \/ SenderDone \/ Forward \/ SendAck \/ RecvError \/ CloseReturns
             \/ TryLocal \/ StreamBreaks \/ UNCHANGED vars
    BY <1>1, <1>8 DEF CloseChan, Take, SenderDone, Forward, SendAck, RecvError, CloseReturns,
                      TryLocal, StreamBreaks, vars
  <1>9. QED
    BY <1>2, <1>3, <1>4, <1>5, <1>6, <1>7, <1>8 DEF Next

LEMMA NextPromise ==
  TypeOK /\ TypeOK' /\ SentInv /\ OnceInv /\ ChannelInv /\ AnswerInv /\ [Next]_vars
    => [Promise!Next]_(Promise!vars)
  <1> USE ConstantsAssumption DEF calls, conn, server, wire, client, Goto, Leave
  <1> SUFFICES ASSUME TypeOK, TypeOK', SentInv, OnceInv, ChannelInv, AnswerInv, [Next]_vars
               PROVE  Promise!Next \/ UNCHANGED Promise!vars
    OBVIOUS
  <1>1. ASSUME UNCHANGED <<pc, result, taken>> PROVE UNCHANGED Promise!vars
    BY <1>1 DEF Promise!vars, Progress
  <1>2. ASSUME NEW r \in Requests, EnqueueRequest(r) PROVE Promise!Next \/ UNCHANGED Promise!vars
    <2>1. /\ UNCHANGED taken
          /\ \A k \in Requests \ {r} : pc'[k] = pc[k] /\ result'[k] = result[k]
      <3>1. CASE Check(r) \/ Register(r) \/ Send(r) \/ Cleanup(r)
        BY <3>1 DEF Check, Register, Send, Cleanup, TypeOK
      <3>2. CASE SendPanics(r) \/ Abandon(r) \/ Receive(r)
        BY <3>2 DEF SendPanics, Abandon, Receive, TypeOK
      <3>3. QED
        BY <1>2, <3>1, <3>2 DEF EnqueueRequest
    <2>2. \A k \in Requests \ {r} : Progress(k)' = Progress(k)
      BY <2>1 DEF Progress
    <2>3. \/ Progress(r)' = Progress(r)
          \/ Progress(r) = "none" /\ Progress(r)' \in {"waiting", "failed"}
          \/ Progress(r) = "waiting" /\ Progress(r)' = "failed"
          \/ Progress(r) = "waiting" /\ Progress(r)' = "answered" /\ taken[r] = 1
      <3>1. CASE Check(r)
        <4>1. /\ pc[r] = "new"
              /\ pc'[r] = "register" \/ (pc'[r] = "done" /\ result'[r] = Failed)
          BY <3>1 DEF Check, TypeOK
        <4>2. Progress(r) = "none"
          BY <4>1 DEF Progress
        <4>3. CASE pc'[r] = "register"
          BY <4>2, <4>3 DEF Progress
        <4>4. CASE pc'[r] = "done" /\ result'[r] = Failed
          BY <4>2, <4>4 DEF Progress
        <4>5. QED
          BY <4>1, <4>3, <4>4
      <3>2. CASE Register(r) \/ Send(r) \/ Cleanup(r)
        BY <3>2 DEF Register, Send, Cleanup, Progress, TypeOK
      <3>3. CASE SendPanics(r) \/ Abandon(r)
        <4>1. /\ pc[r] \in {"send", "wait"} /\ pc'[r] = "cleanup"
              /\ result'[r] \in {Failed, Panicked}
          BY <3>3 DEF SendPanics, Abandon, TypeOK
        <4>2. Progress(r) = "waiting"
          BY <4>1 DEF Progress
        <4>3. Progress(r)' = "failed"
          BY <4>1 DEF Progress
        <4>4. QED
          BY <4>2, <4>3
      <3>4. CASE Receive(r)
        <4>1. respCh[r] = Nil \/ (respCh[r] = r /\ taken[r] = 1)
          BY <3>4 DEF Receive, ChannelInv, AnswerInv, TypeOK
        <4>2. /\ pc[r] = "wait" /\ pc'[r] = "cleanup"
              /\ result'[r] = IF respCh[r] = Nil THEN Failed ELSE respCh[r]
          BY <3>4 DEF Receive, TypeOK
        <4>3. Progress(r) = "waiting"
          BY <4>2 DEF Progress
        <4>4. CASE respCh[r] = Nil
          BY <4>2, <4>3, <4>4 DEF Progress
        <4>5. CASE respCh[r] = r /\ taken[r] = 1
          BY <4>2, <4>3, <4>5 DEF Progress
        <4>6. QED
          BY <4>1, <4>4, <4>5
      <3>5. QED
        BY <1>2, <3>1, <3>2, <3>3, <3>4 DEF EnqueueRequest
    <2>4. CASE Progress(r)' = Progress(r)
      <3>1. \A k \in Requests : Progress(k)' = Progress(k)
        BY <2>2, <2>4
      <3>2. QED
        BY <2>1, <3>1 DEF Promise!vars
    <2>5. ASSUME NEW c, Progress(r)' = c
          PROVE  [k \in Requests |-> Progress(k)'] = [[k \in Requests |-> Progress(k)] EXCEPT ![r] = c]
      BY <2>2, <2>5
    <2>6. CASE Progress(r) = "none" /\ Progress(r)' = "waiting"
      <3>1. Promise!Make(r)
        BY <2>1, <2>5, <2>6 DEF Promise!Make
      <3>2. QED
        BY <3>1 DEF Promise!Next
    <2>7. CASE Progress(r) = "none" /\ Progress(r)' = "failed"
      <3>1. Promise!Refuse(r)
        BY <2>1, <2>5, <2>7 DEF Promise!Refuse
      <3>2. QED
        BY <3>1 DEF Promise!Next
    <2>8. CASE Progress(r) = "waiting" /\ Progress(r)' = "failed"
      <3>1. Promise!Fail(r)
        BY <2>1, <2>5, <2>8 DEF Promise!Fail
      <3>2. QED
        BY <3>1 DEF Promise!Next
    <2>9. CASE Progress(r) = "waiting" /\ Progress(r)' = "answered" /\ taken[r] = 1
      <3>1. Promise!Answer(r)
        BY <2>1, <2>5, <2>9 DEF Promise!Answer
      <3>2. QED
        BY <3>1 DEF Promise!Next
    <2>10. QED
      BY <2>3, <2>4, <2>6, <2>7, <2>8, <2>9
  <1>3. CASE ClientTake
    <2>1. PICK r \in Requests : r = Head(toClient) /\ r \in Range(toClient)
      BY <1>3, RangeOfTail DEF ClientTake, TypeOK
    <2>2. taken[r] = 0 /\ pc[r] # "new"
      BY <2>1 DEF OnceInv, SentInv, Sent
    <2>3. taken' = [taken EXCEPT ![r] = 1] /\ UNCHANGED <<pc, result>>
      BY <1>3, <2>1, <2>2 DEF ClientTake
    <2>4. Progress(r) # "none" /\ \A k \in Requests : Progress(k)' = Progress(k)
      BY <2>2, <2>3 DEF Progress, TypeOK
    <2>5. Promise!Run(r)
      BY <2>2, <2>3, <2>4 DEF Promise!Run
    <2>6. QED
      BY <2>5 DEF Promise!Next
  <1>4. CASE CloseChan \/ NotifyPending \/ Take \/ SenderDone \/ Forward \/ SendAck \/ RecvResponse
             \/ Deliver \/ RecvError \/ CloseReturns \/ TryLocal \/ ClientAnswer \/ StreamBreaks
             \/ UNCHANGED vars
    BY <1>1, <1>4 DEF CloseChan, NotifyPending, Take, SenderDone, Forward, SendAck, RecvResponse,
                      Deliver, RecvError, CloseReturns, TryLocal, ClientAnswer, StreamBreaks, vars
  <1>5. QED
    BY <1>2, <1>3, <1>4 DEF Next

(* The connection keeps the safety of the promise: a call is answered or fails,
   once, and is answered only when the client was given the request, once. *)
THEOREM ConnectionKeepsPromise == Spec => Promise!Spec
  <1>1. Init => Promise!Init
    BY DEF Init, Promise!Init, Progress
  <1>2. Init => OnceInv /\ AnswerInv
    BY ConstantsAssumption DEF Init, OnceInv, AnswerInv, Distinct, Range
  <1>3. QED
    BY <1>1, <1>2, InitTypes, NextTypes, PendingAlways, WakingAlways, NextOnce, NextAnswer, NextPromise,
       PTL DEF Spec, Promise!Spec

-----------------------------------------------------------------------------
(* Liveness.                                                               *)

(* The receive loop has a response in hand only while it receives. *)
HandInv == recvHand # None => handler = "recv"

LEMMA HandAlways == Spec => []HandInv
  <1>1. Init => HandInv
    BY DEF Init, HandInv
  <1>2. HandInv /\ [Next]_vars => HandInv'
    <2> SUFFICES ASSUME HandInv, [Next]_vars PROVE HandInv'
      OBVIOUS
    <2> USE DEF HandInv, server
    <2>1. CASE SendAck \/ RecvResponse \/ Deliver \/ RecvError \/ CloseReturns
      BY <2>1 DEF SendAck, RecvResponse, Deliver, RecvError, CloseReturns
    <2>2. CASE UNCHANGED <<handler, recvHand>>
      BY <2>2
    <2>3. QED
      BY <2>1, <2>2 DEF Next, EnqueueRequest, Check, Register, Send, SendPanics, Receive, Abandon,
                        Cleanup, CloseChan, NotifyPending, Take, SenderDone, Forward, ClientTake,
                        TryLocal, ClientAnswer, StreamBreaks, vars
  <1>3. QED
    BY <1>1, <1>2, PTL DEF Spec

(* The places a call goes through, and how a Close goes on. *)
LEMMA CallGoesOn ==
  ASSUME TypeOK, [Next]_vars, NEW r \in Requests
  PROVE  /\ pc[r] = "new" => pc'[r] \in {"new", "register", "done"}
         /\ pc[r] = "register" => pc'[r] \in {"register", "send"}
         /\ pc[r] = "send" => pc'[r] \in {"send", "wait", "cleanup"}
         /\ pc[r] = "wait" => pc'[r] \in {"wait", "cleanup"}
         /\ pc[r] = "cleanup" => pc'[r] \in {"cleanup", "done"}
         /\ pc[r] = "done" => pc'[r] = "done"
  <1> USE DEF TypeOK, calls, Goto, Leave
  <1>1. ASSUME NEW k \in Requests, EnqueueRequest(k)
        PROVE  \/ k # r /\ pc'[r] = pc[r]
               \/ /\ k = r
                  /\ \/ pc[r] = "new" /\ pc'[r] \in {"register", "done"}
                     \/ pc[r] = "register" /\ pc'[r] = "send"
                     \/ pc[r] = "send" /\ pc'[r] \in {"wait", "cleanup"}
                     \/ pc[r] = "wait" /\ pc'[r] = "cleanup"
                     \/ pc[r] = "cleanup" /\ pc'[r] = "done"
    BY <1>1 DEF EnqueueRequest, Check, Register, Send, SendPanics, Receive, Abandon, Cleanup
  <1>2. (\E k \in Requests : EnqueueRequest(k)) \/ UNCHANGED pc
    BY DEF Next, CloseChan, NotifyPending, Take, SenderDone, Forward, SendAck, RecvResponse, Deliver,
           RecvError, CloseReturns, ClientTake, TryLocal, ClientAnswer, StreamBreaks, vars
  <1>3. QED
    BY <1>1, <1>2

LEMMA CloseGoesOn ==
  ASSUME TypeOK, [Next]_vars
  PROVE  /\ closer = "open" => closer' \in {"open", "closing"}
         /\ closer = "closing" => closer' \in {"closing", "closed"}
         /\ closer = "closed" => closer' = "closed"
  <1>1. CASE CloseChan \/ NotifyPending
    BY <1>1 DEF CloseChan, NotifyPending
  <1>2. CASE UNCHANGED closer
    BY <1>2 DEF TypeOK
  <1>3. QED
    BY <1>1, <1>2 DEF Next, EnqueueRequest, Check, Register, Send, SendPanics, Receive, Abandon, Cleanup,
       Take, SenderDone, Forward, SendAck, RecvResponse, Deliver, RecvError, CloseReturns, ClientTake,
       TryLocal, ClientAnswer, StreamBreaks, vars, conn

(* What is in a caller's channel stays there until the caller takes it. *)
LEMMA AnswerStays ==
  ASSUME TypeOK, [Next]_vars, NEW r \in Requests, respCh[r] # Empty, pc[r] = "wait", pc'[r] = "wait"
  PROVE  respCh'[r] # Empty
  <1> USE ConstantsAssumption DEF TypeOK, calls, conn, Goto, Leave
  <1>1. CASE \E k \in Requests : Receive(k)
    BY <1>1 DEF Receive
  <1>2. CASE NotifyPending
    BY <1>2 DEF NotifyPending
  <1>3. CASE Deliver
    BY <1>3 DEF Deliver
  <1>4. CASE UNCHANGED respCh
    BY <1>4
  <1>5. QED
    BY <1>1, <1>2, <1>3, <1>4 DEF Next, EnqueueRequest, Check, Register, Send, SendPanics, Abandon, Cleanup,
       CloseChan, Take, SenderDone, Forward, SendAck, RecvResponse, RecvError, CloseReturns, ClientTake,
       TryLocal, ClientAnswer, StreamBreaks, vars

LiveInv == TypeOK /\ ChannelInv /\ WaiterInv /\ HandInv

LEMMA LiveInvAlways == Spec => []LiveInv
  BY PendingAlways, WakingAlways, HandAlways, PTL DEF LiveInv

(* What the guards of the actions say together, and the hypothesis of the theorems
   below: ENABLED cannot be expanded in a proof.  A call has a step before its
   registration unless a Close is in progress, in its selects, where the timers
   get it out, with something in its channel, and in its deferred function. *)
CallNotStuck(r) ==
    /\ pc[r] = "new" /\ closer # "closing" => ENABLED <<Check(r)>>_vars
    /\ pc[r] = "register" => ENABLED <<Register(r) \/ SendPanics(r)>>_vars
    /\ pc[r] \in {"send", "wait"} => ENABLED <<Abandon(r)>>_vars
    /\ pc[r] = "wait" /\ respCh[r] # Empty => ENABLED <<Receive(r)>>_vars
    /\ pc[r] = "cleanup" => ENABLED <<Cleanup(r)>>_vars

(* So have a Close with the locks in its hands and the receive loop with a
   response in its own. *)
NothingStuck ==
    /\ closer = "closing" => ENABLED <<NotifyPending>>_vars
    /\ recvHand # None => ENABLED <<SendAck \/ Deliver \/ RecvError>>_vars
    /\ \A r \in Requests : CallNotStuck(r)

(* A Close in progress ends. *)
LEMMA CloseEnds ==
  FairSpec /\ []NothingStuck => (closer = "closing" ~> closer = "closed")
  <1>1. LiveInv /\ [Next]_vars /\ closer = "closing" => (closer = "closing")' \/ (closer = "closed")'
    BY CloseGoesOn DEF LiveInv
  <1>2. <<NotifyPending>>_vars => (closer = "closed")'
    BY DEF NotifyPending
  <1>3. NothingStuck /\ closer = "closing" => ENABLED <<NotifyPending>>_vars
    BY DEF NothingStuck
  <1>4. FairSpec => Spec /\ ConnFairness
    BY DEF FairSpec, ServerFairness
  <1>5. QED
    BY <1>1, <1>2, <1>3, <1>4, LiveInvAlways, PTL DEF Spec, ConnFairness

(* Close lets every waiting caller return, and no timer is needed: it is woken
   by Close, or the receive loop has its response in hand and delivers it; if no
   call, Close or delivery is ever stuck. *)
THEOREM CloseReleasesEveryWaiter == FairSpec /\ []NothingStuck => CloseReleasesWaiters
  <1> SUFFICES ASSUME NEW r \in Requests
               PROVE  FairSpec /\ []NothingStuck
                        => ((closer # "open" /\ pc[r] = "wait") ~> (pc[r] = "done"))
    BY DEF CloseReleasesWaiters
  <1> DEFINE Woken == pc[r] = "wait" /\ respCh[r] # Empty
             Unwoken == closer = "closed" /\ pc[r] = "wait" /\ respCh[r] = Empty
             Leaving == pc[r] = "cleanup"
             Returned == pc[r] = "done"
             Fair == FairSpec /\ []NothingStuck
  <1>1. FairSpec => Spec /\ ConnFairness /\ CallFairness(r)
    BY DEF FairSpec, ServerFairness
  <1>2. Fair => (closer = "closing" ~> closer = "closed")
    BY CloseEnds
  <1>3. Fair => (Unwoken ~> Woken \/ Leaving)
    <2>1. LiveInv /\ [Next]_vars /\ Unwoken => Unwoken' \/ Woken' \/ Leaving'
      BY CallGoesOn, CloseGoesOn DEF LiveInv
    <2>2. LiveInv /\ Unwoken => recvHand # None /\ recvHand.call = r
      BY DEF LiveInv, WaiterInv
    <2>3. LiveInv /\ Unwoken /\ <<SendAck \/ Deliver \/ RecvError>>_vars => Woken'
      <3>1. LiveInv /\ Unwoken /\ (SendAck \/ Deliver \/ RecvError) => Deliver
        BY <2>2 DEF LiveInv, HandInv, SendAck, RecvError
      <3>2. LiveInv /\ Unwoken /\ Deliver => Woken'
        BY <2>2, ConstantsAssumption DEF LiveInv, Deliver, TypeOK, ChannelInv, calls
      <3>3. QED
        BY <3>1, <3>2
    <2>4. NothingStuck /\ recvHand # None => ENABLED <<SendAck \/ Deliver \/ RecvError>>_vars
      BY DEF NothingStuck
    <2>5. QED
      BY <1>1, <2>1, <2>2, <2>3, <2>4, LiveInvAlways, PTL DEF Spec, ConnFairness
  <1>4. Fair => (Woken ~> Leaving)
    <2>1. LiveInv /\ [Next]_vars /\ Woken => Woken' \/ Leaving'
      BY CallGoesOn, AnswerStays DEF LiveInv
    <2>2. LiveInv /\ Woken /\ <<Receive(r)>>_vars => Leaving'
      BY DEF LiveInv, TypeOK, Receive, Leave, Goto
    <2>3. NothingStuck /\ Woken => ENABLED <<Receive(r)>>_vars
      BY DEF NothingStuck, CallNotStuck
    <2>4. QED
      BY <1>1, <2>1, <2>2, <2>3, LiveInvAlways, PTL DEF Spec, CallFairness
  <1>5. Fair => (Leaving ~> Returned)
    <2>1. LiveInv /\ [Next]_vars /\ Leaving => Leaving' \/ Returned'
      BY CallGoesOn DEF LiveInv
    <2>2. LiveInv /\ Leaving /\ <<Cleanup(r)>>_vars => Returned'
      BY DEF LiveInv, TypeOK, Cleanup, Goto
    <2>3. NothingStuck /\ Leaving => ENABLED <<Cleanup(r)>>_vars
      BY DEF NothingStuck, CallNotStuck
    <2>4. QED
      BY <1>1, <2>1, <2>2, <2>3, LiveInvAlways, PTL DEF Spec, CallFairness
  <1>6. LiveInv => closer = "open" \/ closer = "closing" \/ closer = "closed"
    BY DEF LiveInv, TypeOK
  <1>7. LiveInv /\ [Next]_vars /\ pc[r] = "wait" => (pc[r] = "wait")' \/ Leaving'
    BY CallGoesOn DEF LiveInv
  <1>8. closer # "open" /\ closer = "open" => FALSE
    OBVIOUS
  <1>9. pc[r] = "wait" /\ closer = "closed" => Unwoken \/ Woken
    OBVIOUS
  <1> HIDE DEF Woken, Unwoken
  <1>10. QED
    BY <1>1, <1>2, <1>3, <1>4, <1>5, <1>6, <1>7, <1>8, <1>9, LiveInvAlways, PTL DEF Spec

(* With the timers every call returns, whatever else happens; if none is ever
   stuck. *)
THEOREM CallsReturn == FairSpec /\ []NothingStuck => EveryCallReturns
  <1> SUFFICES ASSUME NEW r \in Requests
               PROVE  FairSpec /\ []NothingStuck /\ TimerFairness => <>(pc[r] = "done")
    BY DEF EveryCallReturns
  <1> DEFINE New(state) == pc[r] = "new" /\ closer = state
             Waits == pc[r] = "send" \/ pc[r] = "wait"
             Past == pc[r] = "register" \/ pc[r] = "done"
             Fair == FairSpec /\ []NothingStuck /\ TimerFairness
  <1>1. /\ FairSpec => Spec /\ ConnFairness /\ CallFairness(r)
        /\ TimerFairness => TimersOf(r)
    BY DEF FairSpec, ServerFairness, TimerFairness
  <1>2. Fair => (closer = "closing" ~> closer = "closed")
    BY CloseEnds
  <1>3. /\ LiveInv /\ [Next]_vars /\ New("open") => New("open")' \/ New("closing")' \/ Past'
        /\ LiveInv /\ [Next]_vars /\ New("closing") => New("closing")' \/ New("closed")' \/ Past'
        /\ LiveInv /\ [Next]_vars /\ New("closed") => New("closed")' \/ Past'
        /\ LiveInv => closer = "open" \/ closer = "closing" \/ closer = "closed"
    BY CallGoesOn, CloseGoesOn DEF LiveInv, TypeOK
  <1>4. LiveInv /\ <<Check(r)>>_vars => Past'
    BY DEF LiveInv, TypeOK, Check, Goto
  <1>5. NothingStuck /\ (New("open") \/ New("closed")) => ENABLED <<Check(r)>>_vars
    BY DEF NothingStuck, CallNotStuck
  <1>6. Fair => (pc[r] = "new" ~> Past)
    <2>1. Fair => (New("open") ~> New("closing") \/ Past)
      BY <1>1, <1>3, <1>4, <1>5, LiveInvAlways, PTL DEF Spec, TimersOf
    <2>2. Fair => (New("closed") ~> Past)
      BY <1>1, <1>3, <1>4, <1>5, LiveInvAlways, PTL DEF Spec, TimersOf
    <2>3. New("closing") /\ closer = "closed" => FALSE
      OBVIOUS
    <2>4. Fair => (New("closing") ~> New("closed") \/ Past)
      BY <1>1, <1>2, <1>3, <2>3, LiveInvAlways, PTL DEF Spec
    <2>5. LiveInv /\ pc[r] = "new" => New("open") \/ New("closing") \/ New("closed")
      BY <1>3
    <2>6. QED
      BY <1>1, <2>1, <2>2, <2>4, <2>5, LiveInvAlways, PTL
  <1>7. Fair => (pc[r] = "register" ~> Waits)
    <2>1. LiveInv /\ [Next]_vars /\ pc[r] = "register" => (pc[r] = "register")' \/ Waits'
      BY CallGoesOn DEF LiveInv
    <2>2. LiveInv /\ pc[r] = "register" /\ <<Register(r) \/ SendPanics(r)>>_vars => Waits'
      BY DEF LiveInv, TypeOK, Register, SendPanics, Goto
    <2>3. NothingStuck /\ pc[r] = "register" => ENABLED <<Register(r) \/ SendPanics(r)>>_vars
      BY DEF NothingStuck, CallNotStuck
    <2>4. QED
      BY <1>1, <2>1, <2>2, <2>3, LiveInvAlways, PTL DEF Spec, CallFairness
  <1>8. Fair => (Waits ~> pc[r] = "cleanup")
    <2>1. LiveInv /\ [Next]_vars /\ Waits => Waits' \/ (pc[r] = "cleanup")'
      BY CallGoesOn DEF LiveInv
    <2>2. LiveInv /\ Waits /\ <<Abandon(r)>>_vars => (pc[r] = "cleanup")'
      BY DEF LiveInv, TypeOK, Abandon, Leave, Goto
    <2>3. NothingStuck /\ Waits => ENABLED <<Abandon(r)>>_vars
      BY DEF NothingStuck, CallNotStuck
    <2>4. QED
      BY <1>1, <2>1, <2>2, <2>3, LiveInvAlways, PTL DEF Spec, TimersOf
  <1>9. Fair => (pc[r] = "cleanup" ~> pc[r] = "done")
    <2>1. LiveInv /\ [Next]_vars /\ pc[r] = "cleanup" => (pc[r] = "cleanup")' \/ (pc[r] = "done")'
      BY CallGoesOn DEF LiveInv
    <2>2. LiveInv /\ pc[r] = "cleanup" /\ <<Cleanup(r)>>_vars => (pc[r] = "done")'
      BY DEF LiveInv, TypeOK, Cleanup, Goto
    <2>3. NothingStuck /\ pc[r] = "cleanup" => ENABLED <<Cleanup(r)>>_vars
      BY DEF NothingStuck, CallNotStuck
    <2>4. QED
      BY <1>1, <2>1, <2>2, <2>3, LiveInvAlways, PTL DEF Spec, CallFairness
  <1>10. Init => pc[r] = "new"
    BY DEF Init
  <1>11. QED
    BY <1>1, <1>6, <1>7, <1>8, <1>9, <1>10, PTL DEF Spec

(* The connection implements all of the promise: its safety in any case, and
   with the timers that no call waits for ever. *)
THEOREM ConnectionImplementsPromise == FairSpec /\ []NothingStuck => ImplementsPromise
  <1>1. FairSpec /\ []NothingStuck /\ TimerFairness => Promise!EveryCallEnds
    <2> SUFFICES ASSUME NEW r \in Requests
                 PROVE  FairSpec /\ []NothingStuck /\ TimerFairness
                          => (Promise!Waiting(r) ~> Promise!Ended(r))
      BY DEF Promise!EveryCallEnds
    <2>1. EveryCallReturns /\ TimerFairness => <>(pc[r] = "done")
      BY DEF EveryCallReturns
    <2>2. LiveInv /\ [Next]_vars /\ pc[r] = "done" => (pc[r] = "done")'
      BY CallGoesOn DEF LiveInv
    <2>3. pc[r] = "done" => Promise!Ended(r)
      <3>1. CASE pc[r] = "done" /\ result[r] \in Requests
        BY <3>1 DEF Progress, Promise!Ended
      <3>2. CASE pc[r] = "done" /\ result[r] \notin Requests
        BY <3>2 DEF Progress, Promise!Ended
      <3>3. QED
        BY <3>1, <3>2
    <2>4. QED
      BY <2>1, <2>2, <2>3, CallsReturn, LiveInvAlways, PTL DEF FairSpec, Spec
  <1>2. QED
    BY <1>1, ConnectionKeepsPromise, PTL DEF ImplementsPromise, FairSpec
=============================================================================
