----------------------------- MODULE DbusRelayProofs -----------------------------
(***************************************************************************)
(* DbusRelay for any number of servers, of programs and of calls: what a   *)
(* server relays, in which order, and what a successful call has reached.  *)
(***************************************************************************)
EXTENDS DbusRelay, SequenceTheorems, TLAPS

-----------------------------------------------------------------------------
(* Types.                                                                  *)

LEMMA ExitType ==
  ASSUME RelayTypeOK, NEW s \in Servers, Exit(s)
  PROVE  RelayTypeOK'
<1>1. Len(calls') = Len(calls) /\ DOMAIN calls' = DOMAIN calls /\ calls' \in Seq(CallRecord)
  <2>1. calls \in Seq(CallRecord) /\ Len(calls) \in Nat /\ DOMAIN calls = 1..Len(calls)
    BY DEF RelayTypeOK
  <2>2. ASSUME NEW n \in 1..Len(calls)
        PROVE  [calls[n] EXCEPT !.state = "failed"] \in CallRecord
    <3>1. calls[n] \in CallRecord
      BY <2>1
    <3>2. QED
      BY <3>1 DEF CallRecord, CallStates
  <2>3. calls' = [n \in DOMAIN calls |->
                    IF Dead(s, calls[n]) THEN [calls[n] EXCEPT !.state = "failed"] ELSE calls[n]]
    BY DEF Exit
  <2>4. calls' \in [1..Len(calls) -> CallRecord]
    BY <2>1, <2>2, <2>3
  <2>5. QED
    BY <2>1, <2>4
<1>2. Message' = Message /\ CallRecord' = CallRecord
  BY <1>1 DEF Message, CallRecord
<1>3. mailbox' \in [Servers -> Seq(1..Len(calls'))] /\ outbox' \in [Servers -> Seq(Message')]
  BY <1>1, <1>2 DEF RelayTypeOK, Exit
<1>4. server' \in [Servers -> ServerSteps]
  BY DEF RelayTypeOK, Exit, ServerSteps
<1>5. /\ owner' \in Servers \cup {Nobody}
      /\ owner' # Nobody => server'[owner'] \in {"queued", "named", "serving"}
  <2>1. CASE owner # s
    BY <2>1 DEF RelayTypeOK, Exit, ReleaseName
  <2>2. CASE owner = s
    <3>1. owner' = Nobody \/ (owner' \in Servers \ {s} /\ server[owner'] = "queued")
      BY <2>2 DEF Exit, ReleaseName
    <3>2. QED
      BY <3>1 DEF RelayTypeOK, Exit
  <2>3. QED
    BY <2>1, <2>2
<1>6. QED
  BY <1>1, <1>2, <1>3, <1>4, <1>5 DEF RelayTypeOK, Exit, history

\* A call that changes its state stays a call.
LEMMA StateType ==
  ASSUME RelayTypeOK, NEW n \in DOMAIN calls, NEW state \in CallStates,
         calls' = [calls EXCEPT ![n].state = state]
  PROVE  /\ calls' \in Seq(CallRecord) /\ Len(calls') = Len(calls)
         /\ DOMAIN calls' = DOMAIN calls
<1>1. calls \in Seq(CallRecord) /\ calls[n] \in CallRecord
  BY DEF RelayTypeOK
<1>2. [calls[n] EXCEPT !.state = state] \in CallRecord
  BY <1>1 DEF CallRecord
<1>3. QED
  BY <1>1, <1>2

LEMMA StartType ==
  ASSUME RelayTypeOK, NEW s \in Servers, Start(s) \/ OwnName(s)
  PROVE  RelayTypeOK'
<1> USE RelayAssumption
<1>1. Message' = Message /\ CallRecord' = CallRecord
  BY DEF Start, OwnName, Message, CallRecord
<1>2. CASE Start(s)
  <2>1. server[s] = "new" /\ \E to \in {"started", "ended"} : server' = [server EXCEPT ![s] = to]
    BY <1>2 DEF Start, check_user, Becomes
  <2>2. server' \in [Servers -> ServerSteps]
    BY <2>1 DEF RelayTypeOK, ServerSteps
  <2>3. owner # Nobody => owner # s /\ server'[owner] = server[owner]
    BY <2>1 DEF RelayTypeOK
  <2>4. QED
    BY <1>1, <1>2, <2>2, <2>3 DEF RelayTypeOK, Start, history
<1>3. CASE OwnName(s)
  <2>1. server[s] = "started"
        /\ \E to \in {"named", "queued"} : server' = [server EXCEPT ![s] = to]
    BY <1>3 DEF OwnName, Becomes
  <2>2. server' \in [Servers -> ServerSteps]
    BY <2>1 DEF RelayTypeOK, ServerSteps
  <2>3. /\ owner' \in Servers \cup {Nobody}
        /\ owner' # Nobody => server'[owner'] \in {"queued", "named", "serving"}
    BY <1>3, <2>1 DEF RelayTypeOK, OwnName, Becomes
  <2>4. QED
    BY <1>1, <1>3, <2>2, <2>3 DEF RelayTypeOK, OwnName, history
<1>4. QED
  BY <1>2, <1>3

LEMMA AcquiredType ==
  ASSUME RelayTypeOK, NEW s \in Servers, on_name_acquired(s)
  PROVE  RelayTypeOK'
<1>1. CASE Exit(s)
  BY <1>1, ExitType
<1>2. CASE /\ Becomes(s, "named", "serving")
           /\ UNCHANGED <<owner, mailbox, outbox, calls, history, caller, error>>
  <2>1. Message' = Message /\ CallRecord' = CallRecord
    BY <1>2 DEF Message, CallRecord
  <2>2. server' \in [Servers -> ServerSteps]
    BY <1>2 DEF RelayTypeOK, Becomes, ServerSteps
  <2>3. owner # Nobody => server'[owner] \in {"queued", "named", "serving"}
    BY <1>2 DEF RelayTypeOK, Becomes
  <2>4. QED
    BY <1>2, <2>1, <2>2, <2>3 DEF RelayTypeOK, history
<1>3. QED
  BY <1>1, <1>2 DEF on_name_acquired, Exports

LEMMA DispatchType ==
  ASSUME RelayTypeOK, NEW s \in Servers, Dispatch(s)
  PROVE  RelayTypeOK'
<1> DEFINE n     == Head(mailbox[s])
           added == IF server[s] = "serving" THEN Handled(n) ELSE Refused(n)
<1>1. Message' = Message /\ CallRecord' = CallRecord
  BY DEF Dispatch, Message, CallRecord
<1>2. mailbox[s] \in Seq(1..Len(calls)) /\ mailbox[s] # <<>>
  BY DEF RelayTypeOK, Dispatch
<1>3. n \in 1..Len(calls) /\ Tail(mailbox[s]) \in Seq(1..Len(calls))
  BY <1>2, HeadTailProperties
<1>4. added \in Seq(Message)
  <2>1. \A type \in {"signal", "reply", "refusal"} : [type |-> type, call |-> n] \in Message
    BY <1>3 DEF Message
  <2> HIDE DEF n
  <2>2. Handled(n) \in Seq(Message) /\ Refused(n) \in Seq(Message)
    BY <2>1 DEF Handled, Refused
  <2>3. QED
    BY <2>2
<1>5. outbox' = [outbox EXCEPT ![s] = outbox[s] \o added]
  BY DEF Dispatch, RelayTypeOK
<1> HIDE DEF added
<1>6. outbox[s] \o added \in Seq(Message)
  BY <1>4 DEF RelayTypeOK
<1>7. outbox' \in [Servers -> Seq(Message)]
  BY <1>5, <1>6 DEF RelayTypeOK
<1>8. mailbox' \in [Servers -> Seq(1..Len(calls))]
  BY <1>3 DEF RelayTypeOK, Dispatch
<1>9. QED
  BY <1>1, <1>7, <1>8 DEF RelayTypeOK, Dispatch, history

LEMMA EmitType == \A method \in Methods : Emit(method) \in Signals
  BY DEF Emit, Methods, Signals

\* What Write does, in two cases.
WritesSignal(s) ==
  LET n == Head(outbox[s]).call
  IN  /\ Head(outbox[s]).type = "signal"
      /\ bus' = Append(bus, [call |-> n, kind |-> Emit(calls[n].method)])
      /\ heard' = IF Listening THEN heard \cup {n} ELSE heard
      /\ UNCHANGED calls

WritesAnswer(s) ==
  LET n == Head(outbox[s]).call
  IN  /\ Head(outbox[s]).type # "signal"
      /\ \/ calls' = calls
         \/ /\ calls[n].state = "sent"
            /\ Head(outbox[s]).type = "reply"
            /\ calls' = [calls EXCEPT ![n].state = "answered"]
         \/ calls' = [calls EXCEPT ![n].state = "failed"]
      /\ UNCHANGED history

LEMMA WriteCases ==
  ASSUME RelayTypeOK, NEW s \in Servers, Write(s)
  PROVE  /\ outbox[s] # <<>> /\ Head(outbox[s]) \in Message
         /\ Head(outbox[s]).call \in DOMAIN calls
         /\ outbox' = [outbox EXCEPT ![s] = Tail(outbox[s])]
         /\ UNCHANGED <<server, owner, mailbox, caller, error>>
         /\ WritesSignal(s) \/ WritesAnswer(s)
<1>1. outbox[s] \in Seq(Message) /\ outbox[s] # <<>>
      /\ outbox' = [outbox EXCEPT ![s] = Tail(outbox[s])]
  BY DEF RelayTypeOK, Write
<1>2. Head(outbox[s]) \in Message
  BY <1>1
<1>3. Head(outbox[s]).call \in DOMAIN calls
  BY <1>2 DEF Message, RelayTypeOK
<1>4. WritesSignal(s) \/ WritesAnswer(s)
  BY DEF Write, WritesSignal, WritesAnswer
<1>5. QED
  BY <1>1, <1>2, <1>3, <1>4 DEF Write

LEMMA WriteType ==
  ASSUME RelayTypeOK, NEW s \in Servers, Write(s)
  PROVE  RelayTypeOK'
<1> DEFINE n == Head(outbox[s]).call
<1>1. Len(calls') = Len(calls) /\ calls' \in Seq(CallRecord)
  <2>1. "answered" \in CallStates /\ "failed" \in CallStates
    BY DEF CallStates
  <2>2. QED
    BY <2>1, WriteCases, StateType DEF WritesSignal, WritesAnswer, RelayTypeOK
<1>2. Message' = Message /\ CallRecord' = CallRecord
  BY <1>1 DEF Message, CallRecord
<1>3. outbox' \in [Servers -> Seq(Message)]
  <2>1. Tail(outbox[s]) \in Seq(Message)
    BY WriteCases DEF RelayTypeOK
  <2>2. QED
    BY <2>1, WriteCases DEF RelayTypeOK
<1>4. /\ bus' \in Seq([call : 1..Len(calls), kind : Signals])
      /\ heard' \subseteq 1..Len(calls)
  <2>1. n \in 1..Len(calls) /\ calls[n] \in CallRecord
    BY WriteCases DEF RelayTypeOK
  <2>2. [call |-> n, kind |-> Emit(calls[n].method)] \in [call : 1..Len(calls), kind : Signals]
    BY <2>1, EmitType DEF CallRecord
  <2>3. CASE WritesSignal(s)
    <3>1. bus' = Append(bus, [call |-> n, kind |-> Emit(calls[n].method)])
          /\ (heard' = heard \/ heard' = heard \cup {n})
      BY <2>3 DEF WritesSignal
    <3>2. bus \in Seq([call : 1..Len(calls), kind : Signals]) /\ heard \subseteq 1..Len(calls)
      BY DEF RelayTypeOK
    <3> HIDE DEF n
    <3>3. bus' \in Seq([call : 1..Len(calls), kind : Signals])
      BY <2>2, <3>1, <3>2, AppendProperties
    <3>4. QED
      BY <2>1, <3>1, <3>2, <3>3
  <2>4. CASE WritesAnswer(s)
    BY <2>4 DEF WritesAnswer, RelayTypeOK, history
  <2>5. QED
    BY <2>3, <2>4, WriteCases
<1>5. QED
  BY <1>1, <1>2, <1>3, <1>4, WriteCases DEF RelayTypeOK

-----------------------------------------------------------------------------
(* Types: callers.                                                         *)

\* Whoever stays with the same calls, and changes only itself.
LEMMA CallerType ==
  ASSUME RelayTypeOK, UNCHANGED <<server, owner, mailbox, outbox, history>>,
         calls' \in Seq(CallRecord), Len(calls') = Len(calls),
         caller' \in [Callers -> {"closed", "ready", "waiting", "ended"}],
         error' \in [Clients -> {"null", "freed"}]
  PROVE  RelayTypeOK'
<1>1. Message' = Message /\ CallRecord' = CallRecord
  BY DEF Message, CallRecord
<1>2. QED
  BY <1>1 DEF RelayTypeOK, history

LEMMA ReportsType ==
  ASSUME RelayTypeOK, NEW u \in Clients, NEW failed \in BOOLEAN,
         NEW to \in {"closed", "ready"}, Reports(u, failed, to)
  PROVE  /\ caller' \in [Callers -> {"closed", "ready", "waiting", "ended"}]
         /\ error' \in [Clients -> {"null", "freed"}]
         /\ caller'[Daemon] = caller[Daemon]
<1>1. u \in Callers /\ u # Daemon /\ Daemon \in Callers
  BY RelayAssumption DEF Callers
<1>2. QED
  BY <1>1 DEF RelayTypeOK, Reports

LEMMA TimeoutType ==
  ASSUME RelayTypeOK, NEW u \in Callers, Timeout(u)
  PROVE  RelayTypeOK'
<1>1. PICK n \in DOMAIN calls : calls' = [calls EXCEPT ![n].state = "failed"]
  BY DEF Timeout
<1>2. calls' \in Seq(CallRecord) /\ Len(calls') = Len(calls)
  BY <1>1, StateType DEF CallStates
<1>3. QED
  BY <1>2, CallerType DEF RelayTypeOK, Timeout, history

LEMMA CallType ==
  ASSUME RelayTypeOK, NEW u \in Callers, NEW method \in Methods, Call(u, method)
  PROVE  RelayTypeOK'
<1> DEFINE n   == Len(calls) + 1
           new == [from |-> u, method |-> method, to |-> owner,
                   state |-> IF owner = Nobody THEN "failed" ELSE "sent",
                   listening |-> Listening]
<1>1. calls \in Seq(CallRecord) /\ Len(calls) \in Nat /\ Len(calls) < MaxCalls /\ MaxCalls \in Nat
  BY RelayAssumption DEF RelayTypeOK, Call
<1>2. new \in CallRecord
  BY DEF RelayTypeOK, CallRecord, CallStates, Listening
<1>3. calls' = Append(calls, new)
  BY DEF Call
<1> HIDE DEF new
<1>4. calls' \in Seq(CallRecord) /\ Len(calls') = n
  BY <1>1, <1>2, <1>3, AppendProperties
<1>5. CallRecord' = CallRecord /\ Message \subseteq Message' 
      /\ 1..Len(calls) \subseteq 1..n /\ n \in 1..n
  BY <1>1, <1>4 DEF CallRecord, Message
<1>6. mailbox' \in [Servers -> Seq(1..n)]
  <2>1. \A s \in Servers : mailbox[s] \in Seq(1..n)
    <3>1. ASSUME NEW s \in Servers PROVE mailbox[s] \in Seq(1..n)
      <4>1. mailbox[s] \in Seq(1..Len(calls))
        BY DEF RelayTypeOK
      <4>2. QED
        BY <1>5, <4>1, SeqMonotonic
    <3>2. QED
      BY <3>1
  <2>2. \A s \in Servers : Append(mailbox[s], n) \in Seq(1..n)
    BY <1>5, <2>1, AppendProperties
  <2>3. \/ mailbox' = mailbox
        \/ (owner \in Servers /\ mailbox' = [mailbox EXCEPT ![owner] = Append(mailbox[owner], n)])
    BY DEF Call, RelayTypeOK
  <2>4. mailbox \in [Servers -> Seq(1..n)]
    BY <2>1 DEF RelayTypeOK
  <2> HIDE DEF n
  <2>5. QED
    BY <2>2, <2>3, <2>4
<1>7. outbox' \in [Servers -> Seq(Message')]
  <2>1. ASSUME NEW s \in Servers PROVE outbox[s] \in Seq(Message')
    <3>1. outbox[s] \in Seq(Message)
      BY DEF RelayTypeOK
    <3>2. QED
      BY <1>5, <3>1, SeqMonotonic
  <2>2. QED
    BY <2>1 DEF RelayTypeOK, Call
<1>8. bus' \in Seq([call : 1..n, kind : Signals])
  <2>1. bus \in Seq([call : 1..Len(calls), kind : Signals])
        /\ [call : 1..Len(calls), kind : Signals] \subseteq [call : 1..n, kind : Signals]
    BY <1>5 DEF RelayTypeOK
  <2>2. QED
    BY <2>1, SeqMonotonic DEF Call, history
<1>9. caller' \in [Callers -> {"closed", "ready", "waiting", "ended"}]
  BY DEF RelayTypeOK, Call
<1>10. QED
  BY <1>1, <1>4, <1>5, <1>6, <1>7, <1>8, <1>9 DEF RelayTypeOK, Call, history

LEMMA ReturnType ==
  ASSUME RelayTypeOK, NEW u \in Clients, Return(u)
  PROVE  RelayTypeOK'
<1>1. PICK n \in DOMAIN calls : Result(n, Failed(u, n)) /\ Reports(u, Failed(u, n), "ready")
  BY DEF Return
<1>2. calls' \in Seq(CallRecord) /\ Len(calls') = Len(calls)
  BY <1>1, StateType DEF Result, CallStates
<1>3. Failed(u, n) \in BOOLEAN
  BY DEF Failed
<1>4. QED
  BY <1>1, <1>2, <1>3, ReportsType, CallerType DEF Return

LEMMA UsesType ==
  ASSUME RelayTypeOK, NEW u \in Clients, Uses(u)
  PROVE  RelayTypeOK'
<1>1. u \in Callers /\ Triggered \subseteq Methods
  BY RelayAssumption DEF Callers
<1>2. calls \in Seq(CallRecord)
  BY DEF RelayTypeOK
<1>3. CASE connect_dbus_client(u)
  BY <1>2, <1>3, ReportsType, CallerType DEF connect_dbus_client
<1>4. CASE close_dbus_client(u)
  <2>1. /\ caller' \in [Callers -> {"closed", "ready", "waiting", "ended"}]
        /\ error' \in [Clients -> {"null", "freed"}]
    BY <1>4 DEF close_dbus_client, RelayTypeOK
  <2>2. QED
    BY <1>2, <1>4, <2>1, CallerType DEF close_dbus_client
<1>5. CASE \E method \in Triggered : Call(u, method)
  BY <1>1, <1>5, CallType
<1>6. QED
  BY <1>1, <1>3, <1>4, <1>5, TimeoutType, ReturnType DEF Uses

LEMMA NotifiesType ==
  ASSUME RelayTypeOK, Notifies
  PROVE  RelayTypeOK'
<1>1. Daemon \in Callers /\ "ReturnStatus" \in Methods
  BY DEF Callers, Methods
<1>2. calls \in Seq(CallRecord) /\ error \in [Clients -> {"null", "freed"}]
  BY DEF RelayTypeOK
<1>3. CASE gsd_listener \/ DaemonEnds
  <2>1. \E to \in {"ready", "ended"} : caller' = [caller EXCEPT ![Daemon] = to]
    BY <1>3 DEF gsd_listener, DaemonEnds
  <2>2. caller' \in [Callers -> {"closed", "ready", "waiting", "ended"}]
    BY <2>1 DEF RelayTypeOK
  <2>3. QED
    BY <1>2, <1>3, <2>2, CallerType DEF gsd_listener, DaemonEnds
<1>4. CASE Notified
  <2>1. PICK n \in DOMAIN calls : Result(n, calls[n].state = "failed")
    BY <1>4 DEF Notified
  <2>2. calls' \in Seq(CallRecord) /\ Len(calls') = Len(calls)
    BY <2>1, StateType DEF Result, CallStates
  <2>3. caller' \in [Callers -> {"closed", "ready", "waiting", "ended"}]
    BY <1>4 DEF Notified, RelayTypeOK
  <2>4. QED
    BY <1>2, <1>4, <2>2, <2>3, CallerType DEF Notified
<1>5. QED
  BY <1>1, <1>3, <1>4, CallType, TimeoutType DEF Notifies

LEMMA InitType == Init => RelayTypeOK
<1> SUFFICES ASSUME Init PROVE RelayTypeOK
  OBVIOUS
<1>1. Len(calls) = 0 /\ calls \in Seq(CallRecord)
      /\ bus \in Seq([call : 1..Len(calls), kind : Signals])
  BY DEF Init
<1>2. mailbox \in [Servers -> Seq(1..Len(calls))] /\ outbox \in [Servers -> Seq(Message)]
  BY DEF Init
<1>3. server \in [Servers -> ServerSteps] /\ owner = Nobody
  BY DEF Init, ServerSteps
<1>4. QED
  BY <1>1, <1>2, <1>3, RelayAssumption DEF Init, RelayTypeOK

LEMMA StepType ==
  ASSUME RelayTypeOK, [Next]_vars
  PROVE  RelayTypeOK'
<1>1. CASE UNCHANGED vars
  <2>1. Message' = Message /\ CallRecord' = CallRecord
    BY <1>1 DEF vars, Message, CallRecord
  <2>2. QED
    BY <1>1, <2>1 DEF vars, RelayTypeOK
<1>2. ASSUME NEW s \in Servers, Serves(s) \/ Start(s) \/ exit_handler(s)
      PROVE  RelayTypeOK'
  BY <1>2, ExitType, StartType, AcquiredType, DispatchType, WriteType
     DEF Serves, on_name_lost, exit_handler
<1>3. QED
  BY <1>1, <1>2, UsesType, NotifiesType DEF Next, Over

\* The servers, what is on its way, the calls and the callers keep their type,
\* whichever process ends or is started at any moment.
THEOREM RelayTypeCorrect == Spec => []RelayTypeOK
<1>1. RelayTypeOK /\ [Next]_vars => RelayTypeOK'
  BY StepType
<1>2. QED
  BY InitType, <1>1, PTL DEF Spec

-----------------------------------------------------------------------------
(* Order: calls are handled in the order in which they were made, by one   *)
(* server at a time.                                                       *)

IsSignal(message) == message.type = "signal"

\* A server without the name has nothing to do.
Idle(s) == mailbox[s] = <<>> /\ outbox[s] = <<>>

\* What is written was called before what is to be written, and that before
\* what is to be handled.
InOrder(s) ==
  /\ \A i, j \in DOMAIN mailbox[s] : i < j => mailbox[s][i] < mailbox[s][j]
  /\ \A i \in DOMAIN outbox[s], j \in DOMAIN mailbox[s] :
       IsSignal(outbox[s][i]) => outbox[s][i].call < mailbox[s][j]
  /\ \A i, j \in DOMAIN outbox[s] :
       i < j /\ IsSignal(outbox[s][i]) /\ IsSignal(outbox[s][j])
         => outbox[s][i].call < outbox[s][j].call
  /\ \A k \in DOMAIN bus, j \in DOMAIN mailbox[s] : bus[k].call < mailbox[s][j]
  /\ \A k \in DOMAIN bus, j \in DOMAIN outbox[s] :
       IsSignal(outbox[s][j]) => bus[k].call < outbox[s][j].call

OrderInv == \A s \in Servers : (owner # s => Idle(s)) /\ InOrder(s)

LEMMA InitOrder == Init => OrderInv
  BY DEF Init, OrderInv, Idle, InOrder

\* A server that only keeps what it has, or loses it.
LEMMA OrderKept ==
  ASSUME OrderInv, bus' = bus,
         \A s \in Servers :
           \/ mailbox'[s] = mailbox[s] /\ outbox'[s] = outbox[s] /\ (owner' # s => owner # s)
           \/ mailbox'[s] = <<>> /\ outbox'[s] = <<>>
  PROVE  OrderInv'
<1> SUFFICES ASSUME NEW s \in Servers
             PROVE  (owner' # s => Idle(s)') /\ InOrder(s)'
  BY DEF OrderInv
<1>1. CASE mailbox'[s] = mailbox[s] /\ outbox'[s] = outbox[s] /\ (owner' # s => owner # s)
  BY <1>1 DEF OrderInv, Idle, InOrder
<1>2. CASE mailbox'[s] = <<>> /\ outbox'[s] = <<>>
  BY <1>2 DEF Idle, InOrder
<1>3. QED
  BY <1>1, <1>2

LEMMA ExitOrder ==
  ASSUME RelayTypeOK, OrderInv, NEW s \in Servers, Exit(s)
  PROVE  OrderInv'
<1>1. ASSUME NEW t \in Servers
      PROVE  \/ mailbox'[t] = mailbox[t] /\ outbox'[t] = outbox[t] /\ (owner' # t => owner # t)
             \/ mailbox'[t] = <<>> /\ outbox'[t] = <<>>
  <2>1. CASE t = s
    BY <2>1 DEF Exit, RelayTypeOK
  <2>2. CASE t # s
    BY <2>2 DEF Exit, ReleaseName, RelayTypeOK
  <2>3. QED
    BY <2>1, <2>2
<1>2. QED
  BY <1>1, OrderKept DEF Exit, history

LEMMA StartOrder ==
  ASSUME OrderInv, NEW s \in Servers, Start(s) \/ OwnName(s)
  PROVE  OrderInv'
<1>1. \A t \in Servers : mailbox'[t] = mailbox[t] /\ outbox'[t] = outbox[t]
                         /\ (owner' # t => owner # t)
  BY RelayAssumption DEF Start, OwnName
<1>2. QED
  BY <1>1, OrderKept DEF Start, OwnName, history

LEMMA DispatchOrder ==
  ASSUME RelayTypeOK, OrderInv, NEW s \in Servers, Dispatch(s)
  PROVE  OrderInv'
<1> DEFINE n     == Head(mailbox[s])
           added == IF server[s] = "serving" THEN Handled(n) ELSE Refused(n)
<1>1. owner = s /\ InOrder(s)
  BY DEF OrderInv, Idle, Dispatch
<1>2. mailbox[s] \in Seq(1..Len(calls)) /\ mailbox[s] # <<>> /\ outbox[s] \in Seq(Message)
  BY DEF RelayTypeOK, Dispatch
<1>3. n \in 1..Len(calls)
  BY <1>2, HeadTailProperties
<1>4. added \in Seq(Message)
      /\ \A i \in DOMAIN added : added[i].call = n /\ (IsSignal(added[i]) => i = 1)
  <2>1. \A type \in {"signal", "reply", "refusal"} : [type |-> type, call |-> n] \in Message
    BY <1>3 DEF Message
  <2> HIDE DEF n
  <2>2. Handled(n) \in Seq(Message) /\ Refused(n) \in Seq(Message)
    BY <2>1 DEF Handled, Refused
  <2>3. \A i \in DOMAIN Handled(n) : Handled(n)[i].call = n /\ (IsSignal(Handled(n)[i]) => i = 1)
    BY DEF Handled, IsSignal
  <2>4. \A i \in DOMAIN Refused(n) : Refused(n)[i].call = n /\ (IsSignal(Refused(n)[i]) => i = 1)
    BY DEF Refused, IsSignal
  <2>5. QED
    BY <2>2, <2>3, <2>4
<1>5. \A t \in Servers : t # s => mailbox'[t] = mailbox[t] /\ outbox'[t] = outbox[t]
  BY DEF Dispatch, RelayTypeOK
<1>6. mailbox'[s] = Tail(mailbox[s]) /\ outbox'[s] = outbox[s] \o added
  BY DEF Dispatch, RelayTypeOK
<1>7. Tail(mailbox[s]) \in Seq(1..Len(calls)) /\ Len(Tail(mailbox[s])) = Len(mailbox[s]) - 1
      /\ \A j \in DOMAIN Tail(mailbox[s]) :
           j + 1 \in DOMAIN mailbox[s] /\ Tail(mailbox[s])[j] = mailbox[s][j + 1]
  <2>1. /\ Tail(mailbox[s]) \in Seq(1..Len(calls)) /\ Len(Tail(mailbox[s])) = Len(mailbox[s]) - 1
        /\ \A j \in 1..Len(Tail(mailbox[s])) : Tail(mailbox[s])[j] = mailbox[s][j + 1]
    BY <1>2, HeadTailProperties
  <2>2. /\ DOMAIN Tail(mailbox[s]) = 1..Len(Tail(mailbox[s])) /\ Len(mailbox[s]) \in Nat
        /\ DOMAIN mailbox[s] = 1..Len(mailbox[s])
    BY <1>2, <2>1, LenProperties
  <2>3. QED
    BY <2>1, <2>2
<1>8. n = mailbox[s][1] /\ 1 \in DOMAIN mailbox[s]
  BY <1>2
<1>9. ASSUME NEW i \in DOMAIN outbox'[s]
      PROVE
        \/ i \in DOMAIN outbox[s] /\ outbox'[s][i] = outbox[s][i]
        \/ /\ i - Len(outbox[s]) \in DOMAIN added
           /\ outbox'[s][i] = added[i - Len(outbox[s])]
  <2> HIDE DEF added
  <2>1. /\ outbox'[s] \in Seq(Message)
        /\ Len(outbox'[s]) = Len(outbox[s]) + Len(added)
        /\ \A k \in 1..Len(outbox[s]) + Len(added) :
             outbox'[s][k] = IF k <= Len(outbox[s]) THEN outbox[s][k]
                                                    ELSE added[k - Len(outbox[s])]
    BY <1>2, <1>4, <1>6, ConcatProperties
  <2>2. /\ DOMAIN outbox'[s] = 1..Len(outbox'[s]) /\ DOMAIN outbox[s] = 1..Len(outbox[s])
        /\ DOMAIN added = 1..Len(added) /\ Len(added) \in Nat /\ Len(outbox[s]) \in Nat
    BY <1>2, <1>4, <2>1, LenProperties
  <2>3. i \in 1..Len(outbox[s]) + Len(added) /\ i \in Nat
    BY <1>9, <2>1, <2>2
  <2>4. CASE i <= Len(outbox[s])
    BY <2>1, <2>2, <2>3, <2>4
  <2>5. CASE ~ i <= Len(outbox[s])
    <3>1. outbox'[s][i] = added[i - Len(outbox[s])]
      BY <2>1, <2>3, <2>5
    <3>2. i - Len(outbox[s]) \in 1..Len(added)
      BY <2>2, <2>3, <2>5
    <3>3. QED
      BY <2>2, <3>1, <3>2
  <2>6. QED
    BY <2>4, <2>5
<1> HIDE DEF n, added
<1>int. \A i \in DOMAIN outbox'[s] : i \in Int
  BY <1>4, <1>6, <1>2, ConcatProperties, LenProperties
<1>10. \A j \in DOMAIN mailbox'[s] : n < mailbox'[s][j]
  <2>1. SUFFICES ASSUME NEW j \in DOMAIN mailbox'[s] PROVE n < mailbox'[s][j]
    OBVIOUS
  <2>2. j \in DOMAIN Tail(mailbox[s]) /\ j \in Nat /\ 1 < j + 1
    BY <1>6, <1>7, LenProperties
  <2>3. QED
    BY <1>1, <1>6, <1>7, <1>8, <2>2 DEF InOrder
<1>11. InOrder(s)'
  <2>1. \A i, j \in DOMAIN mailbox'[s] : i < j => mailbox'[s][i] < mailbox'[s][j]
    <3>1. SUFFICES ASSUME NEW i \in DOMAIN mailbox'[s], NEW j \in DOMAIN mailbox'[s], i < j
                   PROVE  mailbox'[s][i] < mailbox'[s][j]
      OBVIOUS
    <3>2. i \in Nat /\ j \in Nat /\ i + 1 < j + 1
      BY <1>6, <1>7, LenProperties, <3>1
    <3>3. QED
      BY <1>1, <1>6, <1>7, <3>2 DEF InOrder
  <2>2. \A i \in DOMAIN outbox'[s], j \in DOMAIN mailbox'[s] :
          IsSignal(outbox'[s][i]) => outbox'[s][i].call < mailbox'[s][j]
    <3>1. SUFFICES ASSUME NEW i \in DOMAIN outbox'[s], NEW j \in DOMAIN mailbox'[s],
                          IsSignal(outbox'[s][i])
                   PROVE  outbox'[s][i].call < mailbox'[s][j]
      OBVIOUS
    <3>2. CASE i \in DOMAIN outbox[s] /\ outbox'[s][i] = outbox[s][i]
      BY <1>1, <1>6, <1>7, <3>1, <3>2 DEF InOrder
    <3>3. CASE /\ i - Len(outbox[s]) \in DOMAIN added
               /\ outbox'[s][i] = added[i - Len(outbox[s])]
      BY <1>4, <1>10, <3>3
    <3>4. QED
      BY <1>9, <3>2, <3>3
  <2>3. \A i, j \in DOMAIN outbox'[s] :
          i < j /\ IsSignal(outbox'[s][i]) /\ IsSignal(outbox'[s][j])
            => outbox'[s][i].call < outbox'[s][j].call
    <3>1. SUFFICES ASSUME NEW i \in DOMAIN outbox'[s], NEW j \in DOMAIN outbox'[s], i < j,
                          IsSignal(outbox'[s][i]), IsSignal(outbox'[s][j])
                   PROVE  outbox'[s][i].call < outbox'[s][j].call
      OBVIOUS
    <3>2. Len(outbox[s]) \in Nat /\ DOMAIN outbox[s] = 1..Len(outbox[s])
      BY <1>2, LenProperties
    <3>3. CASE j \in DOMAIN outbox[s] /\ outbox'[s][j] = outbox[s][j]
      <4>1. i \in DOMAIN outbox[s] /\ outbox'[s][i] = outbox[s][i]
        <5>1. ~ (i - Len(outbox[s]) \in DOMAIN added /\ outbox'[s][i] = added[i - Len(outbox[s])])
          <6>1. i \in Int /\ j \in 1..Len(outbox[s])
            BY <1>int, <3>2, <3>3
          <6>2. i - Len(outbox[s]) # 1
            BY <3>1, <3>2, <6>1
          <6>3. QED
            BY <1>4, <3>1, <6>2
        <5>2. QED
          BY <1>9, <5>1
      <4>2. QED
        BY <1>1, <3>1, <3>3, <4>1 DEF InOrder
    <3>4. CASE /\ j - Len(outbox[s]) \in DOMAIN added
               /\ outbox'[s][j] = added[j - Len(outbox[s])]
      <4>1. j - Len(outbox[s]) = 1 /\ outbox'[s][j].call = n
        BY <1>4, <3>1, <3>4
      <4>2. i \in DOMAIN outbox[s] /\ outbox'[s][i] = outbox[s][i]
        <5>1. ~ (i - Len(outbox[s]) \in DOMAIN added /\ outbox'[s][i] = added[i - Len(outbox[s])])
          <6>1. i \in Int /\ j \in Int
            BY <1>int, <3>2
          <6>2. i - Len(outbox[s]) # 1
            BY <3>1, <3>2, <4>1, <6>1
          <6>3. QED
            BY <1>4, <3>1, <6>2
        <5>2. QED
          BY <1>9, <5>1
      <4>3. QED
        BY <1>1, <1>8, <3>1, <4>1, <4>2 DEF InOrder
    <3>5. QED
      BY <1>9, <3>3, <3>4
  <2>4. \A k \in DOMAIN bus', j \in DOMAIN mailbox'[s] : bus'[k].call < mailbox'[s][j]
    BY <1>1, <1>6, <1>7 DEF InOrder, Dispatch, history
  <2>5. \A k \in DOMAIN bus', j \in DOMAIN outbox'[s] :
          IsSignal(outbox'[s][j]) => bus'[k].call < outbox'[s][j].call
    <3>1. bus' = bus
      BY DEF Dispatch, history
    <3>2. \A k \in DOMAIN bus : bus[k].call < n
      BY <1>1, <1>8 DEF InOrder
    <3>3. QED
      BY <1>1, <1>4, <1>9, <3>1, <3>2 DEF InOrder
  <2>6. QED
    BY <2>1, <2>2, <2>3, <2>4, <2>5 DEF InOrder
<1>12. ASSUME NEW t \in Servers, t # s
       PROVE  Idle(t)' /\ InOrder(t)'
  <2>1. Idle(t)
    BY <1>1, <1>12 DEF OrderInv
  <2>2. Idle(t)'
    BY <1>5, <1>12, <2>1 DEF Idle
  <2>3. QED
    BY <2>2 DEF Idle, InOrder
<1>13. owner' = s
  BY <1>1 DEF Dispatch
<1>14. QED
  BY <1>11, <1>12, <1>13 DEF OrderInv

LEMMA WriteOrder ==
  ASSUME RelayTypeOK, OrderInv, NEW s \in Servers, Write(s)
  PROVE  OrderInv'
<1>1. owner = s /\ InOrder(s) /\ owner' = owner
  BY WriteCases DEF OrderInv, Idle
<1>2. outbox[s] \in Seq(Message) /\ outbox[s] # <<>>
  BY WriteCases DEF RelayTypeOK
<1>3. outbox'[s] = Tail(outbox[s]) /\ mailbox' = mailbox
      /\ \A t \in Servers : t # s => outbox'[t] = outbox[t]
  BY WriteCases DEF RelayTypeOK
<1>4. /\ Tail(outbox[s]) \in Seq(Message) /\ Len(Tail(outbox[s])) = Len(outbox[s]) - 1
      /\ \A j \in 1..Len(Tail(outbox[s])) : Tail(outbox[s])[j] = outbox[s][j + 1]
  BY <1>2, HeadTailProperties
<1>5. /\ DOMAIN outbox'[s] = 1..Len(outbox[s]) - 1 /\ Len(outbox[s]) \in Nat
      /\ DOMAIN outbox[s] = 1..Len(outbox[s])
  BY <1>2, <1>3, <1>4, LenProperties
<1>6. \A j \in DOMAIN outbox'[s] :
        j \in Int /\ j + 1 \in DOMAIN outbox[s] /\ 1 < j + 1 /\ outbox'[s][j] = outbox[s][j + 1]
  BY <1>3, <1>4, <1>5
<1>7. Head(outbox[s]) = outbox[s][1] /\ 1 \in DOMAIN outbox[s]
  BY <1>2
<1>8. ASSUME NEW k \in DOMAIN bus'
      PROVE  \/ k \in DOMAIN bus /\ bus'[k] = bus[k]
             \/ IsSignal(outbox[s][1]) /\ bus'[k].call = outbox[s][1].call
  <2>1. CASE WritesSignal(s)
    <3> DEFINE n     == outbox[s][1].call
               entry == [call |-> n, kind |-> Emit(calls[n].method)]
    <3>1. bus' = Append(bus, entry) /\ IsSignal(outbox[s][1]) /\ entry.call = n
      BY <1>7, <2>1 DEF WritesSignal, IsSignal
    <3>2. bus \in Seq([call : 1..Len(calls), kind : Signals])
      BY DEF RelayTypeOK
    <3>3. n \in 1..Len(calls) /\ entry \in [call : 1..Len(calls), kind : Signals]
      <4>1. n \in 1..Len(calls) /\ calls[n] \in CallRecord
        BY <1>7, WriteCases DEF RelayTypeOK
      <4>2. QED
        BY <4>1, EmitType DEF CallRecord
    <3> HIDE DEF entry
    <3>4. /\ Append(bus, entry) \in Seq([call : 1..Len(calls), kind : Signals])
          /\ Len(Append(bus, entry)) = Len(bus) + 1
          /\ \A i \in 1..Len(bus) : Append(bus, entry)[i] = bus[i]
          /\ Append(bus, entry)[Len(bus) + 1] = entry
      BY <3>2, <3>3, AppendProperties
    <3>5. /\ DOMAIN bus' = 1..Len(bus) + 1 /\ DOMAIN bus = 1..Len(bus) /\ Len(bus) \in Nat
      BY <3>1, <3>2, <3>4, LenProperties
    <3>6. CASE k = Len(bus) + 1
      BY <3>1, <3>4, <3>6
    <3>7. CASE k # Len(bus) + 1
      <4>1. k \in 1..Len(bus)
        BY <1>8, <3>5, <3>7
      <4>2. QED
        BY <3>1, <3>4, <3>5, <4>1
    <3>8. QED
      BY <3>6, <3>7
  <2>2. CASE WritesAnswer(s)
    BY <1>8, <2>2 DEF WritesAnswer, history
  <2>3. QED
    BY <2>1, <2>2, WriteCases
<1>9. InOrder(s)'
  <2>1. \A i, j \in DOMAIN mailbox'[s] : i < j => mailbox'[s][i] < mailbox'[s][j]
    BY <1>1, <1>3 DEF InOrder
  <2>2. \A i \in DOMAIN outbox'[s], j \in DOMAIN mailbox'[s] :
          IsSignal(outbox'[s][i]) => outbox'[s][i].call < mailbox'[s][j]
    BY <1>1, <1>3, <1>6 DEF InOrder
  <2>3. ASSUME NEW i \in DOMAIN outbox'[s], NEW j \in DOMAIN outbox'[s], i < j,
               IsSignal(outbox'[s][i]), IsSignal(outbox'[s][j])
        PROVE  outbox'[s][i].call < outbox'[s][j].call
    <3>1. i + 1 < j + 1
      BY <1>6, <2>3
    <3>2. QED
      BY <1>1, <1>6, <2>3, <3>1 DEF InOrder
  <2>4. \A k \in DOMAIN bus', j \in DOMAIN mailbox'[s] : bus'[k].call < mailbox'[s][j]
    BY <1>1, <1>3, <1>7, <1>8 DEF InOrder
  <2>5. ASSUME NEW k \in DOMAIN bus', NEW j \in DOMAIN outbox'[s], IsSignal(outbox'[s][j])
        PROVE  bus'[k].call < outbox'[s][j].call
    BY <1>1, <1>6, <1>7, <1>8, <2>5 DEF InOrder
  <2>6. QED
    BY <2>1, <2>2, <2>3, <2>4, <2>5 DEF InOrder
<1>10. ASSUME NEW t \in Servers, t # s
       PROVE  Idle(t)' /\ InOrder(t)'
  <2>1. Idle(t)'
    BY <1>1, <1>3, <1>10 DEF OrderInv, Idle
  <2>2. QED
    BY <2>1 DEF Idle, InOrder
<1>11. QED
  BY <1>1, <1>9, <1>10 DEF OrderInv

LEMMA CallOrder ==
  ASSUME RelayTypeOK, OrderInv, NEW u \in Callers, NEW method \in Methods, Call(u, method)
  PROVE  OrderInv'
<1> DEFINE n == Len(calls) + 1
<1>1. UNCHANGED <<owner, outbox, bus>> /\ Len(calls) \in Nat
  BY DEF Call, history, RelayTypeOK
<1>2. CASE owner = Nobody
  BY <1>1, <1>2, OrderKept DEF Call
<1>3. CASE owner \in Servers
  <2>1. InOrder(owner) /\ mailbox' = [mailbox EXCEPT ![owner] = Append(mailbox[owner], n)]
    BY <1>3, RelayAssumption DEF OrderInv, Call
  <2>2. mailbox[owner] \in Seq(1..Len(calls)) /\ outbox[owner] \in Seq(Message)
        /\ bus \in Seq([call : 1..Len(calls), kind : Signals])
    BY <1>3 DEF RelayTypeOK
  <2>3. mailbox'[owner] = Append(mailbox[owner], n)
        /\ \A t \in Servers : t # owner => mailbox'[t] = mailbox[t]
    BY <1>3, <2>1 DEF RelayTypeOK
  <2>4. /\ \A k \in DOMAIN bus : bus[k].call < n
        /\ \A i \in DOMAIN outbox[owner] : outbox[owner][i].call < n
        /\ \A i \in DOMAIN mailbox[owner] : mailbox[owner][i] < n
    <3>1. ASSUME NEW k \in DOMAIN bus PROVE bus[k].call < n
      <4>1. bus[k] \in [call : 1..Len(calls), kind : Signals]
        BY <2>2, LenProperties, ElementOfSeq
      <4>2. QED
        BY <1>1, <4>1
    <3>2. ASSUME NEW i \in DOMAIN outbox[owner] PROVE outbox[owner][i].call < n
      <4>1. outbox[owner][i] \in Message
        BY <2>2
      <4>2. QED
        BY <1>1, <4>1 DEF Message
    <3>3. ASSUME NEW i \in DOMAIN mailbox[owner] PROVE mailbox[owner][i] < n
      <4>1. mailbox[owner][i] \in 1..Len(calls)
        BY <2>2
      <4>2. QED
        BY <1>1, <4>1
    <3>4. QED
      BY <3>1, <3>2, <3>3
  <2>5. /\ DOMAIN mailbox[owner] = 1..Len(mailbox[owner]) /\ Len(mailbox[owner]) \in Nat
        /\ DOMAIN mailbox'[owner] = 1..Len(mailbox[owner]) + 1
        /\ \A i \in DOMAIN mailbox[owner] : mailbox'[owner][i] = mailbox[owner][i]
        /\ mailbox'[owner][Len(mailbox[owner]) + 1] = n
    <3>1. mailbox[owner] \in Seq(Nat) /\ n \in Nat
      BY <1>1, <2>2, SeqMonotonic
    <3> HIDE DEF n
    <3>2. QED
      BY <2>3, <3>1, AppendProperties, LenProperties
  <2>6. ASSUME NEW j \in DOMAIN mailbox'[owner]
        PROVE  \/ j \in DOMAIN mailbox[owner] /\ mailbox'[owner][j] = mailbox[owner][j]
               \/ j = Len(mailbox[owner]) + 1 /\ mailbox'[owner][j] = n
    <3>1. CASE j = Len(mailbox[owner]) + 1
      BY <2>5, <3>1
    <3>2. CASE j # Len(mailbox[owner]) + 1
      <4>1. j \in 1..Len(mailbox[owner])
        BY <2>5, <2>6, <3>2
      <4>2. QED
        BY <2>5, <4>1
    <3>3. QED
      BY <3>1, <3>2
  <2> HIDE DEF n
  <2>7. ASSUME NEW i \in DOMAIN mailbox'[owner], NEW j \in DOMAIN mailbox'[owner], i < j
        PROVE  mailbox'[owner][i] < mailbox'[owner][j]
    <3>1. i # Len(mailbox[owner]) + 1
      BY <2>5, <2>7
    <3>2. i \in DOMAIN mailbox[owner] /\ mailbox'[owner][i] = mailbox[owner][i]
      BY <2>6, <3>1
    <3>3. QED
      BY <2>1, <2>4, <2>6, <2>7, <3>2 DEF InOrder
  <2>8. \A i \in DOMAIN outbox'[owner], j \in DOMAIN mailbox'[owner] :
          IsSignal(outbox'[owner][i]) => outbox'[owner][i].call < mailbox'[owner][j]
    BY <1>1, <2>1, <2>4, <2>6 DEF InOrder
  <2>9. \A k \in DOMAIN bus', j \in DOMAIN mailbox'[owner] :
          bus'[k].call < mailbox'[owner][j]
    BY <1>1, <2>1, <2>4, <2>6 DEF InOrder
  <2>10. ASSUME NEW t \in Servers, t = owner
         PROVE  InOrder(t)'
    <3>1. /\ \A i, j \in DOMAIN outbox'[t] :
               i < j /\ IsSignal(outbox'[t][i]) /\ IsSignal(outbox'[t][j])
                 => outbox'[t][i].call < outbox'[t][j].call
          /\ \A k \in DOMAIN bus', j \in DOMAIN outbox'[t] :
               IsSignal(outbox'[t][j]) => bus'[k].call < outbox'[t][j].call
      BY <1>1, <2>1, <2>10 DEF InOrder
    <3>2. QED
      BY <2>7, <2>8, <2>9, <2>10, <3>1 DEF InOrder
  <2>11. ASSUME NEW t \in Servers, t # owner
         PROVE  Idle(t)' /\ InOrder(t)'
    BY <1>1, <2>3, <2>11 DEF OrderInv, Idle, InOrder
  <2>12. QED
    BY <1>1, <2>10, <2>11 DEF OrderInv
<1>4. QED
  BY <1>2, <1>3 DEF RelayTypeOK

LEMMA StepOrder ==
  ASSUME RelayTypeOK, OrderInv, [Next]_vars
  PROVE  OrderInv'
<1>1. CASE UNCHANGED <<owner, mailbox, outbox, bus>>
  BY <1>1, OrderKept
<1>2. ASSUME NEW s \in Servers, Serves(s) \/ Start(s) \/ exit_handler(s)
      PROVE  OrderInv'
  <2>1. CASE on_name_acquired(s) /\ ~ Exit(s)
    BY <1>1, <2>1 DEF on_name_acquired, Exports, history
  <2>2. QED
    BY <1>2, <2>1, ExitOrder, StartOrder, DispatchOrder, WriteOrder
       DEF Serves, on_name_acquired, Exports, on_name_lost, exit_handler
<1>3. ASSUME NEW u \in Clients, Uses(u)
      PROVE  OrderInv'
  <2>1. u \in Callers /\ Triggered \subseteq Methods
    BY RelayAssumption DEF Callers
  <2>2. CASE \E method \in Triggered : Call(u, method)
    BY <2>1, <2>2, CallOrder
  <2>3. CASE connect_dbus_client(u) \/ close_dbus_client(u) \/ Return(u) \/ Timeout(u)
    BY <1>1, <2>3 DEF connect_dbus_client, close_dbus_client, Return, Timeout, history
  <2>4. QED
    BY <1>3, <2>2, <2>3 DEF Uses
<1>4. CASE Notifies
  <2>1. Daemon \in Callers /\ "ReturnStatus" \in Methods
    BY DEF Callers, Methods
  <2>2. CASE gsd_listener \/ Notified \/ Timeout(Daemon) \/ DaemonEnds
    BY <1>1, <2>2 DEF gsd_listener, Notified, Timeout, DaemonEnds, history
  <2>3. QED
    BY <1>4, <2>1, <2>2, CallOrder DEF Notifies
<1>5. CASE UNCHANGED vars
  BY <1>1, <1>5 DEF vars
<1>6. QED
  BY <1>2, <1>3, <1>4, <1>5 DEF Next, Over

-----------------------------------------------------------------------------
(* The server implements its promise.                                      *)

\* A call stays whose and which it is.
SameCalls ==
  /\ DOMAIN calls' = DOMAIN calls
  /\ \A n \in DOMAIN calls : /\ calls'[n].from = calls[n].from
                             /\ calls'[n].method = calls[n].method
                             /\ calls'[n].listening = calls[n].listening

LEMMA StateKept ==
  ASSUME RelayTypeOK, NEW n \in DOMAIN calls, NEW state,
         calls' = [calls EXCEPT ![n].state = state]
  PROVE  /\ SameCalls /\ calls'[n].state = state
         /\ \A m \in DOMAIN calls : m # n => calls'[m] = calls[m]
<1>1. calls \in Seq(CallRecord) /\ calls[n] \in CallRecord
  BY DEF RelayTypeOK
<1>2. calls'[n] = [calls[n] EXCEPT !.state = state]
  BY <1>1
<1>3. /\ calls'[n].from = calls[n].from /\ calls'[n].method = calls[n].method
      /\ calls'[n].listening = calls[n].listening /\ calls'[n].state = state
  BY <1>1, <1>2 DEF CallRecord
<1>4. DOMAIN calls' = DOMAIN calls
      /\ \A m \in DOMAIN calls : m # n => calls'[m] = calls[m]
  BY <1>1
<1>5. QED
  BY <1>3, <1>4 DEF SameCalls

LEMMA ExitKept ==
  ASSUME RelayTypeOK, NEW s \in Servers, Exit(s)
  PROVE  /\ SameCalls
         /\ \A n \in DOMAIN calls : calls'[n].state \in {calls[n].state, "failed"}
<1>1. ASSUME NEW n \in DOMAIN calls
      PROVE  /\ calls'[n].from = calls[n].from
             /\ calls'[n].method = calls[n].method
             /\ calls'[n].listening = calls[n].listening
             /\ calls'[n].state \in {calls[n].state, "failed"}
  <2>1. calls[n] \in CallRecord
    BY DEF RelayTypeOK
  <2>2. calls'[n] = calls[n] \/ calls'[n] = [calls[n] EXCEPT !.state = "failed"]
    BY DEF Exit
  <2>3. QED
    BY <2>1, <2>2 DEF CallRecord
<1>2. DOMAIN calls' = DOMAIN calls
  BY DEF Exit
<1>3. QED
  BY <1>1, <1>2 DEF SameCalls

\* Whoever has an answer had one.
NoAnswer ==
  \A n \in DOMAIN calls : calls'[n].state \in {"answered", "success"} =>
                            calls[n].state \in {"answered", "success"}

\* A step that neither calls nor handles nor writes anything.
Quiet ==
  /\ SameCalls /\ NoAnswer /\ UNCHANGED history
  /\ \A s \in Servers : outbox'[s] = outbox[s] \/ outbox'[s] = <<>>

LEMMA ReturnKept ==
  ASSUME RelayTypeOK, NEW u \in Callers, NEW n \in DOMAIN calls, NEW failed \in BOOLEAN,
         calls[n].state = "failed" => failed, Completed(u, n), Result(n, failed)
  PROVE  SameCalls /\ NoAnswer
<1>1. calls[n].state \in {"answered", "failed"}
  BY DEF Completed
<1>2. /\ SameCalls /\ calls'[n].state = IF failed THEN "failure" ELSE "success"
      /\ \A m \in DOMAIN calls : m # n => calls'[m] = calls[m]
  BY StateKept DEF Result
<1>3. QED
  BY <1>1, <1>2 DEF NoAnswer

\* Every step is quiet but those of three kinds.
LEMMA StepKinds ==
  ASSUME RelayTypeOK, [Next]_vars
  PROVE  \/ \E s \in Servers : Write(s) \/ Dispatch(s)
         \/ \E u \in Callers, method \in Methods : Call(u, method)
         \/ Quiet
<1>1. calls' = calls /\ outbox' = outbox /\ history' = history => Quiet
  BY DEF Quiet, SameCalls, NoAnswer
<1>2. ASSUME NEW s \in Servers, Exit(s)
      PROVE  Quiet
  <2>1. \A t \in Servers : outbox'[t] = outbox[t] \/ outbox'[t] = <<>>
    BY <1>2 DEF Exit, RelayTypeOK
  <2>2. QED
    BY <1>2, <2>1, ExitKept DEF Exit, Quiet, NoAnswer
<1>3. ASSUME NEW s \in Servers, Serves(s) \/ Start(s) \/ exit_handler(s),
             ~ Exit(s), ~ Write(s), ~ Dispatch(s)
      PROVE  Quiet
  <2>1. Start(s) \/ OwnName(s) \/ on_name_acquired(s)
    BY <1>3 DEF Serves, exit_handler, on_name_lost
  <2>2. calls' = calls /\ outbox' = outbox /\ history' = history
    BY <1>3, <2>1 DEF Start, OwnName, on_name_acquired, Exports
  <2>3. QED
    BY <1>1, <2>2
<1>4. ASSUME NEW u \in Callers, Timeout(u)
      PROVE  Quiet
  <2>1. PICK n \in DOMAIN calls : calls' = [calls EXCEPT ![n].state = "failed"]
    BY <1>4 DEF Timeout
  <2>2. SameCalls /\ NoAnswer
    BY <2>1, StateKept DEF NoAnswer
  <2>3. QED
    BY <1>4, <2>2 DEF Timeout, Quiet
<1>5. ASSUME NEW u \in Clients, Return(u)
      PROVE  Quiet
  <2>1. u \in Callers
    BY DEF Callers
  <2>2. PICK n \in DOMAIN calls : Completed(u, n) /\ Result(n, Failed(u, n))
    BY <1>5 DEF Return
  <2>3. Failed(u, n) \in BOOLEAN /\ (calls[n].state = "failed" => Failed(u, n))
    BY DEF Failed
  <2>4. SameCalls /\ NoAnswer
    BY <2>1, <2>2, <2>3, ReturnKept
  <2>5. QED
    BY <1>5, <2>4 DEF Return, Quiet
<1>6. CASE Notified
  <2>1. PICK n \in DOMAIN calls : Completed(Daemon, n) /\ Result(n, calls[n].state = "failed")
    BY <1>6 DEF Notified
  <2>2. (calls[n].state = "failed") \in BOOLEAN /\ Daemon \in Callers
    BY DEF Callers
  <2>3. SameCalls /\ NoAnswer
    BY <2>1, <2>2, ReturnKept
  <2>4. QED
    BY <1>6, <2>3 DEF Notified, Quiet
<1>7. CASE gsd_listener \/ DaemonEnds \/ UNCHANGED vars
  BY <1>1, <1>7 DEF gsd_listener, DaemonEnds, vars, history
<1>8. /\ Triggered \subseteq Methods /\ "ReturnStatus" \in Methods
      /\ Clients \subseteq Callers /\ Daemon \in Callers
  BY RelayAssumption DEF Callers, Methods
<1>9. ASSUME NEW u \in Clients, Uses(u)
      PROVE  \/ \E c \in Callers, method \in Methods : Call(c, method)
             \/ Quiet
  <2>1. CASE \E method \in Triggered : Call(u, method)
    BY <1>8, <2>1
  <2>2. CASE connect_dbus_client(u) \/ close_dbus_client(u)
    <3>1. calls' = calls /\ outbox' = outbox /\ history' = history
      BY <2>2 DEF connect_dbus_client, close_dbus_client
    <3>2. QED
      BY <3>1, <1>1
  <2>3. CASE Return(u)
    BY <1>5, <2>3
  <2>4. CASE Timeout(u)
    BY <1>4, <1>8, <2>4
  <2>5. QED
    BY <1>9, <2>1, <2>2, <2>3, <2>4 DEF Uses
<1>10. CASE Notifies
  BY <1>4, <1>6, <1>7, <1>8, <1>10 DEF Notifies
<1>11. CASE \E s \in Servers : Serves(s) \/ Start(s) \/ exit_handler(s)
  BY <1>2, <1>3, <1>11
<1>12. QED
  BY <1>7, <1>9, <1>10, <1>11 DEF Next, Over

Requests == [n \in DOMAIN calls |-> [from |-> calls[n].from, method |-> calls[n].method]]

LEMMA RequestsKept ==
  ASSUME SameCalls
  PROVE  Requests' = Requests
  BY DEF SameCalls, Requests

LEMMA CallAppends ==
  ASSUME RelayTypeOK, NEW u \in Callers, NEW method \in Methods, Call(u, method)
  PROVE  /\ bus' = bus
         /\ Requests' = Append(Requests, [from |-> u, method |-> method])
<1> DEFINE n   == Len(calls) + 1
           new == [from |-> u, method |-> method, to |-> owner,
                   state |-> IF owner = Nobody THEN "failed" ELSE "sent",
                   listening |-> Listening]
           request == [from |-> u, method |-> method]
<1>1. calls \in Seq(CallRecord) /\ Len(calls) \in Nat /\ DOMAIN calls = 1..Len(calls)
  BY DEF RelayTypeOK
<1>2. new \in CallRecord /\ new.from = u /\ new.method = method
  BY DEF RelayTypeOK, CallRecord, CallStates, Listening
<1>3. calls' = Append(calls, new)
  BY DEF Call
<1> HIDE DEF new
<1>4. /\ DOMAIN calls' = 1..n /\ calls'[n] = new
      /\ \A i \in 1..Len(calls) : calls'[i] = calls[i]
  BY <1>1, <1>2, <1>3, AppendProperties, LenProperties
<1>5. Requests \in Seq([from : Callers, method : Methods]) /\ Len(Requests) = Len(calls)
  <2>1. ASSUME NEW i \in 1..Len(calls)
        PROVE  [from |-> calls[i].from, method |-> calls[i].method]
                 \in [from : Callers, method : Methods]
    <3>1. calls[i] \in CallRecord
      BY <1>1
    <3>2. QED
      BY <3>1 DEF CallRecord
  <2>2. Requests = [i \in 1..Len(calls) |-> [from |-> calls[i].from, method |-> calls[i].method]]
    BY <1>1 DEF Requests
  <2>3. Requests \in [1..Len(calls) -> [from : Callers, method : Methods]]
    BY <2>1, <2>2
  <2> DEFINE R == [from : Callers, method : Methods]
  <2> HIDE DEF R
  <2>4. Requests \in [1..Len(calls) -> R]
    BY <2>3 DEF R
  <2>5. Requests \in Seq(R) /\ Len(Requests) = Len(calls)
    BY <1>1, <2>4
  <2>6. QED
    BY <2>5 DEF R
<1>6. request \in [from : Callers, method : Methods]
  OBVIOUS
<1> DEFINE longer == Append(Requests, request)
<1> HIDE DEF request
<1>7. /\ DOMAIN longer = 1..n /\ longer[n] = request
      /\ \A i \in 1..Len(calls) : longer[i] = Requests[i]
      /\ longer \in Seq([from : Callers, method : Methods])
  BY <1>1, <1>5, <1>6, AppendProperties, LenProperties
<1>8. DOMAIN Requests' = 1..n
      /\ Requests' = [i \in 1..n |-> [from |-> calls'[i].from, method |-> calls'[i].method]]
  BY <1>4 DEF Requests
<1>9. ASSUME NEW i \in 1..n
      PROVE  Requests'[i] = longer[i]
  <2>1. CASE i = n
    BY <1>2, <1>4, <1>7, <1>8, <2>1 DEF request
  <2>2. CASE i # n
    <3>1. i \in 1..Len(calls)
      BY <1>1, <2>2
    <3>2. QED
      BY <1>1, <1>4, <1>7, <1>8, <3>1 DEF Requests
  <2>3. QED
    BY <2>1, <2>2
<1>10. longer = [i \in 1..n |-> longer[i]]
  BY <1>7, LenProperties
<1>11. Requests' = longer
  BY <1>8, <1>9, <1>10
<1>12. QED
  BY <1>11 DEF request, Call, history

LEMMA MeaningIsEmit ==
  /\ DOMAIN Promise!Meaning = Methods
  /\ \A method \in Methods : Emit(method) = Promise!Meaning[method]
  BY DEF Promise!Meaning, Emit, Methods

LEMMA InitPromise == Init => Promise!Init
  BY DEF Init, Promise!Init

LEMMA StepPromise ==
  ASSUME RelayTypeOK, OrderInv, [Next]_vars
  PROVE  [Promise!Next]_<<Requests, bus>>
<1>1. CASE SameCalls /\ bus' = bus
  BY <1>1, RequestsKept
<1>2. ASSUME NEW u \in Callers, NEW method \in Methods, Call(u, method)
      PROVE  Promise!Next
  BY <1>2, CallAppends, MeaningIsEmit DEF Promise!Next, Promise!Request, Requests
<1>3. ASSUME NEW s \in Servers, Write(s), WritesAnswer(s)
      PROVE  SameCalls /\ bus' = bus
  <2>1. bus' = bus /\ Head(outbox[s]).call \in DOMAIN calls
    BY <1>3, WriteCases DEF WritesAnswer, history
  <2>2. \/ calls' = calls
        \/ \E state \in CallStates : calls' = [calls EXCEPT ![Head(outbox[s]).call].state = state]
    BY <1>3 DEF WritesAnswer, CallStates
  <2>3. CASE calls' = calls
    BY <2>1, <2>3 DEF SameCalls
  <2>4. QED
    BY <2>1, <2>2, <2>3, StateKept
<1>4. ASSUME NEW s \in Servers, Write(s), WritesSignal(s)
      PROVE  Promise!Next
  <2> DEFINE n == outbox[s][1].call
  <2>1. owner = s /\ InOrder(s)
    BY <1>4, WriteCases DEF OrderInv, Idle
  <2>2. outbox[s] \in Seq(Message) /\ outbox[s] # <<>>
    BY <1>4, WriteCases DEF RelayTypeOK
  <2>3. Head(outbox[s]) = outbox[s][1] /\ 1 \in DOMAIN outbox[s]
    BY <2>2
  <2>4. /\ IsSignal(outbox[s][1]) /\ n \in DOMAIN calls /\ calls' = calls
        /\ bus' = Append(bus, [call |-> n, kind |-> Emit(calls[n].method)])
    BY <1>4, <2>3, WriteCases DEF WritesSignal, IsSignal
  <2> HIDE DEF n
  <2>5. calls[n].method \in Methods /\ n \in Nat
    <3>1. calls[n] \in CallRecord /\ n \in 1..Len(calls)
      BY <2>4 DEF RelayTypeOK
    <3>2. QED
      BY <3>1 DEF CallRecord
  <2>6. \A k \in DOMAIN bus : bus[k].call < n
    BY <2>1, <2>3, <2>4 DEF InOrder, n
  <2>7. \A k \in DOMAIN bus : bus[k].call \in Nat
    <3>1. ASSUME NEW k \in DOMAIN bus PROVE bus[k].call \in Nat
      <4>1. bus[k] \in [call : 1..Len(calls), kind : Signals]
        BY LenProperties, ElementOfSeq DEF RelayTypeOK
      <4>2. QED
        BY <4>1
    <3>2. QED
      BY <3>1
  <2>8. Requests' = Requests /\ n \in DOMAIN Requests /\ Requests[n].method = calls[n].method
    BY <2>4 DEF Requests
  <2>9. Promise!Due(n)
    BY <2>5, <2>6, <2>7 DEF Promise!Due
  <2>10. bus' = Append(bus, [call |-> n, kind |-> Promise!Meaning[Requests[n].method]])
    BY <2>4, <2>5, <2>8, MeaningIsEmit
  <2>11. Promise!Relay
    BY <2>8, <2>9, <2>10 DEF Promise!Relay, Requests
  <2>12. QED
    BY <2>11 DEF Promise!Next
<1>5. ASSUME NEW s \in Servers, Dispatch(s)
      PROVE  SameCalls /\ bus' = bus
  BY <1>5 DEF Dispatch, history, SameCalls
<1>6. CASE Quiet
  BY <1>1, <1>6 DEF Quiet, history
<1>7. QED
  BY <1>1, <1>2, <1>3, <1>4, <1>5, <1>6, StepKinds, WriteCases

\* Every signal on the bus is somebody's call, relayed once and as its meaning,
\* those of one caller in the order of its calls, whichever servers come and go.
THEOREM RelayImplementsPromise == Spec => RelaysRequests
<1>1. RelayTypeOK /\ OrderInv /\ [Next]_vars => RelayTypeOK' /\ OrderInv'
  BY StepType, StepOrder
<1>2. RelayTypeOK /\ OrderInv /\ [Next]_vars => [Promise!Next]_<<Requests, bus>>
  BY StepPromise
<1>3. QED
  BY InitType, InitOrder, InitPromise, <1>1, <1>2, PTL
     DEF Spec, RelaysRequests, Promise!Spec, Requests

-----------------------------------------------------------------------------
(* A successful call has been heard.                                       *)

\* If the daemon listened to call n when it was made, and does now, it has
\* heard it.
Known(n) == calls[n].listening /\ Listening => n \in heard

\* A reply that is still to be written is known, or its signal is before it.
Announced(s, j) ==
  Known(outbox[s][j].call)
  \/ \E i \in DOMAIN outbox[s] :
       i < j /\ IsSignal(outbox[s][i]) /\ outbox[s][i].call = outbox[s][j].call

ListenedOnce == \A n \in DOMAIN calls : calls[n].listening => caller[Daemon] # "closed"
AnsweredIsKnown ==
  \A n \in DOMAIN calls : calls[n].state \in {"answered", "success"} => Known(n)
RepliesAreAnnounced ==
  \A s \in Servers : \A j \in DOMAIN outbox[s] :
    outbox[s][j].type = "reply" => Announced(s, j)

HeardInv == ListenedOnce /\ AnsweredIsKnown /\ RepliesAreAnnounced

LEMMA InitHeard == Init => HeardInv
  BY DEF Init, HeardInv, ListenedOnce, AnsweredIsKnown, RepliesAreAnnounced

\* The daemon starts to listen once.
ListensOn ==
  /\ Listening' => Listening \/ caller[Daemon] = "closed"
  /\ caller[Daemon] # "closed" => caller'[Daemon] # "closed"

LEMMA ListenStep ==
  ASSUME RelayTypeOK, [Next]_vars
  PROVE  ListensOn
<1>1. caller' = caller => ListensOn
  BY DEF ListensOn, Listening
<1>2. Daemon \in Callers /\ Clients \subseteq Callers /\ Daemon \notin Clients
  BY RelayAssumption DEF Callers
<1>3. ASSUME NEW s \in Servers, Serves(s) \/ Start(s) \/ exit_handler(s)
      PROVE  caller' = caller
  BY <1>3 DEF Serves, Start, exit_handler, OwnName, on_name_acquired, Exports, on_name_lost,
             Dispatch, Write, Exit
<1>4. ASSUME NEW u \in Callers, NEW method \in Methods, Call(u, method)
      PROVE  ListensOn
  BY <1>2, <1>4 DEF Call, ListensOn, Listening, RelayTypeOK
<1>5. ASSUME NEW u \in Callers, Timeout(u)
      PROVE  caller' = caller
  BY <1>5 DEF Timeout
<1>6. ASSUME NEW u \in Clients,
             connect_dbus_client(u) \/ close_dbus_client(u) \/ Return(u)
      PROVE  caller'[Daemon] = caller[Daemon]
  BY <1>2, <1>6 DEF connect_dbus_client, close_dbus_client, Return, Reports, RelayTypeOK
<1>7. CASE gsd_listener \/ Notified \/ DaemonEnds
  <2>1. CASE gsd_listener
    BY <1>2, <2>1 DEF gsd_listener, ListensOn, Listening, RelayTypeOK
  <2>2. CASE Notified
    BY <1>2, <2>2 DEF Notified, Completed, ListensOn, Listening, RelayTypeOK
  <2>3. CASE DaemonEnds
    BY <1>2, <2>3 DEF DaemonEnds, ListensOn, Listening, RelayTypeOK
  <2>4. QED
    BY <1>7, <2>1, <2>2, <2>3
<1>8. ASSUME NEW u \in Clients, Uses(u)
      PROVE  ListensOn
  <2>1. u \in Callers /\ Triggered \subseteq Methods
    BY <1>2, RelayAssumption
  <2>2. CASE \E method \in Triggered : Call(u, method)
    BY <1>4, <2>1, <2>2
  <2>3. CASE connect_dbus_client(u) \/ close_dbus_client(u) \/ Return(u)
    <3>1. caller'[Daemon] = caller[Daemon]
      BY <1>6, <2>3
    <3>2. QED
      BY <3>1 DEF ListensOn, Listening
  <2>4. CASE Timeout(u)
    BY <1>1, <1>5, <2>1, <2>4
  <2>5. QED
    BY <1>8, <2>2, <2>3, <2>4 DEF Uses
<1>9. CASE Notifies
  <2>1. "ReturnStatus" \in Methods
    BY DEF Methods
  <2>2. QED
    BY <1>1, <1>2, <1>4, <1>5, <1>7, <1>9, <2>1 DEF Notifies
<1>10. CASE UNCHANGED vars
  BY <1>1, <1>10 DEF vars
<1>11. QED
  BY <1>1, <1>3, <1>8, <1>9, <1>10 DEF Next, Over

\* What is known stays known.
LEMMA KnownKept ==
  ASSUME HeardInv, ListensOn, heard \subseteq heard', NEW n \in DOMAIN calls, Known(n),
         calls'[n].listening = calls[n].listening
  PROVE  Known(n)'
  BY DEF HeardInv, ListenedOnce, ListensOn, Known

LEMMA SameHeard ==
  ASSUME HeardInv, ListensOn, heard \subseteq heard', SameCalls, NoAnswer
  PROVE  ListenedOnce' /\ AnsweredIsKnown'
<1>1. ListenedOnce'
  BY DEF HeardInv, ListenedOnce, ListensOn, SameCalls
<1>2. ASSUME NEW n \in DOMAIN calls, calls'[n].state \in {"answered", "success"}
      PROVE  Known(n)'
  <2>1. Known(n)
    BY <1>2 DEF HeardInv, AnsweredIsKnown, NoAnswer
  <2>2. QED
    BY <2>1, KnownKept DEF SameCalls
<1>3. QED
  BY <1>1, <1>2 DEF AnsweredIsKnown, SameCalls

\* A server that keeps its messages keeps them announced.
LEMMA AnnouncedKept ==
  ASSUME RelayTypeOK, HeardInv, ListensOn, heard \subseteq heard', NEW s \in Servers,
         \A n \in DOMAIN calls : calls'[n].listening = calls[n].listening,
         outbox'[s] = outbox[s] \/ outbox'[s] = <<>>
  PROVE  \A j \in DOMAIN outbox'[s] : outbox'[s][j].type = "reply" => Announced(s, j)'
<1> SUFFICES ASSUME outbox'[s] = outbox[s], NEW j \in DOMAIN outbox[s],
                    outbox[s][j].type = "reply"
             PROVE  Announced(s, j)'
  OBVIOUS
<1>1. Announced(s, j)
  BY DEF HeardInv, RepliesAreAnnounced
<1>2. outbox[s][j].call \in DOMAIN calls
  <2>1. outbox[s][j] \in Message
    BY DEF RelayTypeOK
  <2>2. QED
    BY <2>1 DEF Message, RelayTypeOK
<1>3. Known(outbox[s][j].call) => (Known(outbox[s][j].call))'
  BY <1>2, KnownKept DEF Known
<1>4. QED
  BY <1>1, <1>3 DEF Announced

LEMMA QuietHeard ==
  ASSUME RelayTypeOK, HeardInv, ListensOn, Quiet
  PROVE  HeardInv'
<1>1. heard' = heard /\ SameCalls /\ NoAnswer
  BY DEF Quiet, history
<1>2. RepliesAreAnnounced'
  BY <1>1, AnnouncedKept DEF Quiet, SameCalls, RepliesAreAnnounced
<1>3. QED
  BY <1>1, <1>2, SameHeard DEF HeardInv

LEMMA CallHeard ==
  ASSUME RelayTypeOK, HeardInv, ListensOn, NEW u \in Callers, NEW method \in Methods,
         Call(u, method)
  PROVE  HeardInv'
<1> DEFINE n   == Len(calls) + 1
           new == [from |-> u, method |-> method, to |-> owner,
                   state |-> IF owner = Nobody THEN "failed" ELSE "sent",
                   listening |-> Listening]
<1>1. calls \in Seq(CallRecord) /\ Len(calls) \in Nat /\ DOMAIN calls = 1..Len(calls)
  BY DEF RelayTypeOK
<1>2. /\ new \in CallRecord /\ new.listening = Listening
      /\ new.state \notin {"answered", "success"}
  BY DEF RelayTypeOK, CallRecord, CallStates, Listening
<1>3. calls' = Append(calls, new) /\ outbox' = outbox /\ heard' = heard
  BY DEF Call, history
<1> HIDE DEF new
<1>4. /\ DOMAIN calls' = 1..n /\ calls'[n] = new
      /\ \A i \in 1..Len(calls) : calls'[i] = calls[i]
  BY <1>1, <1>2, <1>3, AppendProperties, LenProperties
<1>5. ASSUME NEW i \in DOMAIN calls'
      PROVE  (i \in DOMAIN calls /\ calls'[i] = calls[i]) \/ calls'[i] = new
  <2>1. CASE i = n
    BY <1>4, <2>1
  <2>2. CASE i # n
    <3>1. i \in 1..Len(calls)
      BY <1>1, <1>4, <1>5, <2>2
    <3>2. QED
      BY <1>1, <1>4, <3>1
  <2>3. QED
    BY <2>1, <2>2
<1>6. ListenedOnce'
  <2>1. Listening => caller[Daemon] # "closed"
    BY DEF Listening
  <2>2. QED
    BY <1>2, <1>5, <2>1 DEF HeardInv, ListenedOnce, ListensOn
<1>7. AnsweredIsKnown'
  <2>1. ASSUME NEW i \in DOMAIN calls', calls'[i].state \in {"answered", "success"}
        PROVE  Known(i)'
    <3>1. i \in DOMAIN calls /\ calls'[i] = calls[i]
      BY <1>2, <1>5, <2>1
    <3>2. Known(i)
      BY <2>1, <3>1 DEF HeardInv, AnsweredIsKnown
    <3>3. QED
      BY <1>3, <3>1, <3>2, KnownKept
  <2>2. QED
    BY <2>1 DEF AnsweredIsKnown
<1>8. RepliesAreAnnounced'
  BY <1>1, <1>3, <1>4, AnnouncedKept DEF RepliesAreAnnounced
<1>9. QED
  BY <1>6, <1>7, <1>8 DEF HeardInv

LEMMA DispatchHeard ==
  ASSUME RelayTypeOK, HeardInv, ListensOn, NEW s \in Servers, Dispatch(s)
  PROVE  HeardInv'
<1> DEFINE n     == Head(mailbox[s])
           added == IF server[s] = "serving" THEN Handled(n) ELSE Refused(n)
<1>1. calls' = calls /\ heard' = heard /\ SameCalls /\ NoAnswer
  BY DEF Dispatch, history, SameCalls, NoAnswer
<1>2. mailbox[s] \in Seq(1..Len(calls)) /\ mailbox[s] # <<>> /\ outbox[s] \in Seq(Message)
  BY DEF RelayTypeOK, Dispatch
<1>3. n \in 1..Len(calls)
  BY <1>2, HeadTailProperties
<1>4. /\ added \in Seq(Message)
      /\ \A j \in DOMAIN added : added[j].type = "reply" =>
           /\ 1 \in DOMAIN added /\ j > 1
           /\ IsSignal(added[1]) /\ added[1].call = added[j].call
  <2>1. \A type \in {"signal", "reply", "refusal"} : [type |-> type, call |-> n] \in Message
    BY <1>3 DEF Message
  <2> HIDE DEF n
  <2>2. Handled(n) \in Seq(Message) /\ Refused(n) \in Seq(Message)
    BY <2>1 DEF Handled, Refused
  <2>3. \A j \in DOMAIN Handled(n) : Handled(n)[j].type = "reply" =>
          /\ 1 \in DOMAIN Handled(n) /\ j > 1
          /\ IsSignal(Handled(n)[1]) /\ Handled(n)[1].call = Handled(n)[j].call
    BY DEF Handled, IsSignal
  <2>4. \A j \in DOMAIN Refused(n) : Refused(n)[j].type # "reply"
    BY DEF Refused
  <2>5. QED
    BY <2>2, <2>3, <2>4
<1>5. outbox'[s] = outbox[s] \o added /\ \A t \in Servers : t # s => outbox'[t] = outbox[t]
  BY DEF Dispatch, RelayTypeOK
<1> HIDE DEF n, added
<1> DEFINE k == Len(outbox[s])
<1>6. /\ k \in Nat /\ DOMAIN outbox[s] = 1..k
      /\ Len(added) \in Nat /\ DOMAIN added = 1..Len(added)
      /\ DOMAIN outbox'[s] = 1..k + Len(added)
      /\ \A i \in 1..k + Len(added) : outbox'[s][i] = IF i <= k THEN outbox[s][i] ELSE added[i - k]
  BY <1>2, <1>4, <1>5, ConcatProperties, LenProperties
<1>7. ASSUME NEW j \in DOMAIN outbox'[s], outbox'[s][j].type = "reply"
      PROVE  Announced(s, j)'
  <2>1. CASE j <= k
    <3>1. j \in DOMAIN outbox[s] /\ outbox'[s][j] = outbox[s][j]
      BY <1>6, <1>7, <2>1
    <3>2. Announced(s, j)
      BY <1>7, <3>1 DEF HeardInv, RepliesAreAnnounced
    <3>3. PICK m \in DOMAIN calls : m = outbox[s][j].call
      <4>1. outbox[s][j] \in Message
        BY <1>2, <3>1
      <4>2. QED
        BY <4>1 DEF Message, RelayTypeOK
    <3>4. Known(m) => Known(m)'
      BY <1>1, KnownKept
    <3>5. \A i \in DOMAIN outbox[s] : i \in DOMAIN outbox'[s] /\ outbox'[s][i] = outbox[s][i]
      BY <1>6
    <3>6. QED
      BY <3>1, <3>2, <3>3, <3>4, <3>5 DEF Announced, Known
  <2>2. CASE ~ j <= k
    <3>1. j - k \in DOMAIN added /\ outbox'[s][j] = added[j - k] /\ j \in Int
      BY <1>6, <1>7, <2>2
    <3>2. /\ 1 \in DOMAIN added /\ j - k > 1
          /\ IsSignal(added[1]) /\ added[1].call = added[j - k].call
      BY <1>4, <1>7, <3>1
    <3>3. k + 1 \in DOMAIN outbox'[s] /\ outbox'[s][k + 1] = added[1] /\ k + 1 < j
      <4> HIDE DEF k
      <4>1. /\ k + 1 \in 1..k + Len(added) /\ k + 1 < j
            /\ ~ k + 1 <= k /\ (k + 1) - k = 1
        BY <1>6, <3>1, <3>2
      <4>2. QED
        BY <1>6, <4>1
    <3>4. QED
      BY <3>1, <3>2, <3>3 DEF Announced
  <2>3. QED
    BY <2>1, <2>2
<1>8. ASSUME NEW t \in Servers
      PROVE  \A j \in DOMAIN outbox'[t] : outbox'[t][j].type = "reply" => Announced(t, j)'
  <2>1. CASE t = s
    BY <1>7, <2>1
  <2>2. CASE t # s
    BY <1>1, <1>5, <2>2, AnnouncedKept
  <2>3. QED
    BY <2>1, <2>2
<1>9. RepliesAreAnnounced'
  BY <1>8 DEF RepliesAreAnnounced
<1>10. QED
  BY <1>1, <1>9, SameHeard DEF HeardInv

LEMMA WriteHeard ==
  ASSUME RelayTypeOK, HeardInv, ListensOn, NEW s \in Servers, Write(s)
  PROVE  HeardInv'
<1>1. outbox[s] \in Seq(Message) /\ outbox[s] # <<>>
  BY WriteCases DEF RelayTypeOK
<1>2. PICK n \in DOMAIN calls :
        Head(outbox[s]) = outbox[s][1] /\ 1 \in DOMAIN outbox[s] /\ n = outbox[s][1].call
  BY <1>1, WriteCases
<1>3. caller' = caller /\ heard \subseteq heard'
      /\ (IsSignal(outbox[s][1]) /\ Listening => n \in heard')
  BY <1>2, WriteCases DEF WritesSignal, WritesAnswer, history, IsSignal
<1>4. SameCalls
  <2>1. \/ calls' = calls
        \/ \E state \in CallStates : calls' = [calls EXCEPT ![n].state = state]
    BY <1>2, WriteCases DEF WritesSignal, WritesAnswer, CallStates
  <2>2. QED
    BY <1>2, <2>1, StateKept DEF SameCalls
<1>5. \A m \in DOMAIN calls : Known(m) => Known(m)'
  BY <1>3, <1>4, KnownKept DEF SameCalls
<1>6. IsSignal(outbox[s][1]) => Known(n)'
  BY <1>2, <1>3 DEF Known, Listening
<1>7. outbox[s][1].type = "reply" => Known(n)
  <2>1. SUFFICES ASSUME outbox[s][1].type = "reply" PROVE Known(n)
    OBVIOUS
  <2>2. Announced(s, 1)
    BY <1>2, <2>1 DEF HeardInv, RepliesAreAnnounced
  <2>3. \A i \in DOMAIN outbox[s] : ~ i < 1
    BY <1>1, LenProperties
  <2>4. QED
    BY <1>2, <2>2, <2>3 DEF Announced
<1>8. AnsweredIsKnown'
  <2>1. ASSUME NEW m \in DOMAIN calls, calls'[m].state \in {"answered", "success"}
        PROVE  Known(m)'
    <3>1. CASE calls[m].state \in {"answered", "success"}
      BY <1>5, <3>1 DEF HeardInv, AnsweredIsKnown
    <3>2. CASE calls[m].state \notin {"answered", "success"}
      <4>1. WritesAnswer(s) /\ calls' # calls
        BY <2>1, <3>2, WriteCases DEF WritesSignal
      <4>2. \/ outbox[s][1].type = "reply" /\ calls' = [calls EXCEPT ![n].state = "answered"]
            \/ calls' = [calls EXCEPT ![n].state = "failed"]
        BY <1>2, <4>1 DEF WritesAnswer
      <4>3. m = n /\ outbox[s][1].type = "reply"
        BY <1>2, <2>1, <3>2, <4>2, StateKept
      <4>4. QED
        BY <1>5, <1>7, <4>3
    <3>3. QED
      BY <3>1, <3>2
  <2>2. QED
    BY <1>4, <2>1 DEF AnsweredIsKnown, SameCalls
<1>9. ListenedOnce'
  BY <1>3, <1>4 DEF HeardInv, ListenedOnce, SameCalls
<1>10. outbox'[s] = Tail(outbox[s]) /\ \A t \in Servers : t # s => outbox'[t] = outbox[t]
  BY WriteCases DEF RelayTypeOK
<1>11. /\ DOMAIN outbox[s] = 1..Len(outbox[s]) /\ Len(outbox[s]) \in Nat
       /\ DOMAIN outbox'[s] = 1..Len(outbox[s]) - 1
       /\ \A j \in 1..Len(outbox[s]) - 1 : outbox'[s][j] = outbox[s][j + 1]
  BY <1>1, <1>10, HeadTailProperties, LenProperties
<1>12. ASSUME NEW j \in DOMAIN outbox'[s], outbox'[s][j].type = "reply"
       PROVE  Announced(s, j)'
  <2>1. j + 1 \in DOMAIN outbox[s] /\ outbox'[s][j] = outbox[s][j + 1] /\ j \in Int
    BY <1>11, <1>12
  <2>2. Announced(s, j + 1)
    BY <1>12, <2>1 DEF HeardInv, RepliesAreAnnounced
  <2>3. CASE Known(outbox[s][j + 1].call)
    <3>1. PICK m \in DOMAIN calls : m = outbox[s][j + 1].call
      <4>1. outbox[s][j + 1] \in Message
        BY <1>1, <2>1
      <4>2. QED
        BY <4>1 DEF Message, RelayTypeOK
    <3>2. Known(m)'
      BY <1>5, <2>3, <3>1
    <3>3. QED
      BY <2>1, <3>1, <3>2 DEF Announced, Known
  <2>4. ASSUME NEW i \in DOMAIN outbox[s], i < j + 1, IsSignal(outbox[s][i]),
               outbox[s][i].call = outbox[s][j + 1].call
        PROVE  Announced(s, j)'
    <3>1. CASE i = 1
      BY <1>2, <1>6, <2>1, <2>4, <3>1 DEF Announced, Known
    <3>2. CASE i # 1
      <4>1. i - 1 \in DOMAIN outbox'[s] /\ i - 1 < j /\ outbox'[s][i - 1] = outbox[s][i]
        <5>1. i - 1 \in 1..Len(outbox[s]) - 1 /\ i - 1 < j /\ (i - 1) + 1 = i
          BY <1>11, <2>1, <2>4, <3>2
        <5>2. QED
          BY <1>11, <5>1
      <4>2. QED
        BY <2>1, <2>4, <4>1 DEF Announced
    <3>3. QED
      BY <3>1, <3>2
  <2>5. QED
    BY <2>2, <2>3, <2>4 DEF Announced
<1>13. ASSUME NEW t \in Servers
       PROVE  \A j \in DOMAIN outbox'[t] : outbox'[t][j].type = "reply" => Announced(t, j)'
  <2>1. CASE t = s
    BY <1>12, <2>1
  <2>2. CASE t # s
    BY <1>3, <1>4, <1>10, <2>2, AnnouncedKept DEF SameCalls
  <2>3. QED
    BY <2>1, <2>2
<1>14. RepliesAreAnnounced'
  BY <1>13 DEF RepliesAreAnnounced
<1>15. QED
  BY <1>8, <1>9, <1>14 DEF HeardInv

LEMMA StepHeard ==
  ASSUME RelayTypeOK, HeardInv, [Next]_vars
  PROVE  HeardInv'
  BY ListenStep, StepKinds, QuietHeard, CallHeard, DispatchHeard, WriteHeard

\* A trigger that returns success has reached the daemon, if that listened all
\* the time, whatever servers end or are started meanwhile.
THEOREM SuccessIsHeard == Spec => []SuccessMeansHeard
<1>1. RelayTypeOK /\ HeardInv /\ [Next]_vars => RelayTypeOK' /\ HeardInv'
  BY StepType, StepHeard
<1>2. HeardInv => SuccessMeansHeard
  BY DEF HeardInv, AnsweredIsKnown, Known, SuccessMeansHeard
<1>3. QED
  BY InitType, InitHeard, <1>1, <1>2, PTL DEF Spec
=============================================================================
