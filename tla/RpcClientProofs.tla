-------------------------- MODULE RpcClientProofs --------------------------
(***************************************************************************)
(* Theorems about RpcClient, for any set of callers, any width of request  *)
(* ids and any number of calls and connections: a call never returns the   *)
(* answer to another call.                                                 *)
(***************************************************************************)
EXTENDS RpcClient, SequenceTheorems, TLAPS

(* Only the caller that holds mutex_ is inside the exchange.                *)
Outside == {"idle", "wantCall", "wantClose"}
MutexHeld == \A k \in Callers : cpc[k] \notin Outside <=> holder = k

(* What the open connection carries, at each point of the exchange.         *)
Clean(e) == toServer[e] = <<>> /\ toClient[e] = <<>>
RequestOut(e) ==
  /\ Len(toServer[e]) = 1 /\ toServer[e][1].serial = calls
  /\ toClient[e] = <<>>
AnswerIn(e) ==
  /\ toServer[e] = <<>>
  /\ Len(toClient[e]) = 2
  /\ toClient[e][1].serial = calls /\ toClient[e][2].serial = calls
PayloadIn(e) ==
  /\ toServer[e] = <<>>
  /\ Len(toClient[e]) = 1 /\ toClient[e][1].serial = calls

(* Connections not opened yet carry nothing, so a new one starts clean.     *)
UnopenedClean == fd <= epochs /\ \A e \in Epochs : e > epochs => Clean(e)

IdleClean == holder = "none" /\ fd # 0 => Clean(fd)

(* The exchange of the caller that holds the mutex.                         *)
Exchange(k) ==
  /\ cpc[k] = "locked" /\ fd # 0 => Clean(fd)
  /\ cpc[k] = "connected" => fd # 0 /\ Clean(fd)
  /\ cpc[k] = "sent" => fd # 0 /\ (RequestOut(fd) \/ AnswerIn(fd))
  /\ cpc[k] = "gotHeader" => fd # 0 /\ PayloadIn(fd)

ClientInv ==
  TypeOK /\ MutexHeld /\ UnopenedClean /\ IdleClean /\ \A k \in Callers : Exchange(k)

-----------------------------------------------------------------------------
(* Taking the only element leaves nothing.                                  *)
LEMMA SingletonTail ==
  ASSUME NEW S, NEW s \in Seq(S), Len(s) = 1
  PROVE  s # <<>> /\ Head(s) = s[1] /\ Tail(s) = <<>>
<1>1. s # <<>>
  BY EmptySeq
<1>2. Tail(s) \in Seq(S) /\ Len(Tail(s)) = 0
  BY <1>1, HeadTailProperties
<1>3. Tail(s) = <<>>
  BY <1>2, EmptySeq
<1>. QED
  BY <1>1, <1>3

(* The initial state satisfies the invariant.                               *)
LEMMA InitClientInv == Init => ClientInv
<1>. SUFFICES ASSUME Init PROVE ClientInv
  OBVIOUS
<1>1. TypeOK
  <2>1. /\ toServer \in [Epochs -> Seq(Request)]
        /\ toClient \in [Epochs -> Seq(Header \cup Payload)]
        /\ outcome \in Seq(Nat)
    BY DEF Init
  <2>2. eof \in SUBSET Epochs
    BY Zenon DEF Init
  <2>3. /\ holder \in Callers \cup {"none"} /\ fd \in 0..MaxEpochs
        /\ epochs \in 0..MaxEpochs /\ nextId \in Ids /\ cur \in Ids
        /\ calls \in 0..MaxCalls
    BY ClientAssumption DEF Init
  <2>4. cpc \in [Callers -> {"idle", "wantCall", "wantClose", "locked",
                             "connected", "sent", "gotHeader"}]
    BY DEF Init
  <2>. QED
    BY <2>1, <2>2, <2>3, <2>4 DEF TypeOK
<1>2. MutexHeld /\ \A k \in Callers : Exchange(k)
  BY ClientAssumption DEF Init, MutexHeld, Outside, Exchange
<1>3. UnopenedClean /\ IdleClean
  BY DEF Init, UnopenedClean, IdleClean, Clean
<1>. QED
  BY <1>1, <1>2, <1>3 DEF ClientInv

(* nextRequestId() skips zero and stays below the modulus.                  *)
LEMMA SuccessorIsId == \A id \in Ids : Successor(id) \in Ids
  BY ClientAssumption DEF Ids, Successor

(* The open connection is one of the epochs.                                *)
LEMMA OpenIsEpoch == TypeOK /\ fd # 0 => fd \in Epochs
  BY ClientAssumption DEF TypeOK, Epochs

(* Every step keeps the variables well typed.                               *)
LEMMA TypeStep == ClientInv /\ [Next]_vars => TypeOK'
<1>. SUFFICES ASSUME ClientInv, [Next]_vars PROVE TypeOK'
  OBVIOUS
<1>. TypeOK
  BY DEF ClientInv
<1>. USE ClientAssumption DEF wire
<1>1. ASSUME NEW k \in Callers, CallBegins(k) \/ CloseBegins(k) PROVE TypeOK'
  BY <1>1 DEF TypeOK, CallBegins, CloseBegins, Goto
<1>2. ASSUME NEW k \in Callers, Locks(k) PROVE TypeOK'
  BY <1>2 DEF TypeOK, Locks, Goto
<1>3. ASSUME NEW k \in Callers, Closes(k) PROVE TypeOK'
  BY <1>3 DEF TypeOK, Closes, Goto
<1>4. ASSUME NEW k \in Callers, Connects(k) PROVE TypeOK'
  BY <1>4 DEF TypeOK, Connects, Goto
<1>5. ASSUME NEW k \in Callers, FailAndClose(k) PROVE TypeOK'
  BY <1>5 DEF TypeOK, FailAndClose, Return, Goto
<1>6. ASSUME NEW k \in Callers, NotEncodable(k) PROVE TypeOK'
  BY <1>6 DEF TypeOK, NotEncodable, Return, Goto
<1>7. ASSUME NEW k \in Callers, Sends(k) PROVE TypeOK'
  <2>. DEFINE r == [id |-> nextId, serial |-> calls]
  <2>1. r \in Request
    BY DEF TypeOK, Request
  <2>2. fd \in Epochs
    BY <1>7, OpenIsEpoch DEF Sends, ClientInv, Exchange
  <2>3. Append(toServer[fd], r) \in Seq(Request)
    BY <2>1, <2>2, AppendProperties DEF TypeOK
  <2>4. toServer' \in [Epochs -> Seq(Request)]
    BY <1>7, <2>3 DEF Sends, TypeOK
  <2>5. nextId' \in Ids /\ cur' \in Ids
    BY <1>7, SuccessorIsId DEF Sends, TypeOK
  <2>. QED
    BY <1>7, <2>4, <2>5 DEF TypeOK, Sends, Goto
<1>8. ASSUME NEW k \in Callers, SendFails(k) PROVE TypeOK'
  <2>1. nextId' \in Ids /\ cur' \in Ids
    BY <1>8, SuccessorIsId DEF SendFails, TypeOK
  <2>. QED
    BY <1>8, <2>1 DEF TypeOK, SendFails, Return, Goto
<1>9. ASSUME NEW k \in Callers, ReadsHeader(k) \/ ReadsPayload(k) PROVE TypeOK'
  <2>1. fd \in Epochs
    BY <1>9, OpenIsEpoch DEF ReadsHeader, ReadsPayload, ClientInv, Exchange
  <2>2. toClient[fd] \in Seq(Header \cup Payload) /\ toClient[fd] # <<>>
    BY <1>9, <2>1 DEF ReadsHeader, ReadsPayload, Incoming, TypeOK
  <2>3. Tail(toClient[fd]) \in Seq(Header \cup Payload)
    BY <2>2, HeadTailProperties
  <2>4. toClient' \in [Epochs -> Seq(Header \cup Payload)]
    BY <1>9, <2>3 DEF ReadsHeader, ReadsPayload, Consume, TypeOK
  <2>5. Head(toClient[fd]) \in Header \cup Payload
    BY <2>2, HeadTailProperties
  <2>6. Head(toClient[fd]).serial \in Nat
    BY <2>5 DEF Header, Payload
  <2>7. outcome' \in Seq(Nat)
    <3>1. Append(outcome, Head(toClient[fd]).serial) \in Seq(Nat)
      BY <2>6, AppendProperties DEF TypeOK
    <3>2. outcome' = outcome \/ outcome' = Append(outcome, Head(toClient[fd]).serial)
      BY <1>9 DEF ReadsHeader, ReadsPayload, Incoming
    <3>. QED
      BY <3>1, <3>2 DEF TypeOK
  <2>8. /\ holder' \in Callers \cup {"none"}
        /\ cpc' \in [Callers -> {"idle", "wantCall", "wantClose", "locked",
                                 "connected", "sent", "gotHeader"}]
    BY <1>9 DEF TypeOK, ReadsHeader, ReadsPayload, Return, Goto
  <2>9. UNCHANGED <<fd, epochs, nextId, calls, cur, toServer, eof>>
    BY <1>9 DEF ReadsHeader, ReadsPayload
  <2>. QED
    BY <2>4, <2>7, <2>8, <2>9 DEF TypeOK
<1>10. ASSUME NEW e \in Epochs, ServerAnswers(e) PROVE TypeOK'
  <2>1. toServer[e] \in Seq(Request) /\ toServer[e] # <<>> /\ toClient[e] \in Seq(Header \cup Payload)
    BY <1>10 DEF ServerAnswers, TypeOK
  <2>2. Head(toServer[e]) \in Request /\ Tail(toServer[e]) \in Seq(Request)
    BY <2>1, HeadTailProperties
  <2>3. PICK kind \in Kinds :
          toClient' = [toClient EXCEPT ![e] = @ \o
            <<[part |-> "header", id |-> Head(toServer[e]).id,
               serial |-> Head(toServer[e]).serial, kind |-> kind],
              [part |-> "payload", id |-> Head(toServer[e]).id,
               serial |-> Head(toServer[e]).serial, kind |-> kind]>>]
    BY <1>10 DEF ServerAnswers
  <2>. DEFINE h == [part |-> "header", id |-> Head(toServer[e]).id,
                    serial |-> Head(toServer[e]).serial, kind |-> kind]
              p == [part |-> "payload", id |-> Head(toServer[e]).id,
                    serial |-> Head(toServer[e]).serial, kind |-> kind]
  <2>4. h \in Header /\ p \in Payload
    BY <2>2 DEF Request, Header, Payload
  <2>. HIDE DEF h, p
  <2>5. <<h, p>> \in Seq(Header \cup Payload)
    BY <2>4
  <2>6. toClient[e] \o <<h, p>> \in Seq(Header \cup Payload)
    BY <2>1, <2>5, ConcatProperties
  <2>7. toClient' \in [Epochs -> Seq(Header \cup Payload)]
    BY <2>3, <2>6 DEF h, p, TypeOK
  <2>8. toServer' \in [Epochs -> Seq(Request)]
    BY <1>10, <2>2 DEF ServerAnswers, TypeOK
  <2>. QED
    BY <1>10, <2>7, <2>8 DEF ServerAnswers, TypeOK
<1>11. ASSUME NEW e \in Epochs, ServerCloses(e) PROVE TypeOK'
  BY <1>11 DEF TypeOK, ServerCloses
<1>12. CASE UNCHANGED vars
  BY <1>12 DEF TypeOK, vars
<1>. QED
  BY <1>1, <1>2, <1>3, <1>4, <1>5, <1>6, <1>7, <1>8, <1>9, <1>10, <1>11, <1>12
  DEF Next, Caller, Proceeds, ConnectFails, HeaderRejected, PayloadRejected, ReadFails

-----------------------------------------------------------------------------
(* The mutex.                                                               *)
LEMMA MutexStep == ClientInv /\ [Next]_vars => MutexHeld'
<1>. SUFFICES ASSUME ClientInv, [Next]_vars PROVE MutexHeld'
  OBVIOUS
<1>. TypeOK /\ MutexHeld
  BY DEF ClientInv
<1>. USE ClientAssumption DEF TypeOK, MutexHeld, Outside
<1>1. ASSUME NEW k \in Callers,
             CallBegins(k) \/ CloseBegins(k) \/ Closes(k)
      PROVE  MutexHeld'
  BY <1>1 DEF CallBegins, CloseBegins, Closes, Goto
<1>2. ASSUME NEW k \in Callers, Locks(k) PROVE MutexHeld'
  BY <1>2 DEF Locks, Goto
<1>3. ASSUME NEW k \in Callers, Connects(k) \/ Sends(k) \/ ReadsHeader(k)
      PROVE  MutexHeld'
  BY <1>3 DEF Connects, Sends, ReadsHeader, Goto
<1>4. ASSUME NEW k \in Callers, cpc[k] \notin Outside, Return(k) PROVE MutexHeld'
  BY <1>4 DEF Return, Goto
<1>5. ASSUME NEW k \in Callers, Proceeds(k),
             ~(Connects(k) \/ Sends(k) \/ ReadsHeader(k))
      PROVE  cpc[k] \notin Outside /\ Return(k)
  BY <1>5 DEF Proceeds, ConnectFails, NotEncodable, SendFails, HeaderRejected,
              ReadsPayload, PayloadRejected, ReadFails, FailAndClose
<1>6. ASSUME NEW e \in Epochs, ServerAnswers(e) \/ ServerCloses(e) PROVE MutexHeld'
  BY <1>6 DEF ServerAnswers, ServerCloses
<1>7. CASE UNCHANGED vars
  BY <1>7 DEF vars
<1>. QED
  BY <1>1, <1>2, <1>3, <1>4, <1>5, <1>6, <1>7 DEF Next, Caller

(* Any failure after the mutex was taken leaves no connection behind, so    *)
(* nothing is said of its contents.                                         *)
LEMMA AfterClose ==
  ASSUME ClientInv, MutexHeld', fd' = 0, holder' = "none",
         UNCHANGED <<epochs, toServer, toClient>>
  PROVE  UnopenedClean' /\ IdleClean' /\ \A k \in Callers : Exchange(k)'
<1>1. \A k \in Callers : cpc'[k] \in Outside
  BY ClientAssumption DEF MutexHeld
<1>2. \A k \in Callers : Exchange(k)'
  BY <1>1 DEF Exchange, Outside
<1>3. UnopenedClean' /\ IdleClean'
  BY DEF ClientInv, TypeOK, UnopenedClean, IdleClean, Clean
<1>. QED
  BY <1>2, <1>3

(* A step of a caller that does not hold the mutex, and that touches        *)
(* neither the connection nor the exchange of the one that does.            *)
LEMMA ElsewhereStep ==
  ASSUME ClientInv, NEW k \in Callers,
         cpc[k] \in Outside, cpc'[k] \in Outside,
         \A j \in Callers : j # k => cpc'[j] = cpc[j],
         UNCHANGED <<holder, fd, epochs, calls, toServer, toClient>>
  PROVE  UnopenedClean' /\ IdleClean' /\ \A j \in Callers : Exchange(j)'
<1>1. UnopenedClean' /\ IdleClean'
  BY DEF ClientInv, UnopenedClean, IdleClean, Clean
<1>2. ASSUME NEW j \in Callers, j # k PROVE Exchange(j)'
  BY <1>2 DEF ClientInv, Exchange, Clean, RequestOut, AnswerIn, PayloadIn
<1>3. Exchange(k)'
  BY DEF Exchange, Outside
<1>. QED
  BY <1>1, <1>2, <1>3

(* Every step keeps what is known of the connections.                       *)
LEMMA WireStep ==
  ClientInv /\ [Next]_vars => UnopenedClean' /\ IdleClean' /\ \A k \in Callers : Exchange(k)'
<1>. SUFFICES ASSUME ClientInv, [Next]_vars
              PROVE  UnopenedClean' /\ IdleClean' /\ \A k \in Callers : Exchange(k)'
  OBVIOUS
<1>. DEFINE Goal == UnopenedClean' /\ IdleClean' /\ \A k \in Callers : Exchange(k)'
<1>. TypeOK /\ MutexHeld /\ UnopenedClean /\ IdleClean /\ MutexHeld' /\ TypeOK'
  BY MutexStep, TypeStep DEF ClientInv
<1>. USE DEF wire
<1>1. ASSUME NEW k \in Callers, CallBegins(k) \/ CloseBegins(k) PROVE Goal
  <2>1. /\ cpc[k] \in Outside /\ cpc'[k] \in Outside
        /\ \A j \in Callers : j # k => cpc'[j] = cpc[j]
        /\ UNCHANGED <<holder, fd, epochs, calls, toServer, toClient>>
    BY <1>1 DEF CallBegins, CloseBegins, Goto, Outside, TypeOK
  <2>. QED
    BY <2>1, ElsewhereStep
<1>2. ASSUME NEW k \in Callers, Locks(k) PROVE Goal
  <2>1. /\ holder = "none" /\ holder' = k /\ cpc'[k] = "locked"
        /\ UNCHANGED <<fd, epochs, toServer, toClient>>
    BY <1>2 DEF Locks, Goto, TypeOK
  <2>2. \A j \in Callers : j # k => cpc'[j] \in Outside
    BY <2>1 DEF MutexHeld
  <2>3. fd # 0 => Clean(fd)
    BY <2>1 DEF IdleClean
  <2>4. \A j \in Callers : Exchange(j)'
    BY <2>1, <2>2, <2>3 DEF Exchange, Clean, Outside
  <2>5. UnopenedClean' /\ IdleClean'
    BY <2>1, ClientAssumption DEF UnopenedClean, IdleClean, Clean
  <2>. QED
    BY <2>4, <2>5
<1>3. ASSUME NEW k \in Callers, Closes(k) PROVE Goal
  <2>1. fd' = 0 /\ holder' = "none" /\ UNCHANGED <<epochs, toServer, toClient>>
    BY <1>3 DEF Closes
  <2>. QED
    BY <2>1, AfterClose
<1>4. ASSUME NEW k \in Callers, Connects(k) PROVE Goal
  <2>1. /\ cpc[k] = "locked" /\ cpc'[k] = "connected" /\ holder = k /\ holder' = k
        /\ UNCHANGED <<toServer, toClient>>
    BY <1>4 DEF Connects, Goto, TypeOK, MutexHeld, Outside
  <2>2. fd' # 0 /\ Clean(fd') /\ fd' <= epochs' /\ epochs' >= epochs
    <3>1. CASE fd # 0
      BY <1>4, <2>1, <3>1 DEF Connects, ClientInv, Exchange, UnopenedClean, TypeOK
    <3>2. CASE fd = 0
      <4>1. fd' = epochs + 1 /\ epochs' = epochs + 1 /\ epochs + 1 \in Epochs
        BY <1>4, <3>2, ClientAssumption DEF Connects, TypeOK, Epochs
      <4>. QED
        BY <4>1 DEF UnopenedClean, TypeOK
    <3>. QED
      BY <3>1, <3>2
  <2>3. \A j \in Callers : j # k => cpc'[j] \in Outside
    BY <2>1 DEF MutexHeld
  <2>4. \A j \in Callers : Exchange(j)'
    BY <2>1, <2>2, <2>3 DEF Exchange, Clean, Outside
  <2>5. IdleClean'
    BY <2>1, ClientAssumption DEF IdleClean
  <2>6. UnopenedClean'
    BY <2>1, <2>2 DEF UnopenedClean, Clean, TypeOK, Epochs
  <2>. QED
    BY <2>4, <2>5, <2>6
<1>5. ASSUME NEW k \in Callers, FailAndClose(k) \/ SendFails(k) PROVE Goal
  <2>1. fd' = 0 /\ holder' = "none" /\ UNCHANGED <<epochs, toServer, toClient>>
    BY <1>5 DEF FailAndClose, SendFails, Return
  <2>. QED
    BY <2>1, AfterClose
<1>6. ASSUME NEW k \in Callers, NotEncodable(k) PROVE Goal
  <2>1. /\ cpc[k] = "connected" /\ holder' = "none"
        /\ UNCHANGED <<fd, epochs, toServer, toClient>>
    BY <1>6 DEF NotEncodable, Return
  <2>2. Clean(fd)
    BY <2>1 DEF ClientInv, Exchange
  <2>3. \A j \in Callers : cpc'[j] \in Outside
    BY <2>1, ClientAssumption DEF MutexHeld
  <2>4. \A j \in Callers : Exchange(j)'
    BY <2>3 DEF Exchange, Outside
  <2>5. UnopenedClean' /\ IdleClean'
    BY <2>1, <2>2 DEF UnopenedClean, IdleClean, Clean
  <2>. QED
    BY <2>4, <2>5
<1>7. ASSUME NEW k \in Callers, Sends(k) PROVE Goal
  <2>. DEFINE r == [id |-> nextId, serial |-> calls]
  <2>1. /\ cpc[k] = "connected" /\ cpc'[k] = "sent" /\ holder = k /\ holder' = k
        /\ UNCHANGED <<fd, epochs, calls, toClient>>
        /\ toServer' = [toServer EXCEPT ![fd] = Append(@, r)]
    BY <1>7 DEF Sends, Goto, TypeOK, MutexHeld, Outside
  <2>2. fd # 0 /\ Clean(fd) /\ fd \in Epochs
    BY <2>1, OpenIsEpoch DEF ClientInv, Exchange
  <2>3. toServer'[fd] = Append(<<>>, r) /\ r.serial = calls
    BY <2>1, <2>2 DEF Clean, TypeOK
  <2>4. RequestOut(fd)'
    <3>1. Len(toServer'[fd]) = 1 /\ toServer'[fd][1] = r
      BY <2>3
    <3>. QED
      BY <2>1, <2>2, <2>3, <3>1 DEF RequestOut, Clean
  <2>5. \A j \in Callers : j # k => cpc'[j] \in Outside
    BY <2>1 DEF MutexHeld
  <2>6. \A j \in Callers : Exchange(j)'
    BY <2>1, <2>2, <2>4, <2>5 DEF Exchange, Outside
  <2>7. \A e \in Epochs : e # fd => toServer'[e] = toServer[e]
    BY <2>1 DEF TypeOK
  <2>8. IdleClean' /\ fd <= epochs
    BY <2>1, ClientAssumption DEF UnopenedClean, IdleClean
  <2>9. UnopenedClean'
    BY <2>1, <2>7, <2>8 DEF UnopenedClean, Clean, TypeOK, Epochs
  <2>. QED
    BY <2>6, <2>8, <2>9
<1>8. ASSUME NEW k \in Callers, ReadsHeader(k) PROVE Goal
  <2>1. /\ cpc[k] = "sent" /\ cpc'[k] = "gotHeader" /\ holder = k /\ holder' = k
        /\ UNCHANGED <<fd, epochs, calls, toServer>>
        /\ toClient' = [toClient EXCEPT ![fd] = Tail(@)] /\ toClient[fd] # <<>>
    BY <1>8 DEF ReadsHeader, Goto, Consume, Incoming, TypeOK, MutexHeld, Outside
  <2>2. fd # 0 /\ AnswerIn(fd) /\ fd \in Epochs
    BY <2>1, OpenIsEpoch DEF ClientInv, Exchange, RequestOut
  <2>3. toClient'[fd] = Tail(toClient[fd]) /\ toClient[fd] \in Seq(Header \cup Payload)
    BY <2>1, <2>2 DEF TypeOK
  <2>4. Len(Tail(toClient[fd])) = 1 /\ Tail(toClient[fd])[1] = toClient[fd][2]
    BY <2>1, <2>2, <2>3, HeadTailProperties DEF AnswerIn
  <2>5. PayloadIn(fd)'
    BY <2>1, <2>2, <2>3, <2>4 DEF PayloadIn, AnswerIn
  <2>6. \A j \in Callers : j # k => cpc'[j] \in Outside
    BY <2>1 DEF MutexHeld
  <2>7. \A j \in Callers : Exchange(j)'
    BY <2>1, <2>2, <2>5, <2>6 DEF Exchange, Outside
  <2>8. \A e \in Epochs : e # fd => toClient'[e] = toClient[e]
    BY <2>1 DEF TypeOK
  <2>9. UnopenedClean' /\ IdleClean'
    BY <2>1, <2>2, <2>8, ClientAssumption DEF UnopenedClean, IdleClean, Clean, TypeOK, Epochs
  <2>. QED
    BY <2>7, <2>9
<1>9. ASSUME NEW k \in Callers, ReadsPayload(k) PROVE Goal
  <2>1. /\ cpc[k] = "gotHeader" /\ holder' = "none"
        /\ UNCHANGED <<fd, epochs, calls, toServer>>
        /\ toClient' = [toClient EXCEPT ![fd] = Tail(@)] /\ toClient[fd] # <<>>
    BY <1>9 DEF ReadsPayload, Return, Consume, Incoming
  <2>2. fd # 0 /\ PayloadIn(fd) /\ fd \in Epochs
    BY <2>1, OpenIsEpoch DEF ClientInv, Exchange
  <2>3. toClient'[fd] = Tail(toClient[fd]) /\ toClient[fd] \in Seq(Header \cup Payload)
    BY <2>1, <2>2 DEF TypeOK
  <2>4. Tail(toClient[fd]) = <<>>
    BY <2>2, <2>3, SingletonTail DEF PayloadIn
  <2>5. Clean(fd)'
    BY <2>1, <2>2, <2>3, <2>4 DEF Clean, PayloadIn
  <2>6. \A j \in Callers : cpc'[j] \in Outside
    BY <2>1, ClientAssumption DEF MutexHeld
  <2>7. \A j \in Callers : Exchange(j)'
    BY <2>6 DEF Exchange, Outside
  <2>8. \A e \in Epochs : e # fd => toClient'[e] = toClient[e]
    BY <2>1 DEF TypeOK
  <2>9. UnopenedClean' /\ IdleClean'
    BY <2>1, <2>2, <2>5, <2>8, ClientAssumption DEF UnopenedClean, IdleClean, Clean, TypeOK, Epochs
  <2>. QED
    BY <2>7, <2>9
<1>10. ASSUME NEW e \in Epochs, ServerAnswers(e) PROVE Goal
  <2>1. /\ toServer[e] # <<>>
        /\ toServer' = [toServer EXCEPT ![e] = Tail(@)]
        /\ UNCHANGED <<holder, cpc, fd, epochs, calls>>
    BY <1>10 DEF ServerAnswers
  <2>2. PICK h, p :
          /\ h.serial = Head(toServer[e]).serial /\ p.serial = Head(toServer[e]).serial
          /\ toClient' = [toClient EXCEPT ![e] = @ \o <<h, p>>]
    BY <1>10 DEF ServerAnswers
  <2>3. \A d \in Epochs : d # e => toServer'[d] = toServer[d] /\ toClient'[d] = toClient[d]
    BY <2>1, <2>2 DEF TypeOK
  <2>4. UnopenedClean'
    BY <2>1, <2>3, ClientAssumption DEF UnopenedClean, Clean, TypeOK, Epochs
  <2>5. CASE fd # e
    <3>1. fd # 0 => toServer'[fd] = toServer[fd] /\ toClient'[fd] = toClient[fd]
      BY <2>3, <2>5, OpenIsEpoch
    <3>2. IdleClean'
      BY <2>1, <3>1 DEF IdleClean, Clean
    <3>3. \A j \in Callers : Exchange(j)'
      BY <2>1, <3>1 DEF ClientInv, Exchange, Clean, RequestOut, AnswerIn, PayloadIn
    <3>. QED
      BY <2>4, <3>2, <3>3
  <2>6. CASE fd = e
    <3>1. fd # 0 /\ ~Clean(fd) /\ holder # "none"
      BY <2>1, <2>6, ClientAssumption DEF Clean, IdleClean, Epochs
    <3>2. \A j \in Callers : cpc[j] \in Outside \/ (cpc[j] = "sent" /\ RequestOut(fd))
      BY <2>1, <2>6, <3>1
      DEF ClientInv, Exchange, Clean, AnswerIn, PayloadIn, TypeOK, Outside
    <3>3. RequestOut(fd)
      BY <3>1, <3>2 DEF MutexHeld, TypeOK
    <3>4. toServer'[fd] = Tail(toServer[fd]) /\ toClient'[fd] = <<>> \o <<h, p>>
      BY <2>1, <2>2, <2>6, <3>3 DEF TypeOK, RequestOut
    <3>5. Head(toServer[fd]) = toServer[fd][1] /\ Tail(toServer[fd]) = <<>>
      <4>1. toServer[fd] \in Seq(Request) /\ Len(toServer[fd]) = 1
        BY <2>6, <3>3 DEF RequestOut, TypeOK
      <4>. QED
        BY <4>1, SingletonTail
    <3>6. /\ Len(toClient'[fd]) = 2
          /\ toClient'[fd][1] = h /\ toClient'[fd][2] = p
      BY <3>4
    <3>7. AnswerIn(fd)'
      BY <2>1, <2>2, <2>6, <3>3, <3>4, <3>5, <3>6 DEF AnswerIn, RequestOut
    <3>8. \A j \in Callers : Exchange(j)'
      BY <2>1, <3>1, <3>2, <3>7 DEF Exchange, Outside
    <3>9. IdleClean'
      BY <2>1, <3>1 DEF IdleClean
    <3>. QED
      BY <2>4, <3>8, <3>9
  <2>. QED
    BY <2>5, <2>6
<1>11. ASSUME (\E e \in Epochs : ServerCloses(e)) \/ UNCHANGED vars PROVE Goal
  <2>1. UNCHANGED <<holder, cpc, fd, epochs, calls, toServer, toClient>>
    BY <1>11 DEF ServerCloses, vars
  <2>. QED
    BY <2>1 DEF ClientInv, UnopenedClean, IdleClean, Exchange, Clean, RequestOut,
                AnswerIn, PayloadIn
<1>. HIDE DEF Goal
<1>12. ASSUME NEW k \in Callers, Proceeds(k) PROVE Goal
  BY <1>4, <1>5, <1>6, <1>7, <1>8, <1>9, <1>12, Zenon
  DEF Proceeds, ConnectFails, HeaderRejected, PayloadRejected, ReadFails
<1>13. ASSUME NEW k \in Callers, Caller(k) PROVE Goal
  BY <1>1, <1>2, <1>3, <1>12, <1>13, Zenon DEF Caller
<1>14. Goal
  BY <1>10, <1>11, <1>13, Zenon DEF Next
<1>. QED
  BY <1>14 DEF Goal

(* The inductive invariant of the client.                                   *)
LEMMA ClientInvariant == Spec => []ClientInv
<1>1. ClientInv /\ [Next]_vars => ClientInv'
  BY TypeStep, MutexStep, WireStep DEF ClientInv
<1>. QED
  BY <1>1, InitClientInv, PTL DEF Spec

-----------------------------------------------------------------------------
(* The variables of RpcClient keep their types; in particular request ids   *)
(* never become zero.                                                       *)
THEOREM TypeCorrect == Spec => []TypeOK
<1>1. ClientInv => TypeOK
  BY DEF ClientInv
<1>. QED
  BY <1>1, ClientInvariant, PTL

(* A call() that finds a connection open finds it clean: no request of an   *)
(* earlier call is unanswered on it and no byte of an answer is unread.     *)
THEOREM ReusedConnectionIsClean == Spec => []IdleConnectionClean
<1>1. ClientInv => IdleConnectionClean
  BY DEF ClientInv, IdleClean, Clean, IdleConnectionClean
<1>. QED
  BY <1>1, ClientInvariant, PTL

(* A call() that succeeds returns the server's answer to that very call,    *)
(* whatever was delayed on abandoned connections and however often the      *)
(* request id has wrapped around.                                           *)
THEOREM CallGetsItsAnswer == Spec => AnswersOwnCall
<1>1. ClientInv /\ [Next]_vars => [outcome' # outcome => outcome' = Append(outcome, calls)]_vars
  <2>. SUFFICES ASSUME ClientInv, Next, outcome' # outcome
                PROVE  outcome' = Append(outcome, calls)
    OBVIOUS
  <2>1. PICK k \in Callers : ReadsPayload(k)
    BY DEF Next, Caller, Proceeds, CallBegins, CloseBegins, Locks, Closes, Connects,
           ConnectFails, NotEncodable, Sends, SendFails, ReadsHeader, HeaderRejected,
           PayloadRejected, ReadFails, FailAndClose, ServerAnswers, ServerCloses
  <2>2. PayloadIn(fd) /\ toClient[fd] # <<>>
    BY <2>1 DEF ReadsPayload, Incoming, ClientInv, Exchange
  <2>3. Head(toClient[fd]) = toClient[fd][1]
    OBVIOUS
  <2>. QED
    BY <2>1, <2>2, <2>3 DEF ReadsPayload, Incoming, PayloadIn
<1>. QED
  BY <1>1, ClientInvariant, PTL DEF Spec, AnswersOwnCall

-----------------------------------------------------------------------------
(* The call that holds the mutex has a number.                              *)
Counted == holder # "none" => calls > 0

LEMMA CountedInvariant == Spec => []Counted
<1>1. Init => Counted
  BY DEF Init, Counted
<1>2. ClientInv /\ Counted /\ [Next]_vars => Counted'
  <2>. SUFFICES ASSUME ClientInv, Counted, [Next]_vars PROVE Counted'
    OBVIOUS
  <2>1. calls \in Nat
    BY ClientAssumption DEF ClientInv, TypeOK
  <2>2. ASSUME NEW k \in Callers, Locks(k) PROVE Counted'
    BY <2>1, <2>2 DEF Locks, Counted
  <2>3. ASSUME NEW k \in Callers, Caller(k), ~Locks(k)
        PROVE  calls' = calls /\ (holder' = holder \/ holder' = "none")
    BY <2>3 DEF Caller, Proceeds, CallBegins, CloseBegins, Closes, Connects, ConnectFails,
                NotEncodable, Sends, SendFails, ReadsHeader, HeaderRejected, ReadsPayload,
                PayloadRejected, ReadFails, FailAndClose, Return
  <2>4. ASSUME NEW e \in Epochs, ServerAnswers(e) \/ ServerCloses(e)
        PROVE  calls' = calls /\ holder' = holder
    BY <2>4 DEF ServerAnswers, ServerCloses
  <2>5. CASE UNCHANGED vars
    BY <2>5 DEF vars, Counted
  <2>. QED
    BY <2>2, <2>3, <2>4, <2>5 DEF Next, Counted
<1>. QED
  BY <1>1, <1>2, ClientInvariant, PTL DEF Spec

(* A step that returns the mutex ends the call in progress; every other     *)
(* step of the client but Locks leaves the abstract state alone.            *)
LEMMA CallStep ==
  ASSUME ClientInv, Counted, NEW k \in Callers, Caller(k)
  PROVE  Calls!Next \/ UNCHANGED <<calls, callInProgress, outcome>>
<1>. USE ClientAssumption DEF callInProgress
<1>1. cpc[k] \notin Outside => holder = k /\ holder # "none" /\ calls # 0
  BY DEF ClientInv, TypeOK, MutexHeld, Counted
<1>2. CASE Locks(k)
  BY <1>2 DEF Locks, Calls!Next, Calls!Begin
<1>3. CASE ConnectFails(k) \/ NotEncodable(k) \/ SendFails(k) \/ HeaderRejected(k)
           \/ PayloadRejected(k) \/ ReadFails(k)
  <2>1. cpc[k] \notin Outside /\ holder' = "none" /\ calls' = calls /\ outcome' = outcome
    BY <1>3 DEF ConnectFails, NotEncodable, SendFails, HeaderRejected, PayloadRejected,
                ReadFails, FailAndClose, Return, Outside
  <2>. QED
    BY <1>1, <2>1 DEF Calls!Next, Calls!Fail
<1>4. CASE ReadsPayload(k)
  <2>1. /\ cpc[k] \notin Outside /\ holder' = "none" /\ calls' = calls
        /\ outcome' = outcome \/ outcome' = Append(outcome, Head(toClient[fd]).serial)
    BY <1>4 DEF ReadsPayload, Incoming, Return, Outside
  <2>2. Head(toClient[fd]).serial = calls
    <3>1. PayloadIn(fd) /\ toClient[fd] # <<>>
      BY <1>4 DEF ReadsPayload, Incoming, ClientInv, Exchange
    <3>. QED
      BY <3>1 DEF PayloadIn
  <2>. QED
    BY <1>1, <2>1, <2>2 DEF Calls!Next, Calls!Fail, Calls!Succeed
<1>5. CASE CallBegins(k) \/ CloseBegins(k) \/ Closes(k) \/ Connects(k) \/ Sends(k) \/ ReadsHeader(k)
  BY <1>5 DEF CallBegins, CloseBegins, Closes, Connects, Sends, ReadsHeader
<1>. QED
  BY <1>2, <1>3, <1>4, <1>5 DEF Caller, Proceeds

(* RpcClient implements SerialCalls, for any set of callers, any width of   *)
(* request ids and any number of calls and connections.                     *)
THEOREM ImplementsSerialCalls == Spec => IsSerialCalls
<1>1. Init => Calls!Init
  BY DEF Init, Calls!Init, callInProgress
<1>2. ClientInv /\ Counted /\ [Next]_vars => [Calls!Next]_<<calls, callInProgress, outcome>>
  <2>. SUFFICES ASSUME ClientInv, Counted, [Next]_vars
                PROVE  Calls!Next \/ UNCHANGED <<calls, callInProgress, outcome>>
    OBVIOUS
  <2>1. ASSUME NEW k \in Callers, Caller(k)
        PROVE  Calls!Next \/ UNCHANGED <<calls, callInProgress, outcome>>
    BY <2>1, CallStep
  <2>2. ASSUME NEW e \in Epochs, ServerAnswers(e) \/ ServerCloses(e)
        PROVE  UNCHANGED <<calls, callInProgress, outcome>>
    BY <2>2 DEF ServerAnswers, ServerCloses, callInProgress
  <2>3. CASE UNCHANGED vars
    BY <2>3 DEF vars, callInProgress
  <2>. QED
    BY <2>1, <2>2, <2>3 DEF Next
<1>. QED
  BY <1>1, <1>2, ClientInvariant, CountedInvariant, PTL DEF Spec, IsSerialCalls, Calls!Spec
=============================================================================
