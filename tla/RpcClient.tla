----------------------------- MODULE RpcClient -----------------------------
(***************************************************************************)
(* nexus::rpc::RpcClient (src/rpc/rpc_client.cpp): calls serialised by a   *)
(* mutex over one connection that is opened on demand and closed by every  *)
(* failure.  callFuture and callAsync run call() on a thread of their own, *)
(* so each caller below is a thread.                                       *)
(*                                                                         *)
(* A connection is an epoch; the server may still answer on an epoch the   *)
(* client has abandoned.  A call is identified by its serial number, which *)
(* the server copies into the answer and the client never looks at; the    *)
(* wire carries only the request id, which wraps.  A response arrives in   *)
(* two reads, header and payload, and the deadline may pass before either. *)
(***************************************************************************)
EXTENDS Naturals, Sequences

CONSTANTS
  Callers,    \* threads using the client
  IdModulus,  \* request ids are counted modulo this (2^64 in the code)
  MaxCalls,   \* bound: calls that take the mutex
  MaxEpochs   \* bound: connections opened

ASSUME ClientAssumption ==
  /\ "none" \notin Callers
  /\ IdModulus \in Nat /\ IdModulus > 1
  /\ MaxCalls \in Nat /\ MaxEpochs \in Nat

VARIABLES
  holder,   \* who owns mutex_
  cpc,      \* where each caller is in call() or close()
  fd,       \* epoch of the open connection, 0 when fd_ < 0
  epochs,   \* epochs opened so far
  nextId,   \* next_request_id_
  calls,    \* serial number of the latest call that took the mutex
  cur,      \* the request id of the call in progress
  toServer, \* requests under way to the server, per epoch
  toClient, \* frames under way to the client, per epoch
  eof,      \* epochs the server closed
  outcome   \* history: serial of the answer each successful call returned

vars == <<holder, cpc, fd, epochs, nextId, calls, cur, toServer, toClient, eof,
          outcome>>

Epochs == 1..MaxEpochs
Ids == 1..(IdModulus - 1)
Kinds == {"ok", "error", "badHeader", "badPayload"}
Request == [id : Ids, serial : Nat]
Header == [part : {"header"}, id : Ids, serial : Nat, kind : Kinds]
Payload == [part : {"payload"}, id : Ids, serial : Nat, kind : Kinds]

TypeOK ==
  /\ holder \in Callers \cup {"none"}
  /\ cpc \in [Callers -> {"idle", "wantCall", "wantClose", "locked", "connected",
                          "sent", "gotHeader"}]
  /\ fd \in 0..MaxEpochs /\ epochs \in 0..MaxEpochs
  /\ nextId \in Ids /\ cur \in Ids /\ calls \in 0..MaxCalls
  /\ toServer \in [Epochs -> Seq(Request)]
  /\ toClient \in [Epochs -> Seq(Header \cup Payload)]
  /\ eof \in SUBSET Epochs
  /\ outcome \in Seq(Nat)

(* makeInitialRequestId: any non-zero id *)
Init ==
  /\ holder = "none" /\ cpc = [k \in Callers |-> "idle"]
  /\ fd = 0 /\ epochs = 0 /\ nextId \in Ids /\ calls = 0 /\ cur = nextId
  /\ toServer = [e \in Epochs |-> <<>>] /\ toClient = [e \in Epochs |-> <<>>]
  /\ eof = {} /\ outcome = <<>>

-----------------------------------------------------------------------------
wire == <<toServer, toClient, eof>>

Goto(k, to) == cpc' = [cpc EXCEPT ![k] = to]

(* return from call(): the lock_guard releases the mutex *)
Return(k) == holder' = "none" /\ Goto(k, "idle")

(* closeUnlocked() and return: every failure after the mutex was taken *)
FailAndClose(k) ==
  /\ Return(k)
  /\ fd' = 0
  /\ UNCHANGED <<epochs, nextId, calls, cur, wire, outcome>>

CallBegins(k) ==
  /\ cpc[k] = "idle" /\ calls < MaxCalls
  /\ Goto(k, "wantCall")
  /\ UNCHANGED <<holder, fd, epochs, nextId, calls, cur, wire, outcome>>

CloseBegins(k) ==
  /\ cpc[k] = "idle"
  /\ Goto(k, "wantClose")
  /\ UNCHANGED <<holder, fd, epochs, nextId, calls, cur, wire, outcome>>

(* Mutant: no mutex. *)
MutNoMutex(k) ==
  /\ cpc[k] = "wantCall" /\ calls < MaxCalls
  /\ holder' = k /\ Goto(k, "locked")
  /\ calls' = calls + 1
  /\ UNCHANGED <<fd, epochs, nextId, cur, wire, outcome>>

(* lock_guard; the deadline starts here *)
Locks(k) ==
  /\ cpc[k] = "wantCall" /\ holder = "none" /\ calls < MaxCalls
  /\ holder' = k /\ Goto(k, "locked")
  /\ calls' = calls + 1
  /\ UNCHANGED <<fd, epochs, nextId, cur, wire, outcome>>

(* close(): lock, closeUnlocked, unlock *)
Closes(k) ==
  /\ cpc[k] = "wantClose" /\ holder = "none"
  /\ fd' = 0
  /\ Goto(k, "idle")
  /\ UNCHANGED <<holder, epochs, nextId, calls, cur, wire, outcome>>

(* ensureConnected(): keep the connection, or open one *)
Connects(k) ==
  /\ cpc[k] = "locked"
  /\ fd # 0 \/ epochs < MaxEpochs
  /\ fd' = IF fd # 0 THEN fd ELSE epochs + 1
  /\ epochs' = IF fd # 0 THEN epochs ELSE epochs + 1
  /\ Goto(k, "connected")
  /\ UNCHANGED <<holder, nextId, calls, cur, wire, outcome>>

(* ensureConnected() fails: refused, unresolved, or out of time *)
ConnectFails(k) == cpc[k] = "locked" /\ fd = 0 /\ FailAndClose(k)

(* the frame exceeds the protocol limits: return, keeping the connection *)
NotEncodable(k) ==
  /\ cpc[k] = "connected"
  /\ Return(k)
  /\ UNCHANGED <<fd, epochs, nextId, calls, cur, wire, outcome>>

(* nextRequestId(): count up, skip zero on wrap-around *)
Successor(id) == IF id + 1 = IdModulus THEN 1 ELSE id + 1

(* nextRequestId, encodeFrame, writeAll *)
Sends(k) ==
  /\ cpc[k] = "connected"
  /\ cur' = nextId
  /\ nextId' = Successor(nextId)
  /\ toServer' = [toServer EXCEPT ![fd] = Append(@, [id |-> nextId, serial |-> calls])]
  /\ Goto(k, "sent")
  /\ UNCHANGED <<holder, fd, epochs, calls, toClient, eof, outcome>>

(* writeAll fails or runs out of time before the frame is complete: the     *)
(* server never sees a whole request                                        *)
SendFails(k) ==
  /\ cpc[k] = "connected"
  /\ Return(k)
  /\ fd' = 0
  /\ nextId' = Successor(nextId) /\ cur' = nextId
  /\ UNCHANGED <<epochs, calls, wire, outcome>>

Incoming == toClient[fd]
Consume == toClient' = [toClient EXCEPT ![fd] = Tail(@)]

(* readAll of 32 bytes, decodeHeader, and the three checks *)
HeaderMatches(h) == h.part = "header" /\ h.kind # "badHeader" /\ h.id = cur

ReadsHeader(k) ==
  /\ cpc[k] = "sent" /\ Incoming # <<>>
  /\ HeaderMatches(Head(Incoming))
  /\ Consume
  /\ Goto(k, "gotHeader")
  /\ UNCHANGED <<holder, fd, epochs, nextId, calls, cur, toServer, eof, outcome>>

HeaderRejected(k) ==
  /\ cpc[k] = "sent" /\ Incoming # <<>>
  /\ ~HeaderMatches(Head(Incoming))
  /\ FailAndClose(k)

ReadsPayload(k) ==
  /\ cpc[k] = "gotHeader" /\ Incoming # <<>>
  /\ Head(Incoming).kind # "badPayload"
  /\ Consume
  /\ Return(k)
  /\ outcome' = IF Head(Incoming).kind = "ok"
                THEN Append(outcome, Head(Incoming).serial) ELSE outcome
  /\ UNCHANGED <<fd, epochs, nextId, calls, cur, toServer, eof>>

(* decodeMetadata or decodeResponseStatus fails *)
PayloadRejected(k) ==
  /\ cpc[k] = "gotHeader" /\ Incoming # <<>>
  /\ Head(Incoming).kind = "badPayload"
  /\ FailAndClose(k)

(* Mutant: a timeout keeps the connection. *)
MutTimeoutKeeps(k) ==
  /\ cpc[k] \in {"sent", "gotHeader"}
  /\ Return(k)
  /\ UNCHANGED <<fd, epochs, nextId, calls, cur, wire, outcome>>

(* waitForEvent times out, or recv reports the peer's close, before the     *)
(* bytes asked for are there                                                *)
ReadFails(k) == cpc[k] \in {"sent", "gotHeader"} /\ FailAndClose(k)

-----------------------------------------------------------------------------
(* The server, seen from the client: it answers each request of an epoch    *)
(* once, at any time, well or badly, until it closes the connection.        *)
ServerAnswers(e) ==
  /\ toServer[e] # <<>> /\ e \notin eof
  /\ toServer' = [toServer EXCEPT ![e] = Tail(@)]
  /\ \E kind \in Kinds :
       LET r == Head(toServer[e])
           part(p) == [part |-> p, id |-> r.id, serial |-> r.serial, kind |-> kind]
       IN  toClient' = [toClient EXCEPT ![e] = @ \o <<part("header"), part("payload")>>]
  /\ UNCHANGED <<holder, cpc, fd, epochs, nextId, calls, cur, eof, outcome>>

ServerCloses(e) ==
  /\ e <= epochs /\ e \notin eof
  /\ eof' = eof \cup {e}
  /\ UNCHANGED <<holder, cpc, fd, epochs, nextId, calls, cur, toServer, toClient,
                 outcome>>

-----------------------------------------------------------------------------
(* what the holder of the mutex does next *)
Proceeds(k) ==
  \/ Connects(k) \/ ConnectFails(k) \/ NotEncodable(k) \/ Sends(k) \/ SendFails(k)
  \/ ReadsHeader(k) \/ HeaderRejected(k) \/ ReadsPayload(k) \/ PayloadRejected(k)
  \/ ReadFails(k)

Caller(k) == CallBegins(k) \/ CloseBegins(k) \/ Locks(k) \/ Closes(k) \/ Proceeds(k)

Next ==
  \/ \E k \in Callers : Caller(k)
  \/ \E e \in Epochs : ServerAnswers(e) \/ ServerCloses(e)

Spec == Init /\ [][Next]_vars

-----------------------------------------------------------------------------
(* A delayed response is never taken for the answer to a later request,     *)
(* even when the request id has wrapped around to the same value: a call    *)
(* that succeeds returns the server's answer to that very call.             *)
AnswersOwnCall ==
  [][outcome' # outcome => outcome' = Append(outcome, calls)]_vars

(* The connection a caller finds open is clean: no request on it is still   *)
(* to be answered and no byte of an answer is unread.                       *)
IdleConnectionClean ==
  holder = "none" /\ fd # 0 => toServer[fd] = <<>> /\ toClient[fd] = <<>>

callInProgress == IF holder = "none" THEN 0 ELSE calls
Calls == INSTANCE SerialCalls WITH call <- callInProgress

(* The client implements SerialCalls: although callers race for the mutex,  *)
(* time out, reconnect and close, calls go one at a time, and a delayed     *)
(* answer is never returned to a later call, even when the request id has   *)
(* wrapped around to the same value.                                        *)
IsSerialCalls == Calls!Spec
=============================================================================
