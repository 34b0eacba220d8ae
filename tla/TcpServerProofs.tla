--------------------------- MODULE TcpServerProofs ---------------------------
(***************************************************************************)
(* Theorems about TcpServer, for any number of connections and             *)
(* sub-reactors: the notifications of a connection are paired, the map     *)
(* agrees with them, and stop() tells the application of every connection  *)
(* of the main loop.  The last section is about Acceptor, which hands      *)
(* TcpServer its connections: no descriptor leaks, no connection is        *)
(* stranded in the backlog.                                                *)
(***************************************************************************)
EXTENDS TcpServer, Acceptor, SequenceTheorems, TLAPS

Establish(c) == [op |-> "establish", conn |-> c]
Remove(c) == [op |-> "remove", conn |-> c]

(* What is queued says where a connection is in its life: its functors are  *)
(* on its own loop; connectEstablished is queued at most once, only on a    *)
(* sub-reactor and only while nobody was notified; a removal is queued only *)
(* after the first notification.                                            *)
EstablishInv ==
  \A l \in Loops, c \in Conns : \A i \in DOMAIN queue[l] :
    queue[l][i] = Establish(c) =>
      /\ l = loopOf[c] /\ l # Main
      /\ state[c] = "kConnecting" /\ ups[c] = 0
      /\ \A j \in DOMAIN queue[l] : queue[l][j] = Establish(c) => j = i

RemoveInv ==
  \A l \in Loops, c \in Conns : \A i \in DOMAIN queue[l] :
    queue[l][i] = Remove(c) => l = loopOf[c] /\ ups[c] = 1

(* A connection between its erasure and its close notification was          *)
(* notified once, and stop() does not meet one of the main loop: the main   *)
(* thread executes both.                                                    *)
RemovingInv ==
  \A c \in removing :
    /\ ups[c] = 1 /\ downs[c] = 0 /\ c \notin inMap
    /\ phase = "joining" => loopOf[c] # Main

(* Only a connection that was established is shut down.                     *)
ShuttingInv == \A c \in Conns : shutting[c] # {} => ups[c] = 1

(* What the state of a connection says of its notifications.                *)
StateInv ==
  \A c \in Conns :
    /\ state[c] = "none" => ups[c] = 0 /\ downs[c] = 0 /\ loopOf[c] = Main
    /\ state[c] = "kConnecting" => ups[c] = 0 /\ loopOf[c] # Main
    /\ state[c] = "kConnected" => ups[c] = 1
    /\ state[c] \in {"kDisconnecting", "kDisconnected"} => ups[c] = 1
    /\ downs[c] <= ups[c]

NotificationInv ==
  /\ TypeOK /\ EstablishInv /\ RemoveInv /\ StateInv /\ RemovingInv /\ ShuttingInv
  /\ MapMatchesNotifications /\ StopNotifiesMainLoop
  /\ phase = "stopped" => inMap = {}

-----------------------------------------------------------------------------
(* What is in a queue after a push.                                         *)
LEMMA AfterAppend ==
  ASSUME NEW S, NEW q \in Seq(S), NEW e \in S
  PROVE  /\ Append(q, e) \in Seq(S)
         /\ DOMAIN Append(q, e) = 1..(Len(q) + 1) /\ DOMAIN q = 1..Len(q)
         /\ Len(q) \in Nat
         /\ \A i \in 1..Len(q) : Append(q, e)[i] = q[i]
         /\ Append(q, e)[Len(q) + 1] = e
  BY AppendProperties, LenProperties

(* What is in a queue after its head was taken.                             *)
LEMMA AfterTail ==
  ASSUME NEW S, NEW q \in Seq(S), q # <<>>
  PROVE  /\ Tail(q) \in Seq(S) /\ Head(q) \in S
         /\ 1 \in DOMAIN q /\ Head(q) = q[1]
         /\ \A i \in DOMAIN Tail(q) : /\ i \in Nat /\ i >= 1 /\ i + 1 \in DOMAIN q
                                      /\ Tail(q)[i] = q[i + 1]
<1>1. /\ Tail(q) \in Seq(S) /\ Head(q) \in S /\ Len(Tail(q)) = Len(q) - 1
      /\ \A i \in 1..Len(Tail(q)) : Tail(q)[i] = q[i + 1]
  BY HeadTailProperties
<1>2. Len(q) \in Nat \ {0} /\ DOMAIN q = 1..Len(q)
  BY EmptySeq, LenProperties
<1>3. DOMAIN Tail(q) = 1..(Len(q) - 1)
  BY <1>1, LenProperties
<1>. QED
  BY <1>1, <1>2, <1>3

(* getNextSubLoop() returns a loop of the server, the main loop only if     *)
(* there are no sub-reactors.                                               *)
LEMMA NextLoopType ==
  ASSUME TypeOK
  PROVE  /\ NextLoop \in Loops /\ Main \in Loops
         /\ NextLoop = Main <=> num = 0
<1>1. Main \in Loops
  BY DEF Loops
<1>2. DOMAIN SubLoops = 1..Len(SubLoops) /\ Len(SubLoops) \in Nat
  BY LoopsAssumption, LenProperties
<1>3. CASE num = 0
  BY <1>1, <1>3 DEF NextLoop
<1>4. CASE num # 0
  <2>1. num \in Nat \ {0} /\ num <= Len(SubLoops) /\ nextSub \in Nat
    BY <1>2, <1>4 DEF TypeOK
  <2>2. nextSub % num \in 0..(num - 1)
    BY <2>1
  <2>3. (nextSub % num) + 1 \in DOMAIN SubLoops
    BY <1>2, <2>1, <2>2
  <2>. QED
    BY <1>1, <1>4, <2>3, LoopsAssumption DEF NextLoop, Loops
<1>. QED
  BY <1>3, <1>4

(* The functors that are pushed are functors.                               *)
LEMMA FunctorTypes == \A c \in Conns : Establish(c) \in Functor /\ Remove(c) \in Functor
  BY DEF Establish, Remove, Functor

-----------------------------------------------------------------------------
(* Nothing is queued and nobody was notified when start() returns.          *)
LEMMA NotificationInit == Init => NotificationInv
<1>. SUFFICES ASSUME Init PROVE NotificationInv
  OBVIOUS
<1>1. TypeOK
  <2>1. Main \in Loops
    BY DEF Loops
  <2>2. queue \in [Loops -> Seq(Functor)]
    BY EmptySeq DEF Init
  <2>. QED
    BY <2>1, <2>2 DEF Init, TypeOK
<1>2. \A l \in Loops : DOMAIN queue[l] = {}
  BY DEF Init
<1>. QED
  BY <1>1, <1>2 DEF Init, NotificationInv, EstablishInv, RemoveInv, StateInv,
                    RemovingInv, ShuttingInv, MapMatchesNotifications, StopNotifiesMainLoop

(* Every step of the main loop, of the sub-reactors and of stop() keeps the *)
(* relation between queues, states, map and notifications.                  *)
LEMMA NotificationStep == NotificationInv /\ [Next]_vars => NotificationInv'
<1>. SUFFICES ASSUME NotificationInv, [Next]_vars
              PROVE  NotificationInv'
  OBVIOUS
<1>0. /\ TypeOK /\ EstablishInv /\ RemoveInv /\ StateInv
      /\ RemovingInv /\ ShuttingInv
      /\ MapMatchesNotifications /\ StopNotifiesMainLoop
      /\ phase = "stopped" => inMap = {}
  BY DEF NotificationInv
<1>1. ASSUME NEW c \in Conns, OnNewConnection(c), NextLoop = Main
      PROVE  NotificationInv'
  <2>1. /\ state[c] = "none" /\ phase = "serving" /\ phase' = phase
        /\ inMap' = inMap \cup {c}
        /\ loopOf' = [loopOf EXCEPT ![c] = Main]
        /\ state' = [state EXCEPT ![c] = "kConnected"]
        /\ ups' = [ups EXCEPT ![c] = @ + 1]
        /\ UNCHANGED <<num, life, downs, queue, removing, shutting>>
        /\ nextSub' \in Nat
    BY <1>0, <1>1 DEF OnNewConnection, Established, TypeOK
  <2>2. TypeOK'
    BY <1>0, <2>1, NextLoopType DEF TypeOK
  <2>3. \A d \in Conns : state[d] # "none" => d # c
    BY <2>1
  <2>4. EstablishInv'
    BY <1>0, <2>1, <2>3 DEF EstablishInv, TypeOK
  <2>5. RemoveInv'
    BY <1>0, <2>1, <2>3 DEF RemoveInv, StateInv, TypeOK
  <2>6. StateInv'
    BY <1>0, <2>1 DEF StateInv, TypeOK
  <2>7. MapMatchesNotifications' /\ StopNotifiesMainLoop'
    BY <1>0, <2>1 DEF MapMatchesNotifications, StopNotifiesMainLoop, StateInv,
                      RemovingInv, TypeOK
  <2>8. RemovingInv' /\ ShuttingInv'
    BY <1>0, <2>1 DEF RemovingInv, ShuttingInv, StateInv, TypeOK
  <2>. QED
    BY <2>1, <2>2, <2>4, <2>5, <2>6, <2>7, <2>8 DEF NotificationInv
<1>2. ASSUME NEW c \in Conns, OnNewConnection(c), NextLoop # Main
      PROVE  NotificationInv'
  <2>. DEFINE n == NextLoop
  <2>0. n \in Loops /\ n # Main
    BY <1>0, <1>2, NextLoopType
  <2>1. /\ state[c] = "none" /\ phase = "serving" /\ phase' = phase
        /\ inMap' = inMap \cup {c}
        /\ loopOf' = [loopOf EXCEPT ![c] = n]
        /\ state' = [state EXCEPT ![c] = "kConnecting"]
        /\ queue' = [queue EXCEPT ![n] = Append(queue[n], Establish(c))]
        /\ UNCHANGED <<num, life, downs, ups, removing, shutting>>
        /\ nextSub' \in Nat
    BY <1>0, <1>2 DEF OnNewConnection, TypeOK, Establish
  <2>2. /\ queue[n] \in Seq(Functor) /\ queue'[n] = Append(queue[n], Establish(c))
        /\ \A l \in Loops : l # n => queue'[l] = queue[l]
    BY <1>0, <2>0, <2>1 DEF TypeOK
  <2>3. /\ queue'[n] \in Seq(Functor)
        /\ DOMAIN queue'[n] = 1..(Len(queue[n]) + 1) /\ DOMAIN queue[n] = 1..Len(queue[n])
        /\ Len(queue[n]) \in Nat
        /\ \A i \in 1..Len(queue[n]) : queue'[n][i] = queue[n][i]
        /\ queue'[n][Len(queue[n]) + 1] = Establish(c)
    BY <2>2, FunctorTypes, AfterAppend
  <2>10. \A l \in Loops : \A i \in DOMAIN queue'[l] :
           \/ i \in DOMAIN queue[l] /\ queue'[l][i] = queue[l][i]
           \/ l = n /\ i = Len(queue[n]) + 1 /\ queue'[l][i] = Establish(c)
    BY <2>2, <2>3
  <2>4. TypeOK'
    <3>1. queue' \in [Loops -> Seq(Functor)]
      BY <1>0, <2>0, <2>1, <2>2, <2>3 DEF TypeOK
    <3>. QED
      BY <1>0, <2>0, <2>1, <3>1 DEF TypeOK
  <2>5. \A l \in Loops : \A i \in DOMAIN queue[l] :
          queue[l][i] # Establish(c) /\ queue[l][i] # Remove(c)
    BY <1>0, <2>1 DEF EstablishInv, RemoveInv, StateInv
  <2>6. EstablishInv'
    <3>. SUFFICES ASSUME NEW l \in Loops, NEW d \in Conns, NEW i \in DOMAIN queue'[l],
                         queue'[l][i] = Establish(d)
                  PROVE  /\ l = loopOf'[d] /\ l # Main
                         /\ state'[d] = "kConnecting" /\ ups'[d] = 0
                         /\ \A j \in DOMAIN queue'[l] :
                              queue'[l][j] = Establish(d) => j = i
      BY DEF EstablishInv
    <3>1. CASE d = c
      <4>1. l = n /\ i = Len(queue[n]) + 1
        BY <2>2, <2>3, <2>5, <3>1
      <4>2. \A j \in DOMAIN queue'[l] : queue'[l][j] = Establish(d) => j = i
        BY <2>3, <2>5, <3>1, <4>1, <2>0
      <4>. QED
        BY <1>0, <2>0, <2>1, <3>1, <4>1, <4>2 DEF TypeOK, StateInv
    <3>2. CASE d # c
      <4>1. i \in DOMAIN queue[l] /\ queue[l][i] = Establish(d)
        BY <2>10, <3>2 DEF Establish, Remove
      <4>2. /\ l = loopOf[d] /\ l # Main /\ state[d] = "kConnecting" /\ ups[d] = 0
            /\ \A j \in DOMAIN queue[l] : queue[l][j] = Establish(d) => j = i
        BY <1>0, <4>1 DEF EstablishInv
      <4>3. \A j \in DOMAIN queue'[l] : queue'[l][j] = Establish(d) => j = i
        BY <2>10, <3>2, <4>2 DEF Establish, Remove
      <4>. QED
        BY <1>0, <2>1, <3>2, <4>2, <4>3 DEF TypeOK
    <3>. QED
      BY <3>1, <3>2
  <2>7. RemoveInv'
    <3>. SUFFICES ASSUME NEW l \in Loops, NEW d \in Conns, NEW i \in DOMAIN queue'[l],
                         queue'[l][i] = Remove(d)
                  PROVE  l = loopOf'[d] /\ ups'[d] = 1
      BY DEF RemoveInv
    <3>1. i \in DOMAIN queue[l] /\ queue[l][i] = Remove(d)
      BY <2>10 DEF Establish, Remove
    <3>2. l = loopOf[d] /\ ups[d] = 1 /\ d # c
      BY <1>0, <2>1, <3>1 DEF RemoveInv, StateInv
    <3>. QED
      BY <1>0, <2>1, <3>2 DEF TypeOK
  <2>8. StateInv'
    BY <1>0, <2>0, <2>1 DEF StateInv, TypeOK
  <2>9. MapMatchesNotifications' /\ StopNotifiesMainLoop'
    BY <1>0, <2>1 DEF MapMatchesNotifications, StopNotifiesMainLoop, StateInv,
                      RemovingInv, TypeOK
  <2>11. RemovingInv' /\ ShuttingInv'
    BY <1>0, <2>1 DEF RemovingInv, ShuttingInv, StateInv, TypeOK
  <2>. QED
    BY <2>1, <2>4, <2>6, <2>7, <2>8, <2>9, <2>11 DEF NotificationInv
<1>3. ASSUME NEW c \in Conns, HandleClose(c) PROVE NotificationInv'
  <2>. DEFINE n == loopOf[c]
  <2>1. /\ state[c] \in {"kConnected", "kDisconnecting"} /\ ups[c] = 1 /\ n \in Loops
        /\ state' = [state EXCEPT ![c] = "kDisconnected"]
        /\ queue' = [queue EXCEPT ![n] = Append(queue[n], Remove(c))]
        /\ UNCHANGED <<num, phase, nextSub, inMap, loopOf, removing, shutting, life,
                       ups, downs>>
    BY <1>0, <1>3 DEF HandleClose, TypeOK, Remove, StateInv
  <2>2. /\ queue[n] \in Seq(Functor) /\ queue'[n] = Append(queue[n], Remove(c))
        /\ \A l \in Loops : l # n => queue'[l] = queue[l]
    BY <1>0, <2>1 DEF TypeOK
  <2>3. /\ queue'[n] \in Seq(Functor)
        /\ DOMAIN queue'[n] = 1..(Len(queue[n]) + 1) /\ DOMAIN queue[n] = 1..Len(queue[n])
        /\ Len(queue[n]) \in Nat
        /\ \A i \in 1..Len(queue[n]) : queue'[n][i] = queue[n][i]
        /\ queue'[n][Len(queue[n]) + 1] = Remove(c)
    BY <2>2, FunctorTypes, AfterAppend
  <2>10. \A l \in Loops : \A i \in DOMAIN queue'[l] :
           \/ i \in DOMAIN queue[l] /\ queue'[l][i] = queue[l][i]
           \/ l = n /\ i = Len(queue[n]) + 1 /\ queue'[l][i] = Remove(c)
    <3>. HIDE DEF n
    <3>. QED
      BY <2>2, <2>3
  <2>4. TypeOK'
    <3>1. queue' \in [Loops -> Seq(Functor)]
      BY <1>0, <2>1, <2>2, <2>3 DEF TypeOK
    <3>. QED
      BY <1>0, <2>1, <3>1 DEF TypeOK
  <2>5. EstablishInv'
    <3>. SUFFICES ASSUME NEW l \in Loops, NEW d \in Conns, NEW i \in DOMAIN queue'[l],
                         queue'[l][i] = Establish(d)
                  PROVE  /\ l = loopOf'[d] /\ l # Main
                         /\ state'[d] = "kConnecting" /\ ups'[d] = 0
                         /\ \A j \in DOMAIN queue'[l] :
                              queue'[l][j] = Establish(d) => j = i
      BY DEF EstablishInv
    <3>1. i \in DOMAIN queue[l] /\ queue[l][i] = Establish(d)
      BY <2>10 DEF Establish, Remove
    <3>2. /\ l = loopOf[d] /\ l # Main /\ state[d] = "kConnecting" /\ ups[d] = 0
          /\ \A j \in DOMAIN queue[l] : queue[l][j] = Establish(d) => j = i
      BY <1>0, <3>1 DEF EstablishInv
    <3>3. \A j \in DOMAIN queue'[l] : queue'[l][j] = Establish(d) => j = i
      BY <2>10, <3>2 DEF Establish, Remove
    <3>. QED
      BY <1>0, <2>1, <3>2, <3>3 DEF TypeOK
  <2>6. RemoveInv'
    <3>. SUFFICES ASSUME NEW l \in Loops, NEW d \in Conns, NEW i \in DOMAIN queue'[l],
                         queue'[l][i] = Remove(d)
                  PROVE  l = loopOf'[d] /\ ups'[d] = 1
      BY DEF RemoveInv
    <3>1. CASE i \in DOMAIN queue[l] /\ queue[l][i] = Remove(d)
      BY <1>0, <2>1, <3>1 DEF RemoveInv
    <3>2. CASE l = n /\ Remove(d) = Remove(c)
      BY <2>1, <3>2 DEF Remove
    <3>. QED
      BY <2>10, <3>1, <3>2
  <2>7. StateInv'
    BY <1>0, <2>1 DEF StateInv, TypeOK
  <2>8. MapMatchesNotifications' /\ StopNotifiesMainLoop'
    BY <1>0, <2>1 DEF MapMatchesNotifications, StopNotifiesMainLoop, TypeOK
  <2>9. RemovingInv' /\ ShuttingInv'
    BY <1>0, <2>1 DEF RemovingInv, ShuttingInv
  <2>. QED
    BY <1>0, <2>1, <2>4, <2>5, <2>6, <2>7, <2>8, <2>9 DEF NotificationInv
<1>4. ASSUME NEW l \in Loops, RunFunctor(l) PROVE NotificationInv'
  <2>1. /\ queue[l] \in Seq(Functor) /\ queue[l] # <<>>
        /\ queue'[l] = Tail(queue[l])
        /\ \A m \in Loops : m # l => queue'[m] = queue[m]
        /\ queue' = [queue EXCEPT ![l] = Tail(queue[l])]
        /\ UNCHANGED <<num, phase, nextSub, loopOf, shutting, life, downs>>
        /\ l = Main => phase # "joining"
    BY <1>0, <1>4 DEF RunFunctor, Runs, TypeOK
  <2>2. /\ queue'[l] \in Seq(Functor) /\ 1 \in DOMAIN queue[l]
        /\ Head(queue[l]) = queue[l][1]
        /\ \A i \in DOMAIN queue'[l] : /\ i \in Nat /\ i >= 1 /\ i + 1 \in DOMAIN queue[l]
                                      /\ queue'[l][i] = queue[l][i + 1]
    BY <2>1, AfterTail
  <2>3. queue' \in [Loops -> Seq(Functor)]
    BY <1>0, <2>1, <2>2 DEF TypeOK
  <2>4. \A m \in Loops : \A i \in DOMAIN queue'[m] :
          \E k \in DOMAIN queue[m] : queue'[m][i] = queue[m][k]
    BY <2>1, <2>2
  <2>5. ASSUME NEW c \in Conns, RunEstablish(l, c) PROVE NotificationInv'
    <3>1. queue[l][1] = Establish(c)
      BY <2>2, <2>5 DEF RunEstablish, Establish
    <3>2. /\ l = loopOf[c] /\ l # Main /\ state[c] = "kConnecting" /\ ups[c] = 0
          /\ \A j \in DOMAIN queue[l] : queue[l][j] = Establish(c) => j = 1
      BY <1>0, <2>2, <3>1 DEF EstablishInv
    <3>3. /\ state' = [state EXCEPT ![c] = "kConnected"]
          /\ ups' = [ups EXCEPT ![c] = @ + 1] /\ UNCHANGED <<inMap, removing>>
      BY <2>5 DEF RunEstablish, Established
    <3>4. TypeOK'
      BY <1>0, <2>1, <2>3, <3>3 DEF TypeOK
    <3>5. \A m \in Loops : \A i \in DOMAIN queue'[m] : queue'[m][i] # Establish(c)
      <4>1. \A i \in DOMAIN queue'[l] : queue'[l][i] # Establish(c)
        BY <2>2, <3>2
      <4>2. \A m \in Loops : m # l => \A i \in DOMAIN queue[m] : queue[m][i] # Establish(c)
        BY <1>0, <3>2 DEF EstablishInv
      <4>. QED
        BY <2>1, <4>1, <4>2
    <3>6. EstablishInv'
      <4>. SUFFICES ASSUME NEW m \in Loops, NEW d \in Conns, NEW i \in DOMAIN queue'[m],
                           queue'[m][i] = Establish(d)
                    PROVE  /\ m = loopOf'[d] /\ m # Main
                           /\ state'[d] = "kConnecting" /\ ups'[d] = 0
                           /\ \A j \in DOMAIN queue'[m] :
                                queue'[m][j] = Establish(d) => j = i
        BY DEF EstablishInv
      <4>1. d # c
        BY <3>5
      <4>2. /\ m = loopOf[d] /\ m # Main /\ state[d] = "kConnecting" /\ ups[d] = 0
        BY <1>0, <2>4 DEF EstablishInv
      <4>3. \A j \in DOMAIN queue'[m] : queue'[m][j] = Establish(d) => j = i
        <5>1. CASE m = l
          BY <1>0, <2>2, <5>1 DEF EstablishInv
        <5>2. CASE m # l
          BY <1>0, <2>1, <5>2 DEF EstablishInv
        <5>. QED
          BY <5>1, <5>2
      <4>. QED
        BY <1>0, <2>1, <3>3, <4>1, <4>2, <4>3 DEF TypeOK
    <3>7. RemoveInv'
      BY <1>0, <2>1, <2>4, <3>2, <3>3 DEF RemoveInv, TypeOK
    <3>8. StateInv'
      BY <1>0, <2>1, <3>2, <3>3 DEF StateInv, TypeOK
    <3>9. MapMatchesNotifications' /\ StopNotifiesMainLoop'
      BY <1>0, <2>1, <3>2, <3>3 DEF MapMatchesNotifications, StopNotifiesMainLoop, TypeOK
    <3>10. RemovingInv' /\ ShuttingInv'
      BY <1>0, <2>1, <3>2, <3>3 DEF RemovingInv, ShuttingInv, TypeOK
    <3>. QED
      BY <1>0, <2>1, <3>3, <3>4, <3>6, <3>7, <3>8, <3>9, <3>10 DEF NotificationInv
  <2>6. ASSUME NEW c \in Conns, RunRemove(l, c) PROVE NotificationInv'
    <3>1. queue[l][1] = Remove(c)
      BY <2>2, <2>6 DEF RunRemove, Remove
    <3>2. l = loopOf[c] /\ ups[c] = 1
      BY <1>0, <2>2, <3>1 DEF RemoveInv
    <3>3. /\ state' = state /\ ups' = ups /\ inMap' = inMap \ {c}
          /\ removing' = IF c \in inMap THEN removing \cup {c} ELSE removing
      BY <2>6 DEF RunRemove
    <3>4. TypeOK'
      BY <1>0, <2>1, <2>3, <3>3 DEF TypeOK
    <3>5. EstablishInv'
      <4>. SUFFICES ASSUME NEW m \in Loops, NEW d \in Conns, NEW i \in DOMAIN queue'[m],
                           queue'[m][i] = Establish(d)
                    PROVE  /\ m = loopOf'[d] /\ m # Main
                           /\ state'[d] = "kConnecting" /\ ups'[d] = 0
                           /\ \A j \in DOMAIN queue'[m] :
                                queue'[m][j] = Establish(d) => j = i
        BY DEF EstablishInv
      <4>1. /\ m = loopOf[d] /\ m # Main /\ state[d] = "kConnecting" /\ ups[d] = 0
        BY <1>0, <2>4 DEF EstablishInv
      <4>2. \A j \in DOMAIN queue'[m] : queue'[m][j] = Establish(d) => j = i
        <5>1. CASE m = l
          BY <1>0, <2>2, <5>1 DEF EstablishInv
        <5>2. CASE m # l
          BY <1>0, <2>1, <5>2 DEF EstablishInv
        <5>. QED
          BY <5>1, <5>2
      <4>. QED
        BY <2>1, <3>3, <4>1, <4>2
    <3>6. RemoveInv'
      BY <1>0, <2>1, <2>4, <3>3 DEF RemoveInv
    <3>7. c \in inMap => phase # "stopped" /\ downs[c] = 0
      BY <1>0 DEF MapMatchesNotifications
    <3>8. StateInv'
      BY <1>0, <2>1, <3>3 DEF StateInv
    <3>9. MapMatchesNotifications'
      BY <1>0, <2>1, <3>3 DEF MapMatchesNotifications
    <3>10. StopNotifiesMainLoop'
      BY <1>0, <2>1, <3>3 DEF StopNotifiesMainLoop
    <3>11. RemovingInv' /\ ShuttingInv'
      BY <1>0, <2>1, <3>2, <3>3, <3>7 DEF RemovingInv, ShuttingInv
    <3>. QED
      BY <1>0, <2>1, <3>3, <3>4, <3>5, <3>6, <3>8, <3>9, <3>10, <3>11 DEF NotificationInv
  <2>. QED
    BY <1>4, <2>5, <2>6 DEF RunFunctor
<1>5. CASE StopBegins
  <2>1. /\ phase = "serving" /\ phase' = "joining"
        /\ UNCHANGED <<num, nextSub, inMap, loopOf, removing, state, shutting, queue,
                       ups, downs>>
        /\ \A c \in removing : loopOf[c] # Main
        /\ life' \in [Loops -> {"running", "quit", "dead"}]
    BY <1>0, <1>5 DEF StopBegins, Runs, TypeOK
  <2>2. TypeOK'
    BY <1>0, <2>1 DEF TypeOK
  <2>3. EstablishInv' /\ RemoveInv' /\ StateInv' /\ RemovingInv' /\ ShuttingInv'
    BY <1>0, <2>1 DEF EstablishInv, RemoveInv, StateInv, RemovingInv, ShuttingInv
  <2>. QED
    BY <1>0, <2>1, <2>2, <2>3
    DEF NotificationInv, MapMatchesNotifications, StopNotifiesMainLoop
<1>6. ASSUME NEW l \in Loops, SubLoopEnds(l) PROVE NotificationInv'
  <2>1. /\ queue' = [queue EXCEPT ![l] = <<>>]
        /\ UNCHANGED <<num, phase, nextSub, inMap, loopOf, removing, state, shutting,
                       ups, downs>>
        /\ life' \in [Loops -> {"running", "quit", "dead"}]
    BY <1>0, <1>6 DEF SubLoopEnds, TypeOK
  <2>2. TypeOK'
    <3>1. queue' \in [Loops -> Seq(Functor)]
      BY <1>0, <2>1, EmptySeq DEF TypeOK
    <3>. QED
      BY <1>0, <2>1, <3>1 DEF TypeOK
  <2>3. DOMAIN queue'[l] = {} /\ \A m \in Loops : m # l => queue'[m] = queue[m]
    BY <1>0, <2>1 DEF TypeOK
  <2>4. EstablishInv' /\ RemoveInv'
    BY <1>0, <2>1, <2>3 DEF EstablishInv, RemoveInv
  <2>5. StateInv' /\ RemovingInv' /\ ShuttingInv'
    BY <1>0, <2>1 DEF StateInv, RemovingInv, ShuttingInv
  <2>. QED
    BY <1>0, <2>1, <2>2, <2>4, <2>5
    DEF NotificationInv, MapMatchesNotifications, StopNotifiesMainLoop
<1>7. CASE StopEnds
  <2>. DEFINE mine == {c \in inMap : loopOf[c] = Main}
  <2>1. /\ phase = "joining" /\ phase' = "stopped" /\ inMap' = {}
        /\ state' = [c \in Conns |-> IF c \in mine THEN "kDisconnected" ELSE state[c]]
        /\ downs' = [c \in Conns |-> IF c \in mine THEN downs[c] + 1 ELSE downs[c]]
        /\ UNCHANGED <<num, nextSub, loopOf, removing, shutting, queue, life, ups>>
    BY <1>7 DEF StopEnds
  <2>2. \A c \in mine :
          /\ state[c] \in {"kConnected", "kDisconnecting", "kDisconnected"}
          /\ ups[c] = 1 /\ downs[c] = 0
    BY <1>0, <2>1 DEF MapMatchesNotifications, StateInv, TypeOK
  <2>3. TypeOK'
    BY <1>0, <2>1 DEF TypeOK
  <2>4. EstablishInv'
    BY <1>0, <2>1, <2>2 DEF EstablishInv
  <2>5. RemoveInv'
    BY <1>0, <2>1, <2>2 DEF RemoveInv
  <2>6. StateInv'
    BY <1>0, <2>1, <2>2 DEF StateInv, TypeOK
  <2>7. StopNotifiesMainLoop'
    <3>. SUFFICES ASSUME NEW c \in Conns, loopOf'[c] = Main PROVE downs'[c] = ups'[c]
      BY DEF StopNotifiesMainLoop
    <3>1. CASE c \in mine
      BY <1>0, <2>1, <2>2, <3>1 DEF TypeOK
    <3>2. CASE c \notin mine
      <4>1. state[c] = "none" \/ downs[c] # 0
        BY <1>0, <2>1, <3>2 DEF MapMatchesNotifications, RemovingInv, TypeOK
      <4>2. ups[c] \in {0, 1} /\ downs[c] <= ups[c] /\ downs[c] \in Nat
            /\ (state[c] = "none" => ups[c] = 0 /\ downs[c] = 0)
        BY <1>0 DEF StateInv, TypeOK
      <4>. QED
        BY <2>1, <3>2, <4>1, <4>2
    <3>. QED
      BY <3>1, <3>2
  <2>8. RemovingInv' /\ ShuttingInv'
    BY <1>0, <2>1 DEF RemovingInv, ShuttingInv, TypeOK
  <2>. QED
    BY <2>1, <2>3, <2>4, <2>5, <2>6, <2>7, <2>8
    DEF NotificationInv, MapMatchesNotifications
<1>9. ASSUME NEW c \in Conns, NotifyRemoved(c) PROVE NotificationInv'
  <2>1. /\ c \in removing /\ removing' = removing \ {c}
        /\ state' = [state EXCEPT ![c] = "kDisconnected"]
        /\ downs' = [downs EXCEPT ![c] = @ + 1]
        /\ UNCHANGED <<num, phase, nextSub, inMap, loopOf, shutting, queue, life, ups>>
    BY <1>9 DEF NotifyRemoved
  <2>2. ups[c] = 1 /\ downs[c] = 0 /\ c \notin inMap
    BY <1>0, <2>1 DEF RemovingInv
  <2>3. TypeOK'
    BY <1>0, <2>1 DEF TypeOK
  <2>4. EstablishInv' /\ RemoveInv'
    BY <1>0, <2>1, <2>2 DEF EstablishInv, RemoveInv, TypeOK
  <2>5. StateInv' /\ RemovingInv' /\ ShuttingInv'
    BY <1>0, <2>1, <2>2 DEF StateInv, RemovingInv, ShuttingInv, TypeOK
  <2>6. MapMatchesNotifications' /\ StopNotifiesMainLoop'
    BY <1>0, <2>1, <2>2
    DEF MapMatchesNotifications, StopNotifiesMainLoop, StateInv, TypeOK
  <2>. QED
    BY <1>0, <2>1, <2>3, <2>4, <2>5, <2>6 DEF NotificationInv
<1>10. ASSUME NEW c \in Conns, NEW t \in Callers, ShutdownChecks(t, c)
       PROVE  NotificationInv'
  <2>1. /\ state[c] = "kConnected"
        /\ shutting' = [shutting EXCEPT ![c] = @ \cup {t}]
        /\ UNCHANGED <<num, phase, nextSub, inMap, loopOf, removing, state, queue, life,
                       ups, downs>>
    BY <1>10 DEF ShutdownChecks
  <2>2. TypeOK'
    BY <1>0, <2>1 DEF TypeOK
  <2>3. EstablishInv' /\ RemoveInv' /\ StateInv' /\ RemovingInv'
    BY <1>0, <2>1 DEF EstablishInv, RemoveInv, StateInv, RemovingInv
  <2>4. ShuttingInv'
    BY <1>0, <2>1 DEF ShuttingInv, StateInv, TypeOK
  <2>. QED
    BY <1>0, <2>1, <2>2, <2>3, <2>4
    DEF NotificationInv, MapMatchesNotifications, StopNotifiesMainLoop
<1>11. ASSUME NEW c \in Conns, NEW t \in Callers, ShutdownStores(t, c)
       PROVE  NotificationInv'
  <2>1. /\ t \in shutting[c] /\ shutting' = [shutting EXCEPT ![c] = @ \ {t}]
        /\ state' = [state EXCEPT ![c] = "kDisconnecting"]
        /\ UNCHANGED <<num, phase, nextSub, inMap, loopOf, removing, queue, life, ups,
                       downs>>
    BY <1>11 DEF ShutdownStores
  <2>2. ups[c] = 1 /\ state[c] # "none"
    BY <1>0, <2>1 DEF ShuttingInv, StateInv
  <2>3. TypeOK'
    BY <1>0, <2>1 DEF TypeOK
  <2>4. EstablishInv' /\ RemoveInv'
    BY <1>0, <2>1, <2>2 DEF EstablishInv, RemoveInv, TypeOK
  <2>5. StateInv' /\ RemovingInv' /\ ShuttingInv'
    BY <1>0, <2>1, <2>2 DEF StateInv, RemovingInv, ShuttingInv, TypeOK
  <2>6. MapMatchesNotifications' /\ StopNotifiesMainLoop'
    BY <1>0, <2>1, <2>2
    DEF MapMatchesNotifications, StopNotifiesMainLoop, TypeOK
  <2>. QED
    BY <1>0, <2>1, <2>3, <2>4, <2>5, <2>6 DEF NotificationInv
<1>8. CASE UNCHANGED vars
  <2>1. /\ TypeOK' /\ EstablishInv' /\ RemoveInv' /\ StateInv'
        /\ RemovingInv' /\ ShuttingInv'
    BY <1>0, <1>8 DEF vars, TypeOK, EstablishInv, RemoveInv, StateInv, RemovingInv,
                      ShuttingInv
  <2>. QED
    BY <1>0, <1>8, <2>1
    DEF vars, NotificationInv, MapMatchesNotifications, StopNotifiesMainLoop
<1>. QED
  BY <1>1, <1>2, <1>3, <1>4, <1>5, <1>6, <1>7, <1>8, <1>9, <1>10,
     <1>11 DEF Next

(* The relation holds in every state.                                       *)
LEMMA NotificationInvariant == Spec => []NotificationInv
  BY NotificationInit, NotificationStep, PTL DEF Spec

-----------------------------------------------------------------------------
(* The variables of TcpServer keep their types; getNextSubLoop() never      *)
(* leaves the table of sub-reactors.                                        *)
THEOREM TypeCorrect == Spec => []TypeOK
<1>1. NotificationInv => TypeOK
  BY DEF NotificationInv
<1>. QED
  BY <1>1, NotificationInvariant, PTL

(* The application hears of a connection once when it is established and at *)
(* most once, afterwards, when it is gone, even if a removal is queued      *)
(* while stop() destroys the connection.                                    *)
THEOREM NotificationsArePaired == Spec => []NotificationsPaired
<1>1. NotificationInv => NotificationsPaired
  <2>. SUFFICES ASSUME NotificationInv, NEW c \in Conns
                PROVE  ups[c] <= 1 /\ downs[c] <= ups[c]
    BY DEF NotificationsPaired
  <2>1. state[c] \in {"none", "kConnecting", "kConnected", "kDisconnecting",
                      "kDisconnected"}
    BY DEF NotificationInv, TypeOK
  <2>. QED
    BY <2>1 DEF NotificationInv, StateInv
<1>. QED
  BY <1>1, NotificationInvariant, PTL

(* Until stop() has cleared it, connections_ and the connections whose      *)
(* removal is between its unlock and its notification are, without overlap, *)
(* exactly those whose close was not yet notified.                          *)
THEOREM MapIsExact == Spec => []MapMatchesNotifications
<1>1. NotificationInv => MapMatchesNotifications
  BY DEF NotificationInv
<1>. QED
  BY <1>1, NotificationInvariant, PTL

(* When stop() has returned, the application was told of the close of every *)
(* connection of the main loop.                                             *)
THEOREM StopNotifies == Spec => []StopNotifiesMainLoop
<1>1. NotificationInv => StopNotifiesMainLoop
  BY DEF NotificationInv
<1>. QED
  BY <1>1, NotificationInvariant, PTL

-----------------------------------------------------------------------------
(* The Acceptor that TcpServer owns: for any descriptor limit, any number   *)
(* of arrivals and any use of descriptors by the rest of the process, the   *)
(* EMFILE branch leaks nothing and edge-triggered accept strands nobody.    *)

(* The types alone are not inductive: that close() never takes `used'       *)
(* below zero is what the account of the descriptors says.                  *)
DescriptorInv == AcceptorTypeOK /\ DescriptorsAccounted

(* The reserved descriptor is open before the first event.                  *)
LEMMA DescriptorInit ==
  ASSUME AcceptorInit
  PROVE  DescriptorInv
<1>1. /\ pc \in {"wait", "accept", "discard", "tmp", "reopen"}
      /\ idle \in BOOLEAN /\ armed \in BOOLEAN /\ gaveUp \in BOOLEAN
  BY Zenon DEF AcceptorInit
<1>2. /\ used \in 0..FdLimit /\ others \in 0..MaxOthers /\ arrived \in 0..MaxArrivals
      /\ backlog \in Nat /\ conns \in Nat
  BY AcceptorAssumption DEF AcceptorInit
<1>3. Count(idle) = 1 /\ Count(pc = "tmp") = 0
  BY DEF AcceptorInit, Count
<1>. QED
  BY <1>1, <1>2, <1>3 DEF AcceptorInit, DescriptorInv, AcceptorTypeOK, DescriptorsAccounted

(* Every step of handleRead and of the rest of the process opens or closes  *)
(* exactly the descriptors that change hands.                               *)
LEMMA DescriptorStep ==
  ASSUME DescriptorInv, [AcceptorNext]_acceptorVars
  PROVE  DescriptorInv'
<1>. SUFFICES ASSUME AcceptorTypeOK, DescriptorsAccounted, [AcceptorNext]_acceptorVars
              PROVE  AcceptorTypeOK' /\ DescriptorsAccounted'
  BY DEF DescriptorInv
<1>. USE AcceptorAssumption DEF AcceptorTypeOK, DescriptorsAccounted, Count, TableFull
<1>1. CASE Dispatch
  BY <1>1 DEF Dispatch
<1>2. CASE AcceptOk
  BY <1>2 DEF AcceptOk
<1>3. CASE AcceptAgain
  BY <1>3 DEF AcceptAgain
<1>4. CASE AcceptOtherError
  BY <1>4 DEF AcceptOtherError, AcceptFails
<1>5. CASE AcceptTableFull
  <2>1. CASE idle
    <3>1. used = 1 + conns + others /\ used' = used - 1 /\ ~idle' /\ pc' = "discard"
      BY <1>5, <2>1 DEF AcceptTableFull
    <3>2. used' \in 0..FdLimit
      BY <3>1
    <3>3. DescriptorsAccounted'
      BY <1>5, <3>1 DEF AcceptTableFull
    <3>4. AcceptorTypeOK'
      BY <1>5, <3>1, <3>2 DEF AcceptTableFull
    <3>. QED
      BY <3>3, <3>4
  <2>2. CASE ~idle
    BY <1>5, <2>2 DEF AcceptTableFull
  <2>. QED
    BY <2>1, <2>2
<1>6. CASE AcceptDiscard
  BY <1>6 DEF AcceptDiscard
<1>7. CASE AcceptDiscardFails
  BY <1>7 DEF AcceptDiscardFails, AcceptFails
<1>8. CASE CloseTmp
  BY <1>8 DEF CloseTmp
<1>9. CASE Reopen
  <2>1. CASE idle
    BY <1>9, <2>1 DEF Reopen
  <2>2. CASE ~idle /\ TableFull
    BY <1>9, <2>2 DEF Reopen
  <2>3. CASE ~idle /\ ~TableFull
    <3>0. idle'
      BY <1>9, <2>3, Zenon DEF Reopen
    <3>1. used = conns + others /\ used' = used + 1 /\ idle' /\ pc' = "accept"
      BY <1>9, <2>3, <3>0 DEF Reopen
    <3>2. used' \in 0..FdLimit
      BY <2>3, <3>1
    <3>3. DescriptorsAccounted'
      BY <1>9, <3>1 DEF Reopen
    <3>4. idle' \in BOOLEAN
      BY <1>9, Zenon DEF Reopen
    <3>5. AcceptorTypeOK'
      BY <1>9, <3>1, <3>2, <3>4 DEF Reopen
    <3>. QED
      BY <3>3, <3>5
  <2>. QED
    BY <2>1, <2>2, <2>3
<1>10. CASE ClientConnects
  BY <1>10 DEF ClientConnects
<1>11. CASE ConnectionCloses
  BY <1>11 DEF ConnectionCloses
<1>12. CASE OtherOpens
  BY <1>12 DEF OtherOpens
<1>13. CASE OtherCloses
  BY <1>13 DEF OtherCloses
<1>14. CASE UNCHANGED acceptorVars
  BY <1>14 DEF acceptorVars
<1>. QED
  BY <1>1, <1>2, <1>3, <1>4, <1>5, <1>6, <1>7, <1>8, <1>9, <1>10, <1>11, <1>12,
     <1>13, <1>14 DEF AcceptorNext, HandleRead, Accepting

(* The two together hold in every state.                                    *)
LEMMA DescriptorInvariant == AcceptorSpec => []DescriptorInv
<1>1. AcceptorInit => DescriptorInv
  BY DescriptorInit
<1>2. DescriptorInv /\ [AcceptorNext]_acceptorVars => DescriptorInv'
  BY DescriptorStep
<1>. QED
  BY <1>1, <1>2, PTL DEF AcceptorSpec

(* The variables of Acceptor keep their types; in particular the process    *)
(* never uses more descriptors than the limit, nor closes one it has not.   *)
THEOREM AcceptorTypeCorrect == AcceptorSpec => []AcceptorTypeOK
<1>1. DescriptorInv => AcceptorTypeOK
  BY DEF DescriptorInv
<1>. QED
  BY <1>1, DescriptorInvariant, PTL

(* handleRead neither leaks a descriptor nor closes one twice, whichever    *)
(* calls of its EMFILE branch fail and whatever other threads open and      *)
(* close in between.                                                        *)
THEOREM NoDescriptorLeak == AcceptorSpec => []DescriptorsAccounted
<1>1. DescriptorInv => DescriptorsAccounted
  BY DEF DescriptorInv
<1>. QED
  BY <1>1, DescriptorInvariant, PTL

(* handleRead returns with connections still in the backlog only when a new *)
(* edge is pending, or when accept failed with an errno it does not name.   *)
THEOREM NobodyStranded == AcceptorSpec => []NoStrandedConnection
<1>1. AcceptorInit => NoStrandedConnection
  BY DEF AcceptorInit, NoStrandedConnection
<1>2. AcceptorTypeOK /\ NoStrandedConnection /\ [AcceptorNext]_acceptorVars => NoStrandedConnection'
  BY DEF AcceptorTypeOK, NoStrandedConnection, AcceptorNext, acceptorVars, Dispatch, HandleRead, Accepting, AcceptOk,
         AcceptAgain, AcceptOtherError, AcceptTableFull, AcceptDiscard,
         AcceptDiscardFails, AcceptFails, CloseTmp, Reopen, ClientConnects, ConnectionCloses,
         OtherOpens, OtherCloses
<1>. QED
  BY <1>1, <1>2, AcceptorTypeCorrect, PTL DEF AcceptorSpec
=============================================================================
