--------------------------- MODULE WsClient_proofs ---------------------------
(***************************************************************************)
(* What a handler may rely on, for every queue limit and every number and  *)
(* size of messages: OnClosed comes once and tells the truth, queued       *)
(* messages are woken up, the close handshake comes last, and received     *)
(* messages are whole.  Proved of a connection and carried over to the     *)
(* connection of a client.  The last section is about the loop that all    *)
(* connections of a shard run on: it loses no task and no timer.           *)
(***************************************************************************)
EXTENDS WsClient, WsEventLoop, SequenceTheorems, TLAPS

\* What lws reports of the socket and what the connection and its handler have
\* recorded of it agree.
LifeInv ==
  /\ wsi \in {"none", "connecting", "open", "closing", "gone"}
  /\ established \in BOOLEAN /\ closeRequested \in BOOLEAN /\ closedDelivered \in BOOLEAN
  /\ connectFailed \in BOOLEAN /\ handed \in BOOLEAN
  /\ connected = established
  /\ closes = IF closedDelivered THEN 1 ELSE 0
  /\ established \/ closeRequested => handed
  /\ wsi = "none" => ~handed /\ ~closedDelivered
  /\ wsi = "connecting" => handed /\ ~established /\ ~closedDelivered
  /\ wsi \in {"open", "closing"} => established /\ ~closedDelivered
  /\ wsi = "gone" /\ handed => closedDelivered
  /\ closedDelivered => wsi = "gone" /\ (connectFailed <=> ~established)

\* The send queue: what was accepted is written or queued, nothing is queued
\* before the connection is established, and a close that was requested before
\* then kills the connect.
QueueInv ==
  /\ outgoing \in Seq(Sizes) /\ accepted \in Nat /\ written \in Nat
  /\ writable \in BOOLEAN /\ handshake \in BOOLEAN
  /\ written + Len(outgoing) = accepted
  /\ ~established => outgoing = <<>>
  /\ wsi = "connecting" /\ closeRequested => timeout = "kill"
  /\ NoLostWakeup
  /\ handshake => closeRequested /\ outgoing = <<>>

\* The fragments so far are those of the message that is arriving, in order.
InboundInv ==
  /\ arriving \in [message : {0, 1}, fragments : Nat]
  /\ arriving.fragments > 0 =>
       /\ incoming \in Seq({0, 1} \X Nat \X BOOLEAN)
       /\ Len(incoming) = arriving.fragments
       /\ \A i \in 1..Len(incoming) : incoming[i] = <<arriving.message, i, FALSE>>

\* HandleLws delivers a message whole: its fragments in order up to the final
\* one, and none of another message.
WholeMessages ==
  /\ received \in Seq({0, 1} \X Nat \X BOOLEAN)
  /\ \A i \in 1..Len(received) : received[i] = <<received[1][1], i, i = Len(received)>>

-----------------------------------------------------------------------------
\* A connection begins unborn.
LEMMA LifeInitially == Init => LifeInv
BY Zenon DEF Init, LifeInv

\* Every callback and call keeps its life in order.
LEMMA LifeStep == LifeInv /\ [Next]_vars => LifeInv'
<1> SUFFICES ASSUME LifeInv, [Next]_vars PROVE LifeInv'
  OBVIOUS
<1> USE DEF queue, flags, handler, traffic, inbound
<1>1. CASE Connect
  <2>1. CASE FinishConnection(TRUE) /\ UNCHANGED handed
    BY <1>1, <2>1 DEF Connect, FinishConnection, LifeInv
  <2>2. CASE /\ wsi' \in {"gone", "connecting"}
             /\ handed' = (wsi' = "connecting")
             /\ UNCHANGED <<flags, handler>>
    BY <1>1, <2>2, Zenon DEF Connect, LifeInv
  <2> QED BY <1>1, <2>1, <2>2, Zenon DEF Connect
<1>2. CASE Established
  BY <1>2 DEF Established, LifeInv
<1>3. CASE ConnectionError
  BY <1>3 DEF ConnectionError, FinishConnection, LifeInv
<1>4. CASE Enqueue
  BY <1>4 DEF Enqueue, LifeInv
<1>5. CASE Close
  BY <1>5 DEF Close, CloseTimeout, LifeInv
<1>6. CASE Writeable
  BY <1>6 DEF Writeable, RequestsMore, MayShake, LifeInv
<1>7. CASE Receive
  BY <1>7 DEF Receive, LifeInv
<1>8. CASE PeerCloses
  BY <1>8 DEF PeerCloses, LifeInv
<1>9. CASE DrainTimeout
  BY <1>9 DEF DrainTimeout, LifeInv
<1>10. CASE Closed
  BY <1>10 DEF Closed, FinishConnection, ClosedArgument, LifeInv
<1>11. CASE UNCHANGED vars
  BY <1>11 DEF vars, LifeInv
<1> QED BY <1>1, <1>2, <1>3, <1>4, <1>5, <1>6, <1>7, <1>8, <1>9, <1>10, <1>11 DEF Next

\* Nothing is queued at first.
LEMMA QueueInitially == Init => QueueInv
<1> SUFFICES ASSUME Init PROVE QueueInv
  OBVIOUS
<1>1. outgoing \in Seq(Sizes) /\ Len(outgoing) = 0 /\ outgoing = <<>>
  BY EmptySeq DEF Init
<1>2. accepted \in Nat /\ written \in Nat /\ written + Len(outgoing) = accepted
  BY <1>1 DEF Init
<1>3. writable \in BOOLEAN /\ handshake \in BOOLEAN /\ ~handshake /\ wsi = "none"
  BY Zenon DEF Init
<1> QED BY <1>1, <1>2, <1>3 DEF QueueInv, NoLostWakeup

\* Every step leaves the queue with a writable callback to empty it.
LEMMA QueueStep == LifeInv /\ QueueInv /\ [Next]_vars => QueueInv'
<1> SUFFICES ASSUME LifeInv, QueueInv, [Next]_vars PROVE QueueInv'
  OBVIOUS
<1> USE DEF queue, flags, handler, traffic, inbound
<1>1. CASE Connect
  <2>1. UNCHANGED <<queue, established, closeRequested, writable, timeout, traffic>>
    BY <1>1, Zenon DEF Connect, FinishConnection
  <2>2. wsi' # "open" /\ ~closeRequested
    BY <1>1, Zenon DEF Connect, FinishConnection, LifeInv
  <2> QED BY <2>1, <2>2 DEF QueueInv, NoLostWakeup
<1>2. CASE Established
  BY <1>2 DEF Established, LifeInv, QueueInv, NoLostWakeup
<1>3. CASE ConnectionError
  BY <1>3 DEF ConnectionError, FinishConnection, LifeInv, QueueInv, NoLostWakeup
<1>4. CASE Enqueue
  BY <1>4 DEF Enqueue, LifeInv, QueueInv, NoLostWakeup
<1>5. CASE Close
  BY <1>5 DEF Close, CloseTimeout, LifeInv, QueueInv, NoLostWakeup
<1>6. CASE Writeable
  <2>1. CASE outgoing # <<>> /\ wsi' = "closing" /\ UNCHANGED <<queue, written, handshake>>
    BY <1>6, <2>1, Zenon DEF Writeable, LifeInv, QueueInv, NoLostWakeup
  <2>2. ASSUME NEW rest, rest = IF outgoing = <<>> THEN <<>> ELSE Tail(outgoing),
               outgoing' = rest, written' = IF outgoing = <<>> THEN written ELSE written + 1,
               writable' = RequestsMore(rest), handshake' = MayShake(rest)
        PROVE  QueueInv'
    <3>1. rest \in Seq(Sizes) /\ written' + Len(rest) = accepted /\ written' \in Nat
      BY <2>2, HeadTailProperties, EmptySeq, LenProperties DEF QueueInv
    <3> QED BY <1>6, <2>2, <3>1, Zenon DEF Writeable, RequestsMore, MayShake, LifeInv, QueueInv, NoLostWakeup
  <2> QED BY <1>6, <2>1, <2>2, Zenon DEF Writeable
<1>7. CASE Receive
  BY <1>7 DEF Receive, LifeInv, QueueInv, NoLostWakeup
<1>8. CASE PeerCloses
  BY <1>8 DEF PeerCloses, LifeInv, QueueInv, NoLostWakeup
<1>9. CASE DrainTimeout
  BY <1>9 DEF DrainTimeout, LifeInv, QueueInv, NoLostWakeup
<1>10. CASE Closed
  BY <1>10 DEF Closed, FinishConnection, ClosedArgument, LifeInv, QueueInv, NoLostWakeup
<1>11. CASE UNCHANGED vars
  BY <1>11 DEF vars, LifeInv, QueueInv, NoLostWakeup
<1> QED BY <1>1, <1>2, <1>3, <1>4, <1>5, <1>6, <1>7, <1>8, <1>9, <1>10, <1>11 DEF Next

\* Every step but Receive leaves the inbound side alone.
LEMMA InboundUntouched ==
  ASSUME [Next]_vars, ~Receive
  PROVE  UNCHANGED inbound
BY Zenon DEF Next, vars, Connect, Established, ConnectionError, FinishConnection, Enqueue, Close, Writeable,
       PeerCloses, DrainTimeout, Closed

\* Nothing has been received at first.
LEMMA InboundInitially == Init => InboundInv /\ WholeMessages
BY EmptySeq DEF Init, InboundInv, WholeMessages

\* Every fragment keeps the message that is being put together whole.
LEMMA InboundStep == InboundInv /\ WholeMessages /\ [Next]_vars => InboundInv' /\ WholeMessages'
<1> SUFFICES ASSUME InboundInv, WholeMessages, [Next]_vars PROVE InboundInv' /\ WholeMessages'
  OBVIOUS
<1>1. CASE ~Receive
  BY <1>1, InboundUntouched, Zenon DEF inbound, InboundInv, WholeMessages
<1>2. CASE Receive
  <2> DEFINE index == arriving.fragments + 1
             Fragment == {0, 1} \X Nat \X BOOLEAN
             sofar == IF index = 1 THEN <<>> ELSE incoming
  <2>1. index \in Nat /\ index > 0 /\ arriving.message \in {0, 1} /\ arriving.fragments = index - 1
    BY DEF InboundInv
  <2>a. (IF index < MaxFragments THEN BOOLEAN ELSE {TRUE}) \subseteq BOOLEAN
    BY Zenon
  <2>2. PICK final \in BOOLEAN :
          LET whole == Append(sofar, <<arriving.message, index, final>>)
          IN  /\ incoming' = IF final THEN <<>> ELSE whole
              /\ received' = IF final THEN whole ELSE <<>>
              /\ arriving' = IF final THEN [message |-> 1 - arriving.message, fragments |-> 0]
                             ELSE [arriving EXCEPT !.fragments = index]
    BY <1>2, <2>a, Zenon DEF Receive
  <2> DEFINE fragment == <<arriving.message, index, final>>
             whole == Append(sofar, fragment)
  <2>3. sofar \in Seq(Fragment) /\ Len(sofar) = index - 1
        /\ \A i \in 1..Len(sofar) : sofar[i] = <<arriving.message, i, FALSE>>
    <3>1. CASE index = 1
      <4>1. sofar = <<>>
        BY <3>1
      <4>2. sofar \in Seq(Fragment) /\ Len(sofar) = 0
        BY <4>1, EmptySeq, Zenon
      <4> QED BY <2>1, <3>1, <4>2
    <3>2. CASE index # 1
      <4>1. sofar = incoming /\ arriving.fragments > 0
        BY <2>1, <3>2
      <4> QED BY <2>1, <4>1, Zenon DEF InboundInv
    <3> QED BY <3>1, <3>2, Zenon
  <2>4. fragment \in Fragment
    BY <2>1
  <2> HIDE DEF index, sofar, fragment, Fragment
  <2>5. /\ whole \in Seq(Fragment) /\ Len(whole) = index
        /\ \A i \in 1..Len(whole) : whole[i] = IF i = index THEN fragment ELSE sofar[i]
    <3>1. whole \in Seq(Fragment) /\ Len(whole) = Len(sofar) + 1
      BY <2>3, <2>4, AppendProperties
    <3>2. \A i \in 1..Len(sofar) : whole[i] = sofar[i]
      BY <2>3, <2>4, AppendProperties
    <3>3. whole[Len(sofar) + 1] = fragment
      BY <2>3, <2>4, AppendProperties
    <3> QED BY <2>1, <2>3, <3>1, <3>2, <3>3
  <2> HIDE DEF whole
  <2>6. \A i \in 1..Len(whole) : whole[i] = <<arriving.message, i, IF i = index THEN final ELSE FALSE>>
    <3> SUFFICES ASSUME NEW i \in 1..Len(whole)
                 PROVE  whole[i] = <<arriving.message, i, IF i = index THEN final ELSE FALSE>>
      BY Zenon
    <3>1. CASE i = index
      BY <2>5, <3>1 DEF fragment
    <3>2. CASE i # index
      <4>1. i \in 1..Len(sofar)
        BY <2>1, <2>3, <2>5, <3>2
      <4> QED BY <2>3, <2>5, <3>2, <4>1, Zenon
    <3> QED BY <3>1, <3>2, Zenon
  <2>7. CASE final
    <3>1. received' = whole /\ arriving' = [message |-> 1 - arriving.message, fragments |-> 0]
      BY <2>2, <2>7, Zenon DEF fragment, whole
    <3>2. \A i \in 1..Len(whole) : whole[i] = <<arriving.message, i, i = Len(whole)>>
      BY <2>1, <2>5, <2>6, <2>7, Zenon
    <3>3. whole[1][1] = arriving.message
      BY <2>1, <2>5, <3>2
    <3>4. WholeMessages'
      BY <2>5, <3>1, <3>2, <3>3, Zenon DEF WholeMessages, Fragment
    <3>5. InboundInv'
      BY <2>1, <3>1 DEF InboundInv
    <3> QED BY <3>4, <3>5
  <2>8. CASE ~final
    <3>1. /\ incoming' = whole /\ received' = <<>>
          /\ arriving' = [arriving EXCEPT !.fragments = index]
      BY <2>2, <2>8 DEF fragment, whole
    <3>2. \A i \in 1..Len(whole) : whole[i] = <<arriving.message, i, FALSE>>
      BY <2>5, <2>6, <2>8, Zenon
    <3>3. arriving' \in [message : {0, 1}, fragments : Nat] /\ arriving'.message = arriving.message
          /\ arriving'.fragments = index
      BY <2>1, <3>1 DEF InboundInv
    <3>4. InboundInv'
      BY <2>5, <3>1, <3>2, <3>3, Zenon DEF InboundInv, Fragment
    <3>5. WholeMessages'
      BY <3>1, EmptySeq DEF WholeMessages
    <3> QED BY <3>4, <3>5
  <2> QED BY <2>7, <2>8
<1> QED BY <1>1, <1>2

-----------------------------------------------------------------------------
ConnectionInv == LifeInv /\ QueueInv /\ InboundInv /\ WholeMessages

\* A connection begins with all three.
LEMMA ConnectionInitially == Init => ConnectionInv
BY LifeInitially, QueueInitially, InboundInitially DEF ConnectionInv

\* Every step of a connection keeps all three.
LEMMA ConnectionStep == ConnectionInv /\ [Next]_vars => ConnectionInv'
BY LifeStep, QueueStep, InboundStep DEF ConnectionInv

\* The invariant says what the handler and the peer may rely on.
LEMMA ConnectionPromises == ConnectionInv => ClosedOnce /\ NoLostWakeup /\ ByeBeforeClose
<1> SUFFICES ASSUME ConnectionInv PROVE ClosedOnce /\ NoLostWakeup /\ ByeBeforeClose
  OBVIOUS
<1>1. LifeInv /\ QueueInv
  BY DEF ConnectionInv
<1>2. closes <= 1 /\ (handed /\ wsi = "gone" => closes = 1)
  BY <1>1 DEF LifeInv
<1>3. closes = 1 => connectFailed = ~connected
  BY <1>1 DEF LifeInv
<1>4. ByeBeforeClose
  BY <1>1, EmptySeq DEF QueueInv, ByeBeforeClose
<1> QED BY <1>1, <1>2, <1>3, <1>4 DEF ClosedOnce, QueueInv

\* A client's step is a step of its connection or leaves it alone.
LEMMA ClientStep == [ClientNext]_clientVars => [Next]_vars
BY DEF ClientNext, clientVars, ParseEndpoint, ConnectTo, ReceiveText, ReceiveBinary, Connection, Next

\* A fork's socket keeps all of it, whatever the URL, the server's texts, the
\* limit of the queue, and the number and the sizes of the messages.
THEOREM ClientInvariant == ClientSpec => []ConnectionInv
<1>1. ClientInit => ConnectionInv
  BY ConnectionInitially DEF ClientInit
<1>2. ConnectionInv /\ [ClientNext]_clientVars => ConnectionInv'
  BY ConnectionStep, ClientStep
<1> QED BY <1>1, <1>2, PTL DEF ClientSpec

\* OnClosed is delivered at most once and only for a connection that is gone,
\* always for one that was handed out, and says connect_failed exactly if
\* OnConnected never came (FinishConnection, HandleLws).
THEOREM OnClosedOnce == ClientSpec => []ClosedOnce
BY ClientInvariant, ConnectionPromises, PTL

\* No queued message and no requested close waits for a writable callback that
\* nobody asked lws for (Enqueue, Close, HandleLws).
THEOREM WakeupNeverLost == ClientSpec => []NoLostWakeup
BY ClientInvariant, ConnectionPromises, PTL

\* The close handshake is sent after the last accepted message, the bye
\* included, whatever the sizes (Close, HandleLws).
THEOREM HandshakeComesLast == ClientSpec => []ByeBeforeClose
BY ClientInvariant, ConnectionPromises, PTL

\* OnText and OnBinary see whole messages, the fragments of one in order and
\* none of another, however many fragments the peer sends (HandleLws).
THEOREM MessagesArriveWhole == ClientSpec => []WholeMessages
<1>1. ConnectionInv => WholeMessages
  BY DEF ConnectionInv
<1> QED BY <1>1, ClientInvariant, PTL

-----------------------------------------------------------------------------
(* The loop the connections of a shard run on (WsEventLoop), for any        *)
(* number of threads that post to it and any number of tasks and timers.    *)

\* Task by task: the tasks in all are exactly those count says each thread of P
\* has posted, in order.
Ordered(P, all, count) ==
  /\ \A i \in 1..Len(all) : all[i][2] \in 1..count[all[i][1]]
  /\ \A p \in P : \A n \in 1..count[p] : \E i \in 1..Len(all) : all[i][1] = p /\ all[i][2] = n
  /\ \A i, j \in 1..Len(all) : i < j /\ all[i][1] = all[j][1] => all[i][2] < all[j][2]

\* Timer by timer: of n timers, those in T are pending, those in D due, and F are
\* the ids of those that have fired.
Apart(T, D, F, n) ==
  /\ \A s, t \in T \cup D : s.id = t.id => s = t
  /\ \A s \in T \cup D : s.id \in 1..n /\ s.id \notin F
  /\ F \subseteq 1..n
  /\ T \cap D = {}
  /\ \A k \in 1..n : k \in F \/ \E s \in T \cup D : s.id = k

\* Post: the next task of a thread goes to the end.
LEMMA PostsInOrder ==
  ASSUME NEW P, NEW all \in Seq(P \X Nat), NEW count \in [P -> Nat], NEW p \in P,
         Ordered(P, all, count)
  PROVE  Ordered(P, Append(all, <<p, count[p] + 1>>), [count EXCEPT ![p] = @ + 1])
<1> DEFINE x == <<p, count[p] + 1>>
           new == Append(all, x)
           more == [count EXCEPT ![p] = @ + 1]
           L == Len(all)
<1>1. count[p] \in Nat /\ x \in P \X Nat /\ x[1] = p /\ x[2] = count[p] + 1
  OBVIOUS
<1>2. L \in Nat
  BY LenProperties
<1> HIDE DEF x
<1>3. Len(new) = L + 1 /\ new[L + 1] = x /\ \A i \in 1..L : new[i] = all[i]
  BY <1>1, AppendProperties
<1>4. \A i \in 1..L : all[i] \in P \X Nat
  BY ElementOfSeq
<1>5. \A i \in 1..L : all[i][1] \in P /\ all[i][2] \in Nat
  BY <1>4
<1>6. /\ more[p] = count[p] + 1
      /\ \A q \in P : q # p => more[q] = count[q]
      /\ \A q \in P : count[q] \in Nat
  OBVIOUS
<1>7. /\ \A i \in 1..L : all[i][2] \in 1..count[all[i][1]]
      /\ \A q \in P : \A n \in 1..count[q] : \E i \in 1..L : all[i][1] = q /\ all[i][2] = n
      /\ \A i, j \in 1..L : i < j /\ all[i][1] = all[j][1] => all[i][2] < all[j][2]
  BY Zenon DEF Ordered
<1> HIDE DEF new, more, L
<1>8. ASSUME NEW i \in 1..(L + 1)
      PROVE  new[i][2] \in 1..more[new[i][1]]
  <2>1. CASE i = L + 1
    BY <2>1, <1>1, <1>3, <1>6
  <2>2. CASE i # L + 1
    <3>1. i \in 1..L
      BY <2>2, <1>2
    <3>2. new[i] = all[i] /\ all[i][1] \in P /\ all[i][2] \in 1..count[all[i][1]]
      BY <3>1, <1>3, <1>5, <1>7
    <3>3. count[all[i][1]] \in Nat /\ more[all[i][1]] \in {count[all[i][1]], count[all[i][1]] + 1}
      BY <3>2, <1>6
    <3> QED BY <3>2, <3>3
  <2> QED BY <2>1, <2>2
<1>9. ASSUME NEW q \in P, NEW n \in 1..more[q]
      PROVE  \E i \in 1..(L + 1) : new[i][1] = q /\ new[i][2] = n
  <2>1. CASE q = p /\ n = count[p] + 1
    <3>1. L + 1 \in 1..(L + 1)
      BY <1>2
    <3> QED BY <2>1, <3>1, <1>1, <1>3
  <2>2. CASE ~(q = p /\ n = count[p] + 1)
    <3>1. n \in 1..count[q]
      BY <2>2, <1>6
    <3>2. PICK i \in 1..L : all[i][1] = q /\ all[i][2] = n
      BY <3>1, <1>7
    <3>3. i \in 1..(L + 1)
      BY <1>2
    <3> QED BY <3>2, <3>3, <1>3
  <2> QED BY <2>1, <2>2
<1>10. ASSUME NEW i \in 1..(L + 1), NEW j \in 1..(L + 1), i < j, new[i][1] = new[j][1]
       PROVE  new[i][2] < new[j][2]
  <2>1. i \in 1..L /\ new[i] = all[i]
    BY <1>2, <1>3, <1>10
  <2>2. CASE j = L + 1
    <3>1. all[i][1] = p /\ all[i][2] \in 1..count[p] /\ new[j][2] = count[p] + 1
      BY <2>1, <2>2, <1>1, <1>3, <1>7, <1>10
    <3> QED BY <3>1, <2>1, <1>1
  <2>3. CASE j # L + 1
    <3>1. j \in 1..L /\ new[j] = all[j]
      BY <2>3, <1>2, <1>3
    <3> QED BY <3>1, <2>1, <1>7, <1>10
  <2> QED BY <2>2, <2>3
<1>11. \A i, j \in 1..(L + 1) : i < j /\ new[i][1] = new[j][1] => new[i][2] < new[j][2]
  BY <1>10
<1>12. Ordered(P, new, more)
  BY <1>3, <1>8, <1>9, <1>11 DEF Ordered
<1> QED BY <1>12 DEF new, more, x

\* ScheduleTimer: a timer with the next id.
LEMMA SchedulesApart ==
  ASSUME NEW T, NEW D, NEW F, NEW n \in Nat, NEW t, t.id = n + 1, Apart(T, D, F, n)
  PROVE  Apart(T \cup {t}, D, F, n + 1)
<1>1. /\ \A s, u \in T \cup D : s.id = u.id => s = u
      /\ \A s \in T \cup D : s.id \in 1..n /\ s.id \notin F
      /\ F \subseteq 1..n
      /\ T \cap D = {}
      /\ \A k \in 1..n : k \in F \/ \E s \in T \cup D : s.id = k
  BY Zenon DEF Apart
<1>2. n + 1 \notin 1..n /\ n + 1 \in 1..(n + 1) /\ \A k \in 1..n : k \in 1..(n + 1)
  OBVIOUS
<1>3. \A k \in 1..(n + 1) : k \in 1..n \/ k = n + 1
  OBVIOUS
<1>4. t \notin T \cup D /\ t.id \notin F /\ \A s \in T \cup D : s.id # t.id
  BY <1>1, <1>2, ZenonT(30)
<1> DEFINE A == T \cup {t}
<1>5. \A s, u \in A \cup D : s.id = u.id => s = u
  BY <1>1, <1>4, Zenon
<1>6. \A s \in A \cup D : s.id \in 1..(n + 1) /\ s.id \notin F
  BY <1>1, <1>2, <1>4, Zenon
<1>7. F \subseteq 1..(n + 1) /\ A \cap D = {}
  BY <1>1, <1>2, <1>4, Zenon
<1>8. \A k \in 1..(n + 1) : k \in F \/ \E s \in A \cup D : s.id = k
  BY <1>1, <1>3, Zenon
<1> QED BY <1>5, <1>6, <1>7, <1>8, Zenon DEF Apart

\* DrainDueTimers: the due timers are taken out, the others stay.
LEMMA DrainsApart ==
  ASSUME NEW T, NEW D, NEW F, NEW n \in Nat, Apart(T \cup D, {}, F, n), T \cap D = {}
  PROVE  Apart(T, D, F, n)
<1>1. (T \cup D) \cup {} = T \cup D
  OBVIOUS
<1> QED BY <1>1, Zenon DEF Apart

\* A due timer is run.
LEMMA FiresApart ==
  ASSUME NEW T, NEW D, NEW F, NEW n \in Nat, NEW t \in D, Apart(T, D, F, n)
  PROVE  Apart(T, D \ {t}, F \cup {t.id}, n)
<1> DEFINE rest == D \ {t}
<1>1. /\ \A s, u \in T \cup D : s.id = u.id => s = u
      /\ \A s \in T \cup D : s.id \in 1..n /\ s.id \notin F
      /\ F \subseteq 1..n
      /\ T \cap D = {}
      /\ \A k \in 1..n : k \in F \/ \E s \in T \cup D : s.id = k
  BY Zenon DEF Apart
<1>2. t \in T \cup D /\ \A s \in T \cup rest : s \in T \cup D /\ s # t
  BY <1>1, ZenonT(30)
<1>3. \A s \in T \cup rest : s.id \in 1..n /\ s.id \notin F \cup {t.id}
  BY <1>1, <1>2, Zenon
<1>4. \A s, u \in T \cup rest : s.id = u.id => s = u
  BY <1>1, <1>2, Zenon
<1>5. F \cup {t.id} \subseteq 1..n /\ T \cap rest = {}
  <2>1. t.id \in 1..n
    BY <1>1, <1>2, Zenon
  <2>2. F \cup {t.id} \subseteq 1..n
    BY <2>1, <1>1, Zenon
  <2>3. T \cap rest = {}
    BY <1>1, Zenon
  <2> QED BY <2>2, <2>3
<1>6. ASSUME NEW k \in 1..n, k \notin F \cup {t.id}
      PROVE  \E s \in T \cup rest : s.id = k
  <2>1. PICK s \in T \cup D : s.id = k
    BY <1>1, <1>6, Zenon
  <2>2. s \in T \cup rest
    BY <2>1, <1>6, Zenon
  <2> QED BY <2>1, <2>2, Zenon
<1> HIDE DEF rest
<1>7. Apart(T, rest, F \cup {t.id}, n)
  BY <1>3, <1>4, <1>5, <1>6, Zenon DEF Apart
<1> QED BY <1>7, Zenon DEF rest

\* Ordered and Apart say what TasksInOrder and TimersApart say.
LEMMA SaysInOrder ==
  ASSUME AllTasks \in Seq(Posters \X Nat), calls \in [Posters -> Nat],
         Ordered(Posters, AllTasks, calls)
  PROVE  TasksInOrder
<1> DEFINE all == AllTasks
<1>1. DOMAIN all = 1..Len(all)
  BY LenProperties
<1> HIDE DEF all
<1>2. /\ \A i \in 1..Len(all) : all[i][2] \in 1..calls[all[i][1]]
      /\ \A p \in Posters : \A n \in 1..calls[p] : \E i \in 1..Len(all) : all[i][1] = p /\ all[i][2] = n
      /\ \A i, j \in 1..Len(all) : i < j /\ all[i][1] = all[j][1] => all[i][2] < all[j][2]
  BY Zenon DEF Ordered, all
<1>3. ASSUME NEW p \in Posters
      PROVE  {all[i][2] : i \in {j \in DOMAIN all : all[j][1] = p}} = 1..calls[p]
  <2> DEFINE mine == {j \in DOMAIN all : all[j][1] = p}
  <2>1. ASSUME NEW i \in mine PROVE all[i][2] \in 1..calls[p]
    <3>1. i \in 1..Len(all) /\ all[i][1] = p
      BY <1>1, Zenon
    <3> QED BY <3>1, <1>2, Zenon
  <2>2. ASSUME NEW n \in 1..calls[p] PROVE \E i \in mine : all[i][2] = n
    <3>1. PICK i \in 1..Len(all) : all[i][1] = p /\ all[i][2] = n
      BY <1>2, Zenon
    <3>2. i \in mine
      BY <3>1, <1>1, Zenon
    <3> QED BY <3>1, <3>2, Zenon
  <2> HIDE DEF mine
  <2>3. {all[i][2] : i \in mine} = 1..calls[p]
    BY <2>1, <2>2
  <2> QED BY <2>3, Zenon DEF mine
<1> QED BY <1>1, <1>2, <1>3, Zenon DEF TasksInOrder, all

LEMMA SaysApart ==
  ASSUME Apart(timers, due, fired, scheduled)
  PROVE  TimersApart
<1>1. /\ \A s, t \in timers \cup due : s.id = t.id => s = t
      /\ \A s \in timers \cup due : s.id \in 1..scheduled /\ s.id \notin fired
      /\ fired \subseteq 1..scheduled
      /\ timers \cap due = {}
      /\ \A k \in 1..scheduled : k \in fired \/ \E s \in timers \cup due : s.id = k
  BY Zenon DEF Apart
<1>2. /\ \A k : k \in Ids(timers) <=> \E s \in timers : s.id = k
      /\ \A k : k \in Ids(due) <=> \E s \in due : s.id = k
  BY Zenon DEF Ids
<1> DEFINE pending == Ids(timers)
           taken == Ids(due)
<1> HIDE DEF pending, taken
<1>3. \A k : k \in pending \cup taken <=> \E s \in timers \cup due : s.id = k
  BY <1>2, Zenon DEF pending, taken
<1>4. \A k \in pending : k \notin taken
  <2> SUFFICES ASSUME NEW k, k \in pending, k \in taken PROVE FALSE
    OBVIOUS
  <2>1. PICK s \in timers : s.id = k
    BY <1>2, Zenon DEF pending
  <2>2. PICK u \in due : u.id = k
    BY <1>2, Zenon DEF taken
  <2>3. s = u
    BY <2>1, <2>2, <1>1, Zenon
  <2> QED BY <2>3, <1>1, Zenon
<1>5. ASSUME NEW k \in pending \cup taken PROVE k \in 1..scheduled /\ k \notin fired
  <2>1. PICK s \in timers \cup due : s.id = k
    BY <1>3, Zenon
  <2> QED BY <2>1, <1>1, Zenon
<1>6. \A k \in 1..scheduled : k \in pending \cup taken \/ k \in fired
  BY <1>1, <1>3, Zenon
<1>7. /\ pending \cup taken \cup fired = 1..scheduled
      /\ pending \cap taken = {} /\ (pending \cup taken) \cap fired = {}
  BY <1>1, <1>4, <1>5, <1>6, Zenon
<1> QED BY <1>7, Zenon DEF TimersApart, pending, taken

\* Tasks are out of posted_ only while DrainPosted runs them, timers out of
\* timers_ only while DrainDueTimers does: a swap never overwrites any.
LoopInv ==
  /\ posted \in Seq(Posters \X Nat) /\ running \in Seq(Posters \X Nat)
  /\ ran \in Seq(Posters \X Nat)
  /\ calls \in [Posters -> Nat] /\ scheduled \in Nat
  /\ pc # "tasks" => running = <<>>
  /\ pc # "due" => due = {}
  /\ Ordered(Posters, AllTasks, calls)
  /\ Apart(timers, due, fired, scheduled)

\* The tasks that a step leaves in place.
LEMMA TasksStay ==
  ASSUME LoopInv, ran' \o running' \o posted' = ran \o running \o posted, calls' = calls
  PROVE  Ordered(Posters, AllTasks, calls)'
<1>1. AllTasks' = AllTasks
  BY Zenon DEF AllTasks
<1>2. Ordered(Posters, AllTasks, calls)
  BY Zenon DEF LoopInv
<1> QED BY <1>1, <1>2 DEF Ordered

\* A step that touches neither tasks nor timers.
LEMMA LoopRests ==
  ASSUME LoopInv,
         UNCHANGED <<posted, running, ran, calls, scheduled, timers, due, fired>>,
         pc' = pc \/ (running = <<>> /\ due = {})
  PROVE  LoopInv'
<1>1. Ordered(Posters, AllTasks, calls)'
  BY TasksStay, Zenon
<1> QED BY <1>1, Zenon DEF LoopInv

\* What joins the posted tasks joins all there have been.
LEMMA OneJoins ==
  ASSUME NEW S, NEW a \in Seq(S), NEW b \in Seq(S), NEW x \in S
  PROVE  a \o Append(b, x) = Append(a \o b, x)
<1> DEFINE last == <<x>>
           both == a \o b
<1>1. last \in Seq(S)
  OBVIOUS
<1>2. both \in Seq(S)
  BY ConcatProperties
<1>3. Append(b, x) = b \o last
  BY AppendIsConcat
<1>4. (a \o b) \o last = a \o (b \o last)
  <2> HIDE DEF last
  <2> QED BY <1>1, ConcatAssociative, SMTT(30)
<1> HIDE DEF both
<1>5. Append(both, x) = both \o last
  BY <1>2, AppendIsConcat
<1> HIDE DEF last
<1> QED BY <1>3, <1>4, <1>5, Zenon DEF both

\* Post.
LEMMA PostPushStep ==
  ASSUME LoopInv, NEW p \in Posters, PostPush(p)
  PROVE  LoopInv'
<1> DEFINE x == <<p, calls[p] + 1>>
           front == ran \o running
<1>1. /\ calls' = [calls EXCEPT ![p] = @ + 1] /\ posted' = Append(posted, x)
      /\ running' = running /\ ran' = ran /\ pc' = pc /\ scheduled' = scheduled
      /\ timers' = timers /\ due' = due /\ fired' = fired
  BY Zenon DEF PostPush, timing
<1>2. calls \in [Posters -> Nat] /\ calls[p] \in Nat /\ x \in Posters \X Nat
  BY DEF LoopInv
<1>3. /\ posted \in Seq(Posters \X Nat) /\ running \in Seq(Posters \X Nat)
      /\ ran \in Seq(Posters \X Nat)
  BY Zenon DEF LoopInv
<1>4. calls' \in [Posters -> Nat]
  BY <1>1, <1>2
<1> HIDE DEF x
<1>5. posted' \in Seq(Posters \X Nat)
  BY <1>1, <1>2, <1>3, AppendProperties
<1>6. front \in Seq(Posters \X Nat) /\ front \o posted \in Seq(Posters \X Nat)
  BY <1>3, ConcatProperties
<1> HIDE DEF front
<1>7. front \o Append(posted, x) = Append(front \o posted, x)
  <2> DEFINE S == Posters \X Nat
  <2>1. x \in S /\ posted \in Seq(S) /\ front \in Seq(S)
    BY <1>2, <1>3, <1>6
  <2> HIDE DEF S
  <2> QED BY <2>1, OneJoins
<1>8. AllTasks = front \o posted /\ AllTasks' = Append(AllTasks, x)
  BY <1>1, <1>7, Zenon DEF AllTasks, front
<1>9. Ordered(Posters, Append(AllTasks, x), [calls EXCEPT ![p] = @ + 1])
  BY <1>2, <1>6, <1>8, PostsInOrder, Zenon DEF LoopInv, x
<1>10. Ordered(Posters, AllTasks, calls)'
  BY <1>1, <1>8, <1>9, Zenon
<1> QED BY <1>1, <1>4, <1>5, <1>10, Zenon DEF LoopInv

\* DrainPosted swaps the posted tasks out when none is left to run.
LEMMA DrainPostedStep ==
  ASSUME LoopInv, DrainPosted
  PROVE  LoopInv'
<1>1. /\ pc = "drain" /\ pc' = "tasks" /\ running' = posted /\ posted' = <<>>
      /\ calls' = calls /\ ran' = ran /\ scheduled' = scheduled
      /\ timers' = timers /\ due' = due /\ fired' = fired
  BY Zenon DEF DrainPosted, LeftPosted, timing
<1>2. running = <<>> /\ due = {}
  BY <1>1 DEF LoopInv
<1>3. posted \in Seq(Posters \X Nat) /\ ran \in Seq(Posters \X Nat) /\ <<>> \in Seq(Posters \X Nat)
  BY EmptySeq, Zenon DEF LoopInv
<1>4. ran \o posted \in Seq(Posters \X Nat)
  BY <1>3, ConcatProperties
<1>5. ran \o <<>> = ran /\ (ran \o posted) \o <<>> = ran \o posted
  BY <1>3, <1>4, ConcatEmptySeq
<1>6. ran' \o running' \o posted' = ran \o running \o posted
  BY <1>1, <1>2, <1>5, Zenon
<1>7. Ordered(Posters, AllTasks, calls)'
  BY <1>1, <1>6, TasksStay, Zenon
<1>8. pc' # "due"
  BY <1>1
<1> QED BY <1>1, <1>2, <1>3, <1>7, <1>8, Zenon DEF LoopInv

\* A task or a timer may schedule another timer.
LEMMA MayScheduleApart ==
  ASSUME NEW D, NEW F, scheduled \in Nat, Apart(timers, D, F, scheduled), MaySchedule
  PROVE  scheduled' \in Nat /\ Apart(timers', D, F, scheduled')
<1>1. CASE timers' = timers /\ scheduled' = scheduled
  BY <1>1, Zenon
<1>2. CASE ~(timers' = timers /\ scheduled' = scheduled)
  <2>1. PICK delay \in 0..MaxDelay :
          /\ scheduled' = scheduled + 1
          /\ timers' = timers \cup {[id |-> scheduled + 1, deadline |-> now + delay]}
    BY <1>2, Zenon DEF MaySchedule
  <2> DEFINE t == [id |-> scheduled + 1, deadline |-> now + delay]
  <2>2. t.id = scheduled + 1 /\ scheduled + 1 \in Nat
    OBVIOUS
  <2> HIDE DEF t
  <2>3. Apart(timers \cup {t}, D, F, scheduled + 1)
    BY <2>2, SchedulesApart, Zenon
  <2> QED BY <2>1, <2>2, <2>3, Zenon DEF t
<1> QED BY <1>1, <1>2

\* The first of the tasks to run becomes the last of those that have.
LEMMA OneMoves ==
  ASSUME NEW S, NEW a \in Seq(S), NEW b \in Seq(S), b # <<>>
  PROVE  Append(a, Head(b)) \o Tail(b) = a \o b
<1> DEFINE first == <<Head(b)>>
           rest == Tail(b)
<1>1. Head(b) \in S /\ rest \in Seq(S)
  BY HeadTailProperties
<1>2. first \in Seq(S)
  BY <1>1
<1>3. b = first \o rest
  OBVIOUS
<1>4. Append(a, Head(b)) = a \o first
  BY <1>1, AppendIsConcat
<1> HIDE DEF first, rest
<1>5. (a \o first) \o rest = a \o (first \o rest)
  BY <1>1, <1>2, ConcatAssociative, SMTT(30)
<1> QED BY <1>3, <1>4, <1>5, Zenon DEF rest

\* A posted task runs.
LEMMA RunTaskStep ==
  ASSUME LoopInv, RunTask
  PROVE  LoopInv'
<1> DEFINE h == Head(running)
           rest == Tail(running)
<1>1. /\ pc = "tasks" /\ pc' = pc /\ running # <<>> /\ running' = rest /\ ran' = Append(ran, h)
      /\ posted' = posted /\ calls' = calls /\ due' = due /\ fired' = fired /\ MaySchedule
  BY Zenon DEF RunTask, posting
<1>2. /\ posted \in Seq(Posters \X Nat) /\ running \in Seq(Posters \X Nat)
      /\ ran \in Seq(Posters \X Nat)
  BY Zenon DEF LoopInv
<1>3. h \in Posters \X Nat /\ rest \in Seq(Posters \X Nat)
  BY <1>1, <1>2, HeadTailProperties
<1>4. Append(ran, h) \in Seq(Posters \X Nat)
  BY <1>2, <1>3, AppendProperties
<1>5. Append(ran, h) \o rest = ran \o running
  BY <1>1, <1>2, OneMoves, Zenon
<1> HIDE DEF h, rest
<1>6. ran' \o running' \o posted' = ran \o running \o posted
  BY <1>1, <1>5, Zenon
<1>7. Ordered(Posters, AllTasks, calls)'
  BY <1>1, <1>6, TasksStay, Zenon
<1>8. scheduled' \in Nat /\ Apart(timers', due, fired, scheduled')
  BY <1>1, MayScheduleApart, Zenon DEF LoopInv
<1>9. pc # "due"
  BY <1>1
<1> QED BY <1>1, <1>2, <1>3, <1>4, <1>7, <1>8, <1>9, Zenon DEF LoopInv

\* DrainDueTimers takes the due timers out when none is left to run.
LEMMA DrainDueStep ==
  ASSUME LoopInv, DrainDueTimers
  PROVE  LoopInv'
<1>1. /\ pc = "timers" /\ pc' = "due"
      /\ due' = {timer \in timers : IsDue(timer)}
      /\ timers' = {timer \in timers : ~IsDue(timer)}
      /\ posted' = posted /\ running' = running /\ ran' = ran /\ calls' = calls
      /\ scheduled' = scheduled /\ fired' = fired
  BY Zenon DEF DrainDueTimers, KeptTimers, posting
<1>2. running = <<>> /\ due = {}
  BY <1>1 DEF LoopInv
<1>3. timers' \cup due' = timers /\ timers' \cap due' = {}
  BY <1>1, Zenon
<1>4. Apart(timers' \cup due', {}, fired, scheduled) /\ scheduled \in Nat
  BY <1>2, <1>3, Zenon DEF LoopInv
<1>5. Apart(timers', due', fired, scheduled)
  BY <1>3, <1>4, DrainsApart, Zenon
<1>6. Ordered(Posters, AllTasks, calls)'
  BY <1>1, TasksStay, Zenon
<1> QED BY <1>1, <1>2, <1>5, <1>6, Zenon DEF LoopInv

\* A due timer's task runs.
LEMMA FireTimerStep ==
  ASSUME LoopInv, FireTimer
  PROVE  LoopInv'
<1>1. /\ pc = "due" /\ pc' = pc
      /\ posted' = posted /\ running' = running /\ ran' = ran /\ calls' = calls
      /\ MaySchedule
  BY Zenon DEF FireTimer, posting
<1>2. PICK timer \in due : due' = due \ {timer} /\ fired' = fired \cup {timer.id}
  BY Zenon DEF FireTimer
<1>3. scheduled \in Nat /\ Apart(timers, due', fired', scheduled)
  BY <1>2, FiresApart, Zenon DEF LoopInv
<1>4. scheduled' \in Nat /\ Apart(timers', due', fired', scheduled')
  BY <1>1, <1>3, MayScheduleApart, Zenon
<1>5. Ordered(Posters, AllTasks, calls)'
  BY <1>1, TasksStay, Zenon
<1>6. running = <<>>
  BY <1>1 DEF LoopInv
<1> QED BY <1>1, <1>4, <1>5, <1>6, Zenon DEF LoopInv

\* A loop that was just created.
LEMMA InitLoop == LoopInit => LoopInv
<1> SUFFICES ASSUME LoopInit PROVE LoopInv
  OBVIOUS
<1>1. /\ posted = <<>> /\ running = <<>> /\ ran = <<>> /\ calls = [p \in Posters |-> 0]
      /\ scheduled = 0 /\ timers = {} /\ due = {} /\ fired = {}
  BY Zenon DEF LoopInit
<1>2. <<>> \in Seq(Posters \X Nat) /\ Len(<<>>) = 0
  BY EmptySeq
<1>3. calls \in [Posters -> Nat] /\ \A p \in Posters : calls[p] = 0
  BY <1>1
<1>4. AllTasks = <<>>
  BY <1>1, <1>2, ConcatEmptySeq DEF AllTasks
<1>5. (\A i \in 1..Len(<<>>) : FALSE) /\ \A n \in 1..0 : FALSE
  BY <1>2
<1>6. Ordered(Posters, <<>>, calls)
  BY <1>3, <1>5, Zenon DEF Ordered
<1>7. Apart({}, {}, {}, 0)
  BY <1>5, Zenon DEF Apart
<1>8. scheduled \in Nat
  BY <1>1
<1> QED BY <1>1, <1>2, <1>3, <1>4, <1>6, <1>7, <1>8, Zenon DEF LoopInv

\* Every step of Run and of the threads that call Post and Stop.
LEMMA NextLoop == LoopInv /\ [LoopNext]_loopVars => LoopInv'
<1> SUFFICES ASSUME LoopInv, [LoopNext]_loopVars PROVE LoopInv'
  OBVIOUS
<1> USE DEF posting, timing
<1>1. CASE \E p \in Posters : PostPush(p)
  BY <1>1, PostPushStep, Zenon
<1>2. CASE \/ \E p \in cancelling : CancelService(p)
           \/ Stop \/ TimePasses \/ UNCHANGED loopVars
  <2>1. UNCHANGED <<posted, running, ran, calls, scheduled, timers, due, fired>> /\ pc' = pc
    BY <1>2, Zenon DEF CancelService, Stop, TimePasses, loopVars
  <2> QED BY <2>1, LoopRests, Zenon
<1>3. CASE Check \/ WaitCancelled \/ OnTick \/ ServiceReturns
  <2>1. /\ UNCHANGED <<posted, running, ran, calls, scheduled, timers, due, fired>>
        /\ pc \in {"check", "service"}
    BY <1>3, Zenon DEF Check, WaitCancelled, OnTick, ServiceReturns
  <2>2. running = <<>> /\ due = {}
    BY <2>1 DEF LoopInv
  <2> QED BY <2>1, <2>2, LoopRests, Zenon
<1>4. CASE TasksDone
  <2>1. /\ UNCHANGED <<posted, running, ran, calls, scheduled, timers, due, fired>>
        /\ pc = "tasks" /\ running = <<>>
    BY <1>4, Zenon DEF TasksDone
  <2>2. due = {}
    BY <2>1 DEF LoopInv
  <2> QED BY <2>1, <2>2, LoopRests, Zenon
<1>5. CASE TimersDone
  <2>1. /\ UNCHANGED <<posted, running, ran, calls, scheduled, timers, due, fired>>
        /\ pc = "due" /\ due = {}
    BY <1>5, Zenon DEF TimersDone
  <2>2. running = <<>>
    BY <2>1 DEF LoopInv
  <2> QED BY <2>1, <2>2, LoopRests, Zenon
<1>6. CASE DrainPosted
  BY <1>6, DrainPostedStep, Zenon
<1>7. CASE RunTask
  BY <1>7, RunTaskStep, Zenon
<1>8. CASE DrainDueTimers
  BY <1>8, DrainDueStep, Zenon
<1>9. CASE FireTimer
  BY <1>9, FireTimerStep, Zenon
<1> QED BY <1>1, <1>2, <1>3, <1>4, <1>5, <1>6, <1>7, <1>8, <1>9, Zenon DEF LoopNext, LoopStep

\* Post's tasks run once and in the order of their thread, and no timer is lost
\* or run twice, whatever the posting threads and the running tasks do.
THEOREM LoopLosesNothing == LoopSpec => []NothingLostOrRepeated
<1>1. LoopInv => NothingLostOrRepeated
  <2> SUFFICES ASSUME LoopInv PROVE NothingLostOrRepeated
    OBVIOUS
  <2>1. ran \o running \in Seq(Posters \X Nat)
    BY ConcatProperties DEF LoopInv
  <2>2. AllTasks \in Seq(Posters \X Nat)
    BY <2>1, ConcatProperties DEF LoopInv, AllTasks
  <2> QED BY <2>2, SaysInOrder, SaysApart, Zenon DEF LoopInv, NothingLostOrRepeated
<1> QED BY <1>1, InitLoop, NextLoop, PTL DEF LoopSpec
=============================================================================
