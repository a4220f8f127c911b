--------------------------- MODULE ListenerProofs ---------------------------
(***************************************************************************)
(* Proofs about Listener, for any set of connections: the choice of the    *)
(* session is sound and only its client ends the session.                  *)
(***************************************************************************)
EXTENDS Listener, TLAPS

(* The strengthening: bytes to read were sent, and the session has lost    *)
(* the timeout of the peek.                                                *)
ServedWithoutTimeout ==
    /\ \A c \in Clients : unread[c] # <<>> => c \in spoken
    /\ pc = "serving" => stream \in spoken /\ ~read_timeout

Inv == TypeOK /\ ServedWithoutTimeout

LEMMA InitInv == Init => Inv
<1> SUFFICES ASSUME Init
             PROVE  Inv
    OBVIOUS
<1>1. backlog \in Seq(Clients) /\ unread \in [Clients -> Seq(Messages)]
    BY DEF Init
<1>2. pc = "accepting" /\ pc # "peeking" /\ pc # "serving"
    BY DEF Init
<1>3. TypeOK
    BY <1>1, <1>2, Zenon DEF Init, TypeOK
<1>4. ServedWithoutTimeout
    BY <1>2 DEF Init, ServedWithoutTimeout
<1>5. QED  BY <1>3, <1>4 DEF Inv

(* What is left unread of the session is less than what was sent.          *)
LEMMA MessageRead ==
    ASSUME TypeOK, stream \in Clients, unread[stream] # <<>>,
           unread' = [unread EXCEPT ![stream] = Tail(@)]
    PROVE  /\ unread' \in [Clients -> Seq(Messages)]
           /\ \A c \in Clients : unread'[c] # <<>> => unread[c] # <<>>
<1>1. Tail(unread[stream]) \in Seq(Messages)
    BY DEF TypeOK
<1>2. QED  BY <1>1 DEF TypeOK

LEMMA StepInv == Inv /\ [Next]_vars => Inv'
<1> SUFFICES ASSUME Inv, [Next]_vars
             PROVE  Inv'
    OBVIOUS
<1> USE ClientAssumption DEF Inv, TypeOK, ServedWithoutTimeout
<1>1. ASSUME NEW c \in Clients, Connect(c)
      PROVE  Inv'
    BY <1>1 DEF Connect
<1>2. ASSUME NEW c \in Clients, NEW m \in Messages, Send(c, m)
      PROVE  Inv'
    <2>1. Append(unread[c], m) \in Seq(Messages)
        <3>1. unread[c] \in Seq(Messages)  OBVIOUS
        <3>2. QED  BY <3>1
    <2>2. TypeOK'
        BY <1>2, <2>1 DEF Send
    <2>3. ServedWithoutTimeout'
        <3>1. \A b \in Clients : b # c => unread'[b] = unread[b]
            BY <1>2 DEF Send
        <3>2. QED  BY <1>2, <3>1 DEF Send
    <2>4. QED  BY <2>2, <2>3
<1>3. ASSUME NEW c \in Clients, Close(c)
      PROVE  Inv'
    <2>1. <<>> \in Seq(Messages)
        OBVIOUS
    <2>2. \A b \in Clients : unread'[b] # <<>> => unread[b] # <<>>
        BY <1>3 DEF Close
    <2>3. unread' \in [Clients -> Seq(Messages)]
        BY <1>3, <2>1 DEF Close
    <2>4. QED  BY <1>3, <2>2, <2>3 DEF Close
<1>4. CASE Accept
    <2>1. Head(backlog) \in Clients /\ Tail(backlog) \in Seq(Clients)
        BY <1>4 DEF Accept
    <2>2. QED  BY <1>4, <2>1 DEF Accept, clients
<1>5. CASE PeekData
    BY <1>5 DEF PeekData, clients
<1>6. CASE PeekNothing
    BY <1>6 DEF PeekNothing, clients
<1>7. CASE Read
    BY <1>7, MessageRead DEF Read, clients
<1>8. CASE ReadFails \/ ReadEnds
    BY <1>8, MessageRead DEF ReadFails, ReadEnds, clients
<1>9. CASE Fail
    BY <1>9 DEF Fail, clients
<1>10. CASE UNCHANGED vars
    BY <1>10 DEF vars, clients
<1>11. QED
    BY <1>1, <1>2, <1>3, <1>4, <1>5, <1>6, <1>7, <1>8, <1>9, <1>10
    DEF Next, ServerMoves

LEMMA Invariance == SafetySpec => []Inv
<1>1. QED  BY InitInv, StepInv, PTL DEF SafetySpec

(* TypeOK holds in every state of run_tcp, however many connections there  *)
(* are.                                                                    *)
THEOREM ListenerTypeCorrect == SafetySpec => []TypeOK
<1>1. Inv => TypeOK  BY DEF Inv
<1>2. QED  BY Invariance, <1>1, PTL

(* Nobody is served who has not sent anything (main.rs:138-147).           *)
THEOREM SessionSpoke == SafetySpec => []SessionHasSpoken
<1>1. Inv => SessionHasSpoken
    BY DEF Inv, ServedWithoutTimeout, SessionHasSpoken
<1>2. QED  BY Invariance, <1>1, PTL

(* The session ends only by its client, which closed it or sent what is no *)
(* request with a handler; neither the timeout of the peek nor a failing   *)
(* handler ends it (main.rs:136, 140, server.rs:78-106).                   *)
THEOREM OnlyItsClientEndsTheSession == SafetySpec => SessionEndsByItsClient
<1> DEFINE ByItsClient ==
        pc = "serving" /\ pc' # "serving" =>
          /\ pc' = "ended"
          /\ \/ stream \in closed /\ unread[stream] = <<>>
             \/ unread[stream] # <<>> /\ Head(unread[stream]) # "request"
<1>1. Inv /\ [Next]_vars => [ByItsClient]_vars
    <2> SUFFICES ASSUME Inv, Next, pc = "serving", pc' # "serving"
                 PROVE  ByItsClient
        OBVIOUS
    <2>1. ReadFails \/ ReadEnds
        BY DEF Next, ServerMoves, Connect, Send, Close, Accept, PeekData,
               PeekNothing, Read, Fail
    <2>2. CASE ReadFails
        BY <2>2 DEF ReadFails
    <2>3. CASE ReadEnds
        BY <2>3 DEF ReadEnds, Inv, ServedWithoutTimeout
    <2>4. QED  BY <2>1, <2>2, <2>3
<1>2. QED  BY Invariance, <1>1, PTL DEF SafetySpec, SessionEndsByItsClient
=============================================================================
