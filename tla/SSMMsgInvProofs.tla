-------------------------- MODULE SSMMsgInvProofs --------------------------
(***************************************************************************)
(* The invariants of the message exchange of common/SSMMsg.cpp: MsgInv of  *)
(* the pact and of the buffers, CountInv of the counters that              *)
(* stop_serve_clients reads.  Here: the steps of send_msg keep MsgInv, and *)
(* the steps of all processes keep the counters exact.  The count is of    *)
(* the calls no thread has paired with: the waiting ones and those of the  *)
(* threads that have taken a unit of sem_clients and not yet handed out    *)
(* their slot.                                                             *)
(***************************************************************************)
EXTENDS SSMMsg, FiniteSetTheorems, TLAPS

(* Each running thread has its own number *)
NumbersInv ==
    /\ \A s \in Servers :
           /\ spc[s] \notin {"none", "start"} => i[s] = s
           /\ spc[s] = "start" => param = s
    /\ \A r, s \in Servers : r < s /\ spc[s] # "none" => spc[r] # "none"

(* The pact belongs to one thread, which is the one slot names *)
InPact == {"pact_written", "down_pact_read", "up_pact"}
PactInv ==
    /\ sem_pact <= 1
    /\ \A s \in Servers : spc[s] \in InPact => sem_pact = 0
    /\ \A r, s \in Servers : spc[r] \in InPact /\ spc[s] \in InPact => r = s
    /\ \A s \in Servers :
           spc[s] \in {"pact_written", "down_pact_read"} => slot = s

(* While it waits for sem_pact_read one token is out: the unit of            *)
(* sem_pact_written, then the client that took it, then sem_pact_read        *)
Offered == \E s \in Servers : spc[s] = "down_pact_read"
TokenInv ==
    /\ sem_pact_written + sem_pact_read <= 1
    /\ sem_pact_written = 1 \/ sem_pact_read = 1 => Offered
    /\ \A c \in Clients : cpc[c] = "pact_read" =>
           Offered /\ sem_pact_written = 0 /\ sem_pact_read = 0
    /\ \A c, d \in Clients : cpc[c] = "pact_read" /\ cpc[d] = "pact_read" => c = d

(* A client that has written its message or is about to, and a thread that   *)
(* has not read it                                                           *)
Early(s) == \/ spc[s] = "down_pact_read" /\ sem_pact_read = 1
            \/ spc[s] \in {"up_pact", "down_written"}

(* Where the thread of a client's buffer is *)
Pair(c) ==
    LET s == num[c] IN
        /\ cpc[c] # "idle" => msg[c] \in Messages
        /\ cpc[c] = "pact_read" => spc[s] = "down_pact_read"
        /\ cpc[c] = "write" => Early(s) /\ data_written[s] = 0
        /\ cpc[c] = "await" =>
               \/ Early(s) /\ data_written[s] = 1 /\ buf[s] = msg[c]
               \/ spc[s] = "func" /\ data_written[s] = 0 /\ buf[s] = msg[c]
               \/ spc[s] = "processed" /\ buf[s] = Answer(msg[c])
               \/ /\ spc[s] = "down_read" /\ data_processed[s] = 1
                  /\ buf[s] = Answer(msg[c])
        /\ cpc[c] = "done" => /\ spc[s] = "down_read" /\ data_processed[s] = 0
                              /\ reply[c] = Answer(msg[c])
PairInv == \A c \in Clients : Pair(c)

(* The units of a buffer's semaphores *)
DataInv ==
    \A s \in Servers :
        /\ data_written[s] <= 1 /\ data_processed[s] <= 1 /\ data_read[s] <= 1
        /\ data_written[s] = 1 =>
               Early(s) /\ \E c \in Clients : cpc[c] = "await" /\ num[c] = s
        /\ spc[s] \in {"func", "processed"} =>
               \E c \in Clients : cpc[c] = "await" /\ num[c] = s
        /\ data_processed[s] = 1 => spc[s] = "down_read"
        /\ data_read[s] = 1 =>
               /\ spc[s] = "down_read" /\ data_processed[s] = 0
               /\ \A c \in Clients : cpc[c] \in HasBuffer => num[c] # s

MsgInv == /\ TypeOK /\ NumbersInv /\ PactInv /\ TokenInv /\ PairInv /\ DataInv
          /\ BuffersNotShared

(* The accepted calls that have no buffer yet *)
Unserved == {c \in Clients : cpc[c] \in {"up_clients", "leave", "down_servers", "pact"}}

(* The threads that have counted a call and not given it their buffer *)
Unpaired == {s \in Servers : \/ spc[s] \in {"taken", "down_pact", "pact_written"}
                             \/ spc[s] = "down_pact_read" /\ sem_pact_written = 1}

BusyThreads == {s \in Servers : spc[s] \in Busy}

CountInv ==
    /\ Cardinality(Unserved) = waiting + Cardinality(Unpaired)
    /\ busy_servers_amount = Cardinality(BusyThreads)
-----------------------------------------------------------------------------
(* Facts about the constants that the steps need.                           *)
LEMMA ConstantFacts ==
    /\ Servers \subseteq Int /\ 0 \in Servers
    /\ NoMessage \in Contents /\ Messages \subseteq Contents
    /\ \A m \in Messages : Answer(m) \in Contents
    /\ \A c \in Clients, b \in Bodies : [from |-> c, body |-> b] \in Messages
BY SSMMsgAssumption DEF Servers, Contents, Messages

(* The handler finds a message in the buffer it answers.                    *)
LEMMA HandlerFindsMessage ==
    ASSUME MsgInv, NEW t \in Servers, spc[t] = "func"
    PROVE  buf[t] \in Messages
BY DEF MsgInv, TypeOK, PairInv, Pair, DataInv, Early


(* Every step keeps the types.                                              *)
LEMMA ClientType ==
    ASSUME MsgInv, NEW c \in Clients, Call(c) \/ send_msg(c)
    PROVE  TypeOK'
<1>1. CASE Call(c)
  BY <1>1, ConstantFacts DEF Call, cgoto, queueVars, mutexVars, pactVars,
     dataVars, serverVars, processVars, MsgInv, TypeOK, InCall, ServerStates
<1>2. CASE Enter(c)
  BY <1>2, ConstantFacts DEF Enter, cgoto, down, queueVars, pactVars, dataVars,
     callVars, serverVars, processVars, MsgInv, TypeOK, InCall, ServerStates
<1>3. CASE Refuse(c)
  BY <1>3, ConstantFacts DEF Refuse, cgoto, up, queueVars, pactVars, dataVars,
     serverVars, processVars, MsgInv, TypeOK, InCall, ServerStates
<1>4. CASE UpClients(c)
  BY <1>4, ConstantFacts DEF UpClients, cgoto, up, mutexVars, pactVars,
     dataVars, callVars, serverVars, processVars, MsgInv, TypeOK, InCall,
     ServerStates
<1>5. CASE Leave(c)
  BY <1>5, ConstantFacts DEF Leave, cgoto, up, queueVars, pactVars, dataVars,
     callVars, serverVars, processVars, MsgInv, TypeOK, InCall, ServerStates
<1>6. CASE DownServers(c)
  BY <1>6, ConstantFacts DEF DownServers, cgoto, down, mutexVars, pactVars,
     dataVars, callVars, serverVars, processVars, MsgInv, TypeOK, InCall,
     ServerStates
<1>7. CASE ReadPact(c)
  BY <1>7, ConstantFacts DEF ReadPact, cgoto, down, queueVars, mutexVars,
     dataVars, serverVars, processVars, MsgInv, TypeOK, InCall, ServerStates
<1>8. CASE PactRead(c)
  BY <1>8, ConstantFacts DEF PactRead, cgoto, up, queueVars, mutexVars,
     dataVars, callVars, serverVars, processVars, MsgInv, TypeOK, InCall,
     ServerStates
<1>9. CASE WriteMessage(c)
  <2>1. num[c] \in Servers /\ data_written \in [Servers -> Nat]
    BY DEF MsgInv, TypeOK
  <2>2. data_written' \in [Servers -> Nat]
    BY <1>9, <2>1 DEF WriteMessage, upOf
  <2>. QED
    BY <1>9, ConstantFacts, <2>2, Zenon DEF WriteMessage, cgoto, queueVars, mutexVars,
       pactVars, callVars, serverVars, processVars, MsgInv, TypeOK, InCall,
       ServerStates
<1>10. CASE ReadAnswer(c)
  <2>1. num[c] \in Servers /\ data_processed \in [Servers -> Nat]
    BY DEF MsgInv, TypeOK
  <2>2. data_processed' \in [Servers -> Nat]
    BY <1>10, <2>1 DEF ReadAnswer, downOf
  <2>. QED
    BY <1>10, ConstantFacts, <2>2, Zenon DEF ReadAnswer, cgoto, queueVars, mutexVars,
       pactVars, serverVars, processVars, MsgInv, TypeOK, InCall, ServerStates
<1>11. CASE Done(c)
  <2>1. num[c] \in Servers /\ data_read \in [Servers -> Nat]
    BY DEF MsgInv, TypeOK
  <2>2. data_read' \in [Servers -> Nat]
    BY <1>11, <2>1 DEF Done, upOf
  <2>. QED
    BY <1>11, ConstantFacts, <2>2 DEF Done, cgoto, queueVars, mutexVars,
       pactVars, serverVars, processVars, MsgInv, TypeOK, InCall, ServerStates
<1>. QED BY <1>1, <1>2, <1>3, <1>4, <1>5, <1>6, <1>7, <1>8, <1>9, <1>10, <1>11 DEF send_msg

(* A client that has no buffer before or after its step keeps the invariant. *)
LEMMA WithoutBuffer ==
    ASSUME MsgInv, TypeOK', NEW c \in Clients,
           cpc[c] \notin HasBuffer, cpc'[c] \notin HasBuffer,
           cpc'[c] # "idle" => msg'[c] \in Messages,
           \A d \in Clients : d # c => cpc'[d] = cpc[d] /\ msg'[d] = msg[d] /\ reply'[d] = reply[d],
           UNCHANGED <<pactVars, dataVars, serverVars, num, param>>
    PROVE  MsgInv'
<1>1. NumbersInv' /\ PactInv'
  BY DEF pactVars, serverVars, MsgInv, NumbersInv, PactInv, InPact
<1>2. TokenInv'
  BY DEF pactVars, serverVars, MsgInv, TokenInv, Offered, HasBuffer
<1>3. BuffersNotShared'
  BY DEF MsgInv, BuffersNotShared, HasBuffer
<1>4. PairInv'
  BY DEF pactVars, dataVars, serverVars, MsgInv, PairInv, Pair, Early, HasBuffer
<1>5. DataInv'
  BY DEF pactVars, dataVars, serverVars, MsgInv, DataInv, Early, HasBuffer
<1>. QED BY <1>1, <1>2, <1>3, <1>4, <1>5 DEF MsgInv

(* A client's step keeps the invariant.                                     *)
LEMMA ClientStep ==
    ASSUME MsgInv, NEW c \in Clients, Call(c) \/ send_msg(c)
    PROVE  MsgInv'
<1>1. CASE Call(c) \/ Enter(c) \/ Refuse(c) \/ UpClients(c) \/ Leave(c) \/ DownServers(c)
  <2>1. UNCHANGED <<pactVars, dataVars, serverVars, num, param>>
    BY <1>1, Zenon DEF Call, Enter, Refuse, UpClients, Leave, DownServers, callVars, processVars
  <2>2. cpc[c] \notin HasBuffer /\ cpc'[c] \notin HasBuffer
    BY <1>1 DEF Call, Enter, Refuse, UpClients, Leave, DownServers, cgoto, MsgInv, TypeOK, HasBuffer
  <2>3. \A d \in Clients : d # c => cpc'[d] = cpc[d] /\ msg'[d] = msg[d] /\ reply'[d] = reply[d]
    BY <1>1 DEF Call, Enter, Refuse, UpClients, Leave, DownServers, cgoto, callVars, MsgInv, TypeOK
  <2>4. cpc'[c] # "idle" => msg'[c] \in Messages
    <3>1. CASE Call(c) \/ Refuse(c)
      BY <3>1, ConstantFacts DEF Call, Refuse, cgoto, MsgInv, TypeOK
    <3>2. CASE Enter(c) \/ UpClients(c) \/ Leave(c) \/ DownServers(c)
      BY <3>2 DEF Enter, UpClients, Leave, DownServers, cgoto, callVars, MsgInv, PairInv, Pair
    <3>. QED BY <1>1, <3>1, <3>2
  <2>. QED BY ClientType, <2>1, <2>2, <2>3, <2>4, WithoutBuffer
<1>2. CASE ReadPact(c)
  <2>1. NumbersInv' /\ PactInv'
    BY <1>2 DEF ReadPact, cgoto, down, queueVars, mutexVars, dataVars,
       serverVars, processVars, MsgInv, TypeOK, NumbersInv, PactInv, InPact
  <2>2. TokenInv' /\ BuffersNotShared'
    BY <1>2, SMTT(20) DEF ReadPact, cgoto, down, queueVars, mutexVars, dataVars,
       serverVars, processVars, MsgInv, TypeOK, TokenInv, Offered, PactInv,
       InPact, PairInv, Pair, Early, NumbersInv, BuffersNotShared, HasBuffer
  <2>3. PairInv'
    BY <1>2, SMTT(20) DEF ReadPact, cgoto, down, queueVars, mutexVars, dataVars,
       serverVars, processVars, MsgInv, TypeOK, PairInv, Pair, Early, TokenInv,
       Offered, PactInv, InPact, NumbersInv, DataInv, BuffersNotShared,
       HasBuffer
  <2>4. DataInv'
    BY <1>2 DEF ReadPact, cgoto, down, queueVars, mutexVars, dataVars,
       serverVars, processVars, MsgInv, TypeOK, PairInv, Pair, Early, TokenInv,
       Offered, PactInv, InPact, NumbersInv, DataInv, BuffersNotShared,
       HasBuffer
  <2>. QED BY ClientType, <2>1, <2>2, <2>3, <2>4 DEF MsgInv
<1>3. CASE PactRead(c)
  <2>1. NumbersInv' /\ PactInv'
    BY <1>3 DEF PactRead, cgoto, up, queueVars, mutexVars, dataVars, callVars,
       serverVars, processVars, MsgInv, TypeOK, NumbersInv, PactInv, InPact
  <2>2. TokenInv' /\ BuffersNotShared'
    BY <1>3 DEF PactRead, cgoto, up, queueVars, mutexVars, dataVars, callVars,
       serverVars, processVars, MsgInv, TypeOK, TokenInv, Offered, PactInv,
       InPact, PairInv, Pair, Early, NumbersInv, BuffersNotShared, HasBuffer
  <2>3. PairInv'
    <3>1. /\ data_written[num[c]] = 0 /\ spc[num[c]] = "down_pact_read"
          /\ sem_pact_read' = 1
      <4>1. spc[num[c]] = "down_pact_read" /\ cpc[c] = "pact_read"
        BY <1>3 DEF PactRead, cgoto, MsgInv, PairInv, Pair
      <4>2. sem_pact_read = 0
        BY <4>1 DEF MsgInv, TokenInv
      <4>3. num[c] \in Servers /\ data_written[num[c]] \in Nat
        BY SMTT(20) DEF MsgInv, TypeOK
      <4>4. data_written[num[c]] # 1
        BY <4>1, <4>3 DEF MsgInv, DataInv, BuffersNotShared, HasBuffer
      <4>5. data_written[num[c]] <= 1
        BY <4>3 DEF MsgInv, DataInv
      <4>. QED BY <1>3, <4>1, <4>2, <4>3, <4>4, <4>5 DEF PactRead, up
    <3>2. Pair(c)'
      BY <1>3, <3>1 DEF PactRead, cgoto, dataVars, callVars, serverVars, MsgInv,
         TypeOK, PairInv, Pair, Early
    <3>3. ASSUME NEW d \in Clients, d # c PROVE Pair(d)'
      BY <1>3, <3>1, <3>3, SMTT(20) DEF PactRead, cgoto, up, dataVars, callVars, serverVars,
         MsgInv, TypeOK, PairInv, Pair, Early, TokenInv
    <3>. QED BY <3>2, <3>3 DEF PairInv
  <2>4. DataInv'
    BY <1>3 DEF PactRead, cgoto, up, queueVars, mutexVars, dataVars, callVars,
       serverVars, processVars, MsgInv, TypeOK, PairInv, Pair, Early, TokenInv,
       Offered, PactInv, InPact, NumbersInv, DataInv, BuffersNotShared,
       HasBuffer
  <2>. QED BY ClientType, <2>1, <2>2, <2>3, <2>4 DEF MsgInv
<1>4. CASE WriteMessage(c)
  <2>1. NumbersInv' /\ PactInv'
    BY <1>4 DEF WriteMessage, cgoto, upOf, queueVars, mutexVars, pactVars,
       callVars, serverVars, processVars, MsgInv, TypeOK, NumbersInv, PactInv,
       InPact
  <2>2. TokenInv' /\ BuffersNotShared'
    BY <1>4, SMTT(20) DEF WriteMessage, cgoto, upOf, queueVars, mutexVars, pactVars,
       callVars, serverVars, processVars, MsgInv, TypeOK, TokenInv, Offered,
       PactInv, InPact, PairInv, Pair, Early, NumbersInv, BuffersNotShared,
       HasBuffer
  <2>3. PairInv'
    BY <1>4, SMTT(20) DEF WriteMessage, cgoto, upOf, queueVars, mutexVars, pactVars,
       callVars, serverVars, processVars, MsgInv, TypeOK, PairInv, Pair, Early,
       TokenInv, Offered, PactInv, InPact, NumbersInv, DataInv,
       BuffersNotShared, HasBuffer
  <2>4. DataInv'
    BY <1>4 DEF WriteMessage, cgoto, upOf, queueVars, mutexVars, pactVars,
       callVars, serverVars, processVars, MsgInv, TypeOK, PairInv, Pair, Early,
       TokenInv, Offered, PactInv, InPact, NumbersInv, DataInv,
       BuffersNotShared, HasBuffer
  <2>. QED BY ClientType, <2>1, <2>2, <2>3, <2>4 DEF MsgInv
<1>5. CASE ReadAnswer(c)
  <2>1. NumbersInv' /\ PactInv'
    BY <1>5 DEF ReadAnswer, cgoto, downOf, queueVars, mutexVars, pactVars,
       serverVars, processVars, MsgInv, TypeOK, NumbersInv, PactInv, InPact
  <2>2. TokenInv' /\ BuffersNotShared'
    BY <1>5, SMTT(20) DEF ReadAnswer, cgoto, downOf, queueVars, mutexVars, pactVars,
       serverVars, processVars, MsgInv, TypeOK, TokenInv, Offered, PactInv,
       InPact, PairInv, Pair, Early, NumbersInv, BuffersNotShared, HasBuffer
  <2>3. PairInv'
    BY <1>5, SMTT(20) DEF ReadAnswer, cgoto, downOf, queueVars, mutexVars, pactVars,
       serverVars, processVars, MsgInv, TypeOK, PairInv, Pair, Early, TokenInv,
       Offered, PactInv, InPact, NumbersInv, DataInv, BuffersNotShared,
       HasBuffer
  <2>4. DataInv'
    BY <1>5 DEF ReadAnswer, cgoto, downOf, queueVars, mutexVars, pactVars,
       serverVars, processVars, MsgInv, TypeOK, PairInv, Pair, Early, TokenInv,
       Offered, PactInv, InPact, NumbersInv, DataInv, BuffersNotShared,
       HasBuffer
  <2>. QED BY ClientType, <2>1, <2>2, <2>3, <2>4 DEF MsgInv
<1>6. CASE Done(c)
  <2>1. NumbersInv' /\ PactInv'
    BY <1>6 DEF Done, cgoto, upOf, queueVars, mutexVars, pactVars, serverVars,
       processVars, MsgInv, TypeOK, NumbersInv, PactInv, InPact
  <2>2. TokenInv' /\ BuffersNotShared'
    BY <1>6, SMTT(20) DEF Done, cgoto, upOf, queueVars, mutexVars, pactVars, serverVars,
       processVars, MsgInv, TypeOK, TokenInv, Offered, PactInv, InPact, PairInv,
       Pair, Early, NumbersInv, BuffersNotShared, HasBuffer
  <2>3. PairInv'
    BY <1>6, SMTT(20) DEF Done, cgoto, upOf, queueVars, mutexVars, pactVars, serverVars,
       processVars, MsgInv, TypeOK, PairInv, Pair, Early, TokenInv, Offered,
       PactInv, InPact, NumbersInv, DataInv, BuffersNotShared, HasBuffer
  <2>4. DataInv'
    BY <1>6 DEF Done, cgoto, upOf, queueVars, mutexVars, pactVars, serverVars,
       processVars, MsgInv, TypeOK, PairInv, Pair, Early, TokenInv, Offered,
       PactInv, InPact, NumbersInv, DataInv, BuffersNotShared, HasBuffer
  <2>. QED BY ClientType, <2>1, <2>2, <2>3, <2>4 DEF MsgInv
<1>. QED BY <1>1, <1>2, <1>3, <1>4, <1>5, <1>6 DEF send_msg

-----------------------------------------------------------------------------
(* The three sets are finite, so adding and removing one member counts.     *)
LEMMA SetsFinite ==
    /\ IsFiniteSet(Unserved) /\ IsFiniteSet(Unpaired) /\ IsFiniteSet(BusyThreads)
    /\ Cardinality(Unserved) \in Nat /\ Cardinality(Unpaired) \in Nat
    /\ Cardinality(BusyThreads) \in Nat
<1>1. IsFiniteSet(Clients) /\ IsFiniteSet(Servers)
  BY SSMMsgAssumption, FS_Interval DEF Servers
<1>2. IsFiniteSet(Unserved) /\ IsFiniteSet(Unpaired) /\ IsFiniteSet(BusyThreads)
  BY <1>1, FS_Subset DEF Unserved, Unpaired, BusyThreads
<1>. QED BY <1>2, FS_CardinalityType

(* A step that leaves the counters and the three sets alone keeps the count. *)
LEMMA CountFrame ==
    ASSUME CountInv, Unserved' = Unserved, Unpaired' = Unpaired,
           BusyThreads' = BusyThreads, UNCHANGED <<waiting, busy_servers_amount>>
    PROVE  CountInv'
BY DEF CountInv

(* The types that the steps below need.                                     *)
LEMMA FunctionTypes ==
    ASSUME MsgInv
    PROVE  /\ cpc \in [Clients -> InCall \cup {"idle", "enter", "refuse"}]
           /\ msg \in [Clients -> {NoMessage} \cup Messages] /\ reply \in [Clients -> Contents]
           /\ num \in [Clients -> Servers] /\ buf \in [Servers -> Contents]
           /\ spc \in [Servers -> ServerStates] /\ i \in [Servers -> Servers]
BY DEF MsgInv, TypeOK
LEMMA CounterTypes ==
    ASSUME MsgInv
    PROVE  /\ waiting \in Int /\ busy_servers_amount \in Int /\ process_messages \in 0..1
           /\ slot \in Servers /\ sem_pact_written \in Nat /\ sem_pact_read \in Nat
BY DEF MsgInv, TypeOK

(* A client's step keeps the count.                                         *)
LEMMA ClientCount ==
    ASSUME MsgInv, CountInv, NEW c \in Clients, Call(c) \/ send_msg(c)
    PROVE  CountInv'
<1>1. CASE \/ Call(c) \/ Refuse(c) \/ UpClients(c) \/ Leave(c) \/ DownServers(c) \/ PactRead(c)
           \/ WriteMessage(c) \/ ReadAnswer(c) \/ Done(c)
  <2>1. UNCHANGED <<waiting, busy_servers_amount, spc, sem_pact_written>>
    BY <1>1, Zenon DEF Call, Refuse, UpClients, Leave, DownServers, PactRead, WriteMessage,
       ReadAnswer, Done, mutexVars, pactVars, serverVars
  <2>2. Unpaired' = Unpaired /\ BusyThreads' = BusyThreads
    BY <2>1 DEF Unpaired, BusyThreads
  <2>3. c \in Unserved' <=> c \in Unserved
    BY <1>1, FunctionTypes DEF Call, Refuse, UpClients, Leave, DownServers, PactRead,
       WriteMessage, ReadAnswer, Done, cgoto, Unserved
  <2>4. \A d \in Clients : d # c => cpc'[d] = cpc[d]
    BY <1>1, FunctionTypes, Zenon DEF Call, Refuse, UpClients, Leave, DownServers, PactRead,
       WriteMessage, ReadAnswer, Done, cgoto
  <2>5. Unserved' = Unserved
    BY <2>3, <2>4 DEF Unserved
  <2>. QED BY <2>1, <2>2, <2>5, CountFrame
<1>2. CASE Enter(c)
  <2>1. Unpaired' = Unpaired /\ BusyThreads' = BusyThreads /\ UNCHANGED busy_servers_amount
    BY <1>2 DEF Enter, pactVars, serverVars, Unpaired, BusyThreads
  <2>2. CASE Accepting
    <3>1. c \notin Unserved /\ Unserved' = Unserved \cup {c} /\ waiting' = waiting + 1
      BY <1>2, <2>2, FunctionTypes DEF Enter, cgoto, Unserved
    <3>2. Cardinality(Unserved') = Cardinality(Unserved) + 1
      BY <3>1, SetsFinite, FS_AddElement, Zenon
    <3>. QED BY <2>1, <3>1, <3>2, SetsFinite, CounterTypes DEF CountInv
  <2>3. CASE ~Accepting
    <3>1. Unserved' = Unserved /\ UNCHANGED waiting
      BY <1>2, <2>3, FunctionTypes DEF Enter, cgoto, Unserved
    <3>. QED BY <2>1, <3>1, CountFrame
  <2>. QED BY <2>2, <2>3
<1>3. CASE ReadPact(c)
  <2>1. c \in Unserved /\ Unserved' = Unserved \ {c}
    BY <1>3, FunctionTypes DEF ReadPact, cgoto, Unserved
  <2>2. sem_pact_written = 1 /\ sem_pact_written' = 0
    BY <1>3, CounterTypes DEF ReadPact, down, MsgInv, TokenInv
  <2>3. slot \in Unpaired /\ Unpaired' = Unpaired \ {slot}
    <3>1. slot \in Servers /\ spc[slot] = "down_pact_read"
      BY <2>2, CounterTypes, FunctionTypes DEF MsgInv, TokenInv, Offered, PactInv
    <3>2. \A s \in Servers : spc[s] = "down_pact_read" => s = slot
      BY DEF MsgInv, PactInv
    <3>. QED BY <1>3, <2>2, <3>1, <3>2 DEF ReadPact, serverVars, Unpaired
  <2>4. BusyThreads' = BusyThreads /\ UNCHANGED <<waiting, busy_servers_amount>>
    BY <1>3 DEF ReadPact, serverVars, mutexVars, BusyThreads
  <2>5. Cardinality(Unserved') = Cardinality(Unserved) - 1
    BY <2>1, SetsFinite, FS_RemoveElement, Zenon
  <2>6. Cardinality(Unpaired') = Cardinality(Unpaired) - 1
    BY <2>3, SetsFinite, FS_RemoveElement, Zenon
  <2>. QED BY <2>4, <2>5, <2>6, SetsFinite, CounterTypes DEF CountInv
<1>. QED BY <1>1, <1>2, <1>3 DEF send_msg

(* A thread's step keeps the count.                                         *)
LEMMA ServerCount ==
    ASSUME MsgInv, CountInv, NEW t \in Servers, SSMMsg_server_proc(t)
    PROVE  CountInv'
<1>1. CASE \/ ReadParam(t) \/ UpServers(t) \/ DownClients(t) \/ Test(t) \/ Taken(t) \/ DownPact(t)
           \/ UpPact(t) \/ DownWritten(t) \/ Func(t) \/ Processed(t) \/ DownRead(t) \/ Released(t)
  <2>1. UNCHANGED <<waiting, busy_servers_amount, cpc, sem_pact_written>>
    BY <1>1, Zenon DEF ReadParam, UpServers, DownClients, Test, Taken, DownPact, UpPact,
       DownWritten, Func, Processed, DownRead, Released,
       mutexVars, pactVars, clientVars
  <2>2. Unserved' = Unserved
    BY <2>1 DEF Unserved
  <2>3. \A s \in Servers : s # t => spc'[s] = spc[s]
    BY <1>1, FunctionTypes DEF ReadParam, UpServers, DownClients, Test, Taken, DownPact, UpPact,
       DownWritten, Func, Processed, DownRead, Released, sgoto
  <2>4. /\ spc'[t] \in Busy <=> spc[t] \in Busy
        /\ spc'[t] # "down_pact_read" /\ spc[t] # "down_pact_read"
        /\ spc'[t] \in {"taken", "down_pact", "pact_written"} <=>
           spc[t] \in {"taken", "down_pact", "pact_written"}
    BY <1>1, FunctionTypes DEF ReadParam, UpServers, DownClients, Test, Taken, DownPact, UpPact,
       DownWritten, Func, Processed, DownRead, Released, sgoto, Busy
  <2>5. Unpaired' = Unpaired
    BY <2>1, <2>3, <2>4 DEF Unpaired
  <2>6. BusyThreads' = BusyThreads
    BY <2>3, <2>4 DEF BusyThreads
  <2>. QED BY <2>1, <2>2, <2>5, <2>6, CountFrame
<1>2. CASE Take(t)
  <2>1. Unserved' = Unserved /\ waiting' = waiting - 1
        /\ busy_servers_amount' = busy_servers_amount + 1
    BY <1>2 DEF Take, clientVars, Unserved
  <2>2. t \notin Unpaired /\ Unpaired' = Unpaired \cup {t}
    BY <1>2, FunctionTypes DEF Take, sgoto, pactVars, Unpaired
  <2>3. t \notin BusyThreads /\ BusyThreads' = BusyThreads \cup {t}
    BY <1>2, FunctionTypes DEF Take, sgoto, BusyThreads, Busy
  <2>4. /\ Cardinality(Unpaired') = Cardinality(Unpaired) + 1
        /\ Cardinality(BusyThreads') = Cardinality(BusyThreads) + 1
    BY <2>2, <2>3, SetsFinite, FS_AddElement, Zenon
  <2>. QED BY <2>1, <2>4, SetsFinite, CounterTypes DEF CountInv
<1>3. CASE PactWritten(t)
  <2>1. Unserved' = Unserved /\ UNCHANGED <<waiting, busy_servers_amount>>
    BY <1>3, FunctionTypes DEF PactWritten, sgoto, up, queueVars, mutexVars, dataVars, clientVars,
       processVars, Unserved
  <2>2. Unpaired' = Unpaired
    BY <1>3, CounterTypes, FunctionTypes DEF PactWritten, sgoto, up, queueVars, mutexVars,
       dataVars, clientVars, processVars, MsgInv, Unpaired, PactInv, TokenInv, InPact, Offered
  <2>3. BusyThreads' = BusyThreads
    BY <1>3, FunctionTypes DEF PactWritten, sgoto, up, queueVars, mutexVars, dataVars, clientVars,
       processVars, BusyThreads, Busy
  <2>. QED BY <2>1, <2>2, <2>3, CountFrame
<1>4. CASE DownPactRead(t)
  <2>1. Unserved' = Unserved /\ UNCHANGED <<waiting, busy_servers_amount>>
    BY <1>4, FunctionTypes DEF DownPactRead, sgoto, down, queueVars, mutexVars, dataVars,
       clientVars, processVars, Unserved
  <2>2. Unpaired' = Unpaired
    BY <1>4, CounterTypes, FunctionTypes DEF DownPactRead, sgoto, down, queueVars, mutexVars,
       dataVars, clientVars, processVars, MsgInv, Unpaired, PactInv, TokenInv, InPact, Offered
  <2>3. BusyThreads' = BusyThreads
    BY <1>4, FunctionTypes DEF DownPactRead, sgoto, down, queueVars, mutexVars, dataVars,
       clientVars, processVars, BusyThreads, Busy
  <2>. QED BY <2>1, <2>2, <2>3, CountFrame
<1>5. CASE Release(t)
  <2>1. Unserved' = Unserved /\ UNCHANGED waiting
        /\ busy_servers_amount' = busy_servers_amount - 1
    BY <1>5 DEF Release, clientVars, Unserved
  <2>2. Unpaired' = Unpaired
    BY <1>5, FunctionTypes DEF Release, sgoto, pactVars, Unpaired
  <2>3. t \in BusyThreads /\ BusyThreads' = BusyThreads \ {t}
    BY <1>5, FunctionTypes DEF Release, sgoto, BusyThreads, Busy
  <2>4. Cardinality(BusyThreads') = Cardinality(BusyThreads) - 1
    BY <2>3, SetsFinite, FS_RemoveElement, Zenon
  <2>. QED BY <2>1, <2>2, <2>4, SetsFinite, CounterTypes DEF CountInv
<1>. QED BY <1>1, <1>2, <1>3, <1>4, <1>5 DEF SSMMsg_server_proc

(* The other steps keep the count.                                          *)
LEMMA ProcessCount ==
    ASSUME MsgInv, CountInv,
           \/ StopAccepting \/ stop_serve_clients \/ UNCHANGED vars
           \/ \E t \in Servers : CreateThread(t)
    PROVE  CountInv'
<1>1. CASE \E t \in Servers : CreateThread(t)
  <2>. PICK t \in Servers : CreateThread(t)
    BY <1>1
  <2>1. Unserved' = Unserved /\ UNCHANGED <<waiting, busy_servers_amount>>
    BY DEF CreateThread, clientVars, mutexVars, Unserved
  <2>2. Unpaired' = Unpaired
    BY FunctionTypes DEF CreateThread, pactVars, Unpaired
  <2>3. BusyThreads' = BusyThreads
    BY FunctionTypes DEF CreateThread, BusyThreads, Busy
  <2>. QED BY <2>1, <2>2, <2>3, CountFrame
<1>2. CASE StopAccepting \/ stop_serve_clients \/ UNCHANGED vars
  <2>1. UNCHANGED <<waiting, busy_servers_amount, sem_pact_written, cpc, spc>>
    BY <1>2, Zenon DEF StopAccepting, stop_serve_clients, StopLeave, Poll, StopThreads,
       RaiseClients, Join, vars, mutexVars, pactVars, clientVars, serverVars
  <2>2. Unserved' = Unserved /\ Unpaired' = Unpaired /\ BusyThreads' = BusyThreads
    BY <2>1 DEF Unserved, Unpaired, BusyThreads
  <2>. QED BY <2>1, <2>2, CountFrame, SMTT(20)
<1>. QED BY <1>1, <1>2
=============================================================================
