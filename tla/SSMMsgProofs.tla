---------------------------- MODULE SSMMsgProofs ----------------------------
(***************************************************************************)
(* For any number of clients, server threads and queue places: two clients *)
(* never share a buffer, and a call returns the answer to its own message. *)
(* The threads must have numbers of their own, which serve_clients gives   *)
(* them when there is one thread or when each reads its number before the  *)
(* next is created.                                                        *)
(***************************************************************************)
EXTENDS SSMMsgInvProofs

(* The steps of a thread (SSMMsg_server_proc) keep the types.               *)
LEMMA ServerType ==
    ASSUME MsgInv, NEW t \in Servers, SSMMsg_server_proc(t)
    PROVE  TypeOK'
<1>1. CASE ReadParam(t)
  BY <1>1, ConstantFacts DEF ReadParam, sgoto, queueVars, mutexVars, pactVars,
     dataVars, clientVars, processVars, MsgInv, TypeOK, InCall, ServerStates
<1>2. CASE UpServers(t)
  BY <1>2, ConstantFacts DEF UpServers, sgoto, up, mutexVars, pactVars,
     dataVars, clientVars, processVars, MsgInv, TypeOK, InCall, ServerStates
<1>3. CASE DownClients(t)
  BY <1>3, ConstantFacts DEF DownClients, sgoto, down, mutexVars, pactVars,
     dataVars, clientVars, processVars, MsgInv, TypeOK, InCall, ServerStates
<1>4. CASE Test(t)
  BY <1>4, ConstantFacts DEF Test, sgoto, queueVars, mutexVars, pactVars,
     dataVars, clientVars, processVars, MsgInv, TypeOK, InCall, ServerStates
<1>5. CASE Take(t)
  BY <1>5, ConstantFacts DEF Take, sgoto, down, queueVars, pactVars, dataVars,
     clientVars, processVars, MsgInv, TypeOK, InCall, ServerStates
<1>6. CASE Taken(t)
  BY <1>6, ConstantFacts DEF Taken, sgoto, up, queueVars, pactVars, dataVars,
     clientVars, processVars, MsgInv, TypeOK, InCall, ServerStates
<1>7. CASE DownPact(t)
  BY <1>7, ConstantFacts DEF DownPact, sgoto, down, queueVars, mutexVars,
     dataVars, clientVars, processVars, MsgInv, TypeOK, InCall, ServerStates
<1>8. CASE PactWritten(t)
  BY <1>8, ConstantFacts DEF PactWritten, sgoto, up, queueVars, mutexVars,
     dataVars, clientVars, processVars, MsgInv, TypeOK, InCall, ServerStates
<1>9. CASE DownPactRead(t)
  BY <1>9, ConstantFacts DEF DownPactRead, sgoto, down, queueVars, mutexVars,
     dataVars, clientVars, processVars, MsgInv, TypeOK, InCall, ServerStates
<1>10. CASE UpPact(t)
  BY <1>10, ConstantFacts DEF UpPact, sgoto, up, queueVars, mutexVars, dataVars,
     clientVars, processVars, MsgInv, TypeOK, InCall, ServerStates
<1>11. CASE DownWritten(t)
  <2>1. i[t] \in Servers /\ data_written \in [Servers -> Nat]
    BY DEF MsgInv, TypeOK
  <2>2. data_written' \in [Servers -> Nat]
    BY <1>11, <2>1 DEF DownWritten, downOf
  <2>. QED
    BY <1>11, ConstantFacts, <2>2, Zenon DEF DownWritten, sgoto, queueVars, mutexVars,
       pactVars, clientVars, processVars, MsgInv, TypeOK, InCall, ServerStates
<1>12. CASE Func(t)
  BY <1>12, ConstantFacts, HandlerFindsMessage DEF Func, sgoto, queueVars,
     mutexVars, pactVars, clientVars, processVars, MsgInv, TypeOK, InCall,
     ServerStates, NumbersInv
<1>13. CASE Processed(t)
  <2>1. i[t] \in Servers /\ data_processed \in [Servers -> Nat]
    BY DEF MsgInv, TypeOK
  <2>2. data_processed' \in [Servers -> Nat]
    BY <1>13, <2>1 DEF Processed, upOf
  <2>. QED
    BY <1>13, ConstantFacts, <2>2, Zenon DEF Processed, sgoto, queueVars, mutexVars,
       pactVars, clientVars, processVars, MsgInv, TypeOK, InCall, ServerStates
<1>14. CASE DownRead(t)
  <2>1. i[t] \in Servers /\ data_read \in [Servers -> Nat]
    BY DEF MsgInv, TypeOK
  <2>2. data_read' \in [Servers -> Nat]
    BY <1>14, <2>1 DEF DownRead, downOf
  <2>. QED
    BY <1>14, ConstantFacts, <2>2, Zenon DEF DownRead, sgoto, queueVars, mutexVars,
       pactVars, clientVars, processVars, MsgInv, TypeOK, InCall, ServerStates
<1>15. CASE Release(t)
  BY <1>15, ConstantFacts DEF Release, sgoto, down, queueVars, pactVars,
     dataVars, clientVars, processVars, MsgInv, TypeOK, InCall, ServerStates
<1>16. CASE Released(t)
  BY <1>16, ConstantFacts DEF Released, sgoto, up, queueVars, pactVars,
     dataVars, clientVars, processVars, MsgInv, TypeOK, InCall, ServerStates
<1>. QED BY <1>1, <1>2, <1>3, <1>4, <1>5, <1>6, <1>7, <1>8, <1>9, <1>10, <1>11, <1>12, <1>13, <1>14, <1>15, <1>16 DEF SSMMsg_server_proc

(* The places of a thread that has no part in the exchange *)
Away == {"up_servers", "down_clients", "test", "exited", "take", "taken", "down_pact",
         "release", "released"}

(* A thread that moves between them keeps the invariant.                    *)
LEMMA AwayThread ==
    ASSUME MsgInv, TypeOK', NEW t \in Servers, spc[t] \in Away, spc'[t] \in Away,
           \A s \in Servers : s # t => spc'[s] = spc[s],
           UNCHANGED <<pactVars, dataVars, clientVars, i, param>>
    PROVE  MsgInv'
<1>1. NumbersInv'
  BY DEF MsgInv, NumbersInv, Away
<1>2. PactInv'
  BY DEF pactVars, MsgInv, PactInv, InPact, Away
<1>3. TokenInv' /\ BuffersNotShared'
  BY DEF pactVars, clientVars, MsgInv, TokenInv, Offered, BuffersNotShared, Away
<1>4. PairInv'
  BY DEF pactVars, dataVars, clientVars, MsgInv, TypeOK, PairInv, Pair, Early, Away
<1>5. DataInv'
  BY DEF pactVars, dataVars, clientVars, MsgInv, DataInv, Early, Away
<1>. QED BY <1>1, <1>2, <1>3, <1>4, <1>5 DEF MsgInv

(* A thread's step keeps the invariant.                                     *)
LEMMA ServerStep ==
    ASSUME MsgInv, NEW t \in Servers, SSMMsg_server_proc(t)
    PROVE  MsgInv'
<1>1. CASE ReadParam(t)
  <2>1. NumbersInv' /\ PactInv'
    BY <1>1 DEF ReadParam, sgoto, queueVars, mutexVars, pactVars, dataVars,
       clientVars, processVars, MsgInv, TypeOK, NumbersInv, PactInv, InPact
  <2>2. TokenInv' /\ BuffersNotShared'
    BY <1>1 DEF ReadParam, sgoto, queueVars, mutexVars, pactVars, dataVars,
       clientVars, processVars, MsgInv, TypeOK, TokenInv, Offered, PactInv,
       InPact, PairInv, Pair, Early, NumbersInv, BuffersNotShared, HasBuffer
  <2>3. PairInv'
    BY <1>1 DEF ReadParam, sgoto, queueVars, mutexVars, pactVars, dataVars,
       clientVars, processVars, MsgInv, TypeOK, PairInv, Pair, Early, TokenInv,
       Offered, PactInv, InPact, NumbersInv, DataInv, BuffersNotShared,
       HasBuffer
  <2>4. DataInv'
    BY <1>1 DEF ReadParam, sgoto, queueVars, mutexVars, pactVars, dataVars,
       clientVars, processVars, MsgInv, TypeOK, PairInv, Pair, Early, TokenInv,
       Offered, PactInv, InPact, NumbersInv, DataInv, BuffersNotShared,
       HasBuffer
  <2>. QED BY ServerType, <2>1, <2>2, <2>3, <2>4 DEF MsgInv
<1>2. CASE \/ UpServers(t) \/ DownClients(t) \/ Test(t) \/ Take(t) \/ Taken(t)
           \/ Release(t) \/ Released(t)
  <2>1. UNCHANGED <<pactVars, dataVars, clientVars, i, param>>
    BY <1>2, Zenon DEF UpServers, DownClients, Test, Take, Taken, Release, Released, processVars
  <2>2. spc[t] \in Away /\ spc'[t] \in Away
    BY <1>2 DEF UpServers, DownClients, Test, Take, Taken, Release, Released, sgoto, MsgInv,
       TypeOK, Away
  <2>3. \A s \in Servers : s # t => spc'[s] = spc[s]
    BY <1>2 DEF UpServers, DownClients, Test, Take, Taken, Release, Released, sgoto, MsgInv,
       TypeOK
  <2>. QED BY ServerType, <2>1, <2>2, <2>3, AwayThread
<1>3. CASE DownPact(t)
  <2>1. NumbersInv' /\ PactInv'
    BY <1>3 DEF DownPact, sgoto, down, queueVars, mutexVars, dataVars,
       clientVars, processVars, MsgInv, TypeOK, NumbersInv, PactInv, InPact
  <2>2. TokenInv' /\ BuffersNotShared'
    BY <1>3 DEF DownPact, sgoto, down, queueVars, mutexVars, dataVars,
       clientVars, processVars, MsgInv, TypeOK, TokenInv, Offered, PactInv,
       InPact, PairInv, Pair, Early, NumbersInv, BuffersNotShared, HasBuffer
  <2>3. PairInv'
    BY <1>3 DEF DownPact, sgoto, down, queueVars, mutexVars, dataVars,
       clientVars, processVars, MsgInv, TypeOK, PairInv, Pair, Early, TokenInv,
       Offered, PactInv, InPact, NumbersInv, DataInv, BuffersNotShared,
       HasBuffer
  <2>4. DataInv'
    BY <1>3 DEF DownPact, sgoto, down, queueVars, mutexVars, dataVars,
       clientVars, processVars, MsgInv, TypeOK, PairInv, Pair, Early, TokenInv,
       Offered, PactInv, InPact, NumbersInv, DataInv, BuffersNotShared,
       HasBuffer
  <2>. QED BY ServerType, <2>1, <2>2, <2>3, <2>4 DEF MsgInv
<1>4. CASE PactWritten(t)
  <2>1. NumbersInv' /\ PactInv'
    BY <1>4 DEF PactWritten, sgoto, up, queueVars, mutexVars, dataVars,
       clientVars, processVars, MsgInv, TypeOK, NumbersInv, PactInv, InPact
  <2>2. TokenInv' /\ BuffersNotShared'
    BY <1>4 DEF PactWritten, sgoto, up, queueVars, mutexVars, dataVars,
       clientVars, processVars, MsgInv, TypeOK, TokenInv, Offered, PactInv,
       InPact, PairInv, Pair, Early, NumbersInv, BuffersNotShared, HasBuffer
  <2>3. PairInv'
    BY <1>4 DEF PactWritten, sgoto, up, queueVars, mutexVars, dataVars,
       clientVars, processVars, MsgInv, TypeOK, PairInv, Pair, Early, TokenInv,
       Offered, PactInv, InPact, NumbersInv, DataInv, BuffersNotShared,
       HasBuffer
  <2>4. DataInv'
    BY <1>4 DEF PactWritten, sgoto, up, queueVars, mutexVars, dataVars,
       clientVars, processVars, MsgInv, TypeOK, PairInv, Pair, Early, TokenInv,
       Offered, PactInv, InPact, NumbersInv, DataInv, BuffersNotShared,
       HasBuffer
  <2>. QED BY ServerType, <2>1, <2>2, <2>3, <2>4 DEF MsgInv
<1>5. CASE DownPactRead(t)
  <2>1. NumbersInv' /\ PactInv'
    BY <1>5 DEF DownPactRead, sgoto, down, queueVars, mutexVars, dataVars,
       clientVars, processVars, MsgInv, TypeOK, NumbersInv, PactInv, InPact
  <2>2. TokenInv' /\ BuffersNotShared'
    BY <1>5 DEF DownPactRead, sgoto, down, queueVars, mutexVars, dataVars,
       clientVars, processVars, MsgInv, TypeOK, TokenInv, Offered, PactInv,
       InPact, PairInv, Pair, Early, NumbersInv, BuffersNotShared, HasBuffer
  <2>3. PairInv'
    BY <1>5 DEF DownPactRead, sgoto, down, queueVars, mutexVars, dataVars,
       clientVars, processVars, MsgInv, TypeOK, PairInv, Pair, Early, TokenInv,
       Offered, PactInv, InPact, NumbersInv, DataInv, BuffersNotShared,
       HasBuffer
  <2>4. DataInv'
    BY <1>5 DEF DownPactRead, sgoto, down, queueVars, mutexVars, dataVars,
       clientVars, processVars, MsgInv, TypeOK, PairInv, Pair, Early, TokenInv,
       Offered, PactInv, InPact, NumbersInv, DataInv, BuffersNotShared,
       HasBuffer
  <2>. QED BY ServerType, <2>1, <2>2, <2>3, <2>4 DEF MsgInv
<1>6. CASE UpPact(t)
  <2>1. NumbersInv' /\ PactInv'
    BY <1>6 DEF UpPact, sgoto, up, queueVars, mutexVars, dataVars, clientVars,
       processVars, MsgInv, TypeOK, NumbersInv, PactInv, InPact
  <2>2. TokenInv' /\ BuffersNotShared'
    BY <1>6 DEF UpPact, sgoto, up, queueVars, mutexVars, dataVars, clientVars,
       processVars, MsgInv, TypeOK, TokenInv, Offered, PactInv, InPact, PairInv,
       Pair, Early, NumbersInv, BuffersNotShared, HasBuffer
  <2>3. PairInv'
    BY <1>6 DEF UpPact, sgoto, up, queueVars, mutexVars, dataVars, clientVars,
       processVars, MsgInv, TypeOK, PairInv, Pair, Early, TokenInv, Offered,
       PactInv, InPact, NumbersInv, DataInv, BuffersNotShared, HasBuffer
  <2>4. DataInv'
    BY <1>6 DEF UpPact, sgoto, up, queueVars, mutexVars, dataVars, clientVars,
       processVars, MsgInv, TypeOK, PairInv, Pair, Early, TokenInv, Offered,
       PactInv, InPact, NumbersInv, DataInv, BuffersNotShared, HasBuffer
  <2>. QED BY ServerType, <2>1, <2>2, <2>3, <2>4 DEF MsgInv
<1>7. CASE DownWritten(t)
  <2>1. NumbersInv' /\ PactInv'
    BY <1>7 DEF DownWritten, sgoto, downOf, queueVars, mutexVars, pactVars,
       clientVars, processVars, MsgInv, TypeOK, NumbersInv, PactInv, InPact
  <2>2. TokenInv' /\ BuffersNotShared'
    BY <1>7 DEF DownWritten, sgoto, downOf, queueVars, mutexVars, pactVars,
       clientVars, processVars, MsgInv, TypeOK, TokenInv, Offered, PactInv,
       InPact, PairInv, Pair, Early, NumbersInv, BuffersNotShared, HasBuffer
  <2>3. PairInv'
    BY <1>7 DEF DownWritten, sgoto, downOf, queueVars, mutexVars, pactVars,
       clientVars, processVars, MsgInv, TypeOK, PairInv, Pair, Early, TokenInv,
       Offered, PactInv, InPact, NumbersInv, DataInv, BuffersNotShared,
       HasBuffer
  <2>4. DataInv'
    BY <1>7 DEF DownWritten, sgoto, downOf, queueVars, mutexVars, pactVars,
       clientVars, processVars, MsgInv, TypeOK, PairInv, Pair, Early, TokenInv,
       Offered, PactInv, InPact, NumbersInv, DataInv, BuffersNotShared,
       HasBuffer
  <2>. QED BY ServerType, <2>1, <2>2, <2>3, <2>4 DEF MsgInv
<1>8. CASE Func(t)
  <2>1. NumbersInv' /\ PactInv'
    BY <1>8 DEF Func, sgoto, queueVars, mutexVars, pactVars, clientVars,
       processVars, MsgInv, TypeOK, NumbersInv, PactInv, InPact
  <2>2. TokenInv' /\ BuffersNotShared'
    BY <1>8 DEF Func, sgoto, queueVars, mutexVars, pactVars, clientVars,
       processVars, MsgInv, TypeOK, TokenInv, Offered, PactInv, InPact, PairInv,
       Pair, Early, NumbersInv, BuffersNotShared, HasBuffer
  <2>3. PairInv'
    BY <1>8 DEF Func, sgoto, queueVars, mutexVars, pactVars, clientVars,
       processVars, MsgInv, TypeOK, PairInv, Pair, Early, TokenInv, Offered,
       PactInv, InPact, NumbersInv, DataInv, BuffersNotShared, HasBuffer
  <2>4. DataInv'
    BY <1>8 DEF Func, sgoto, queueVars, mutexVars, pactVars, clientVars,
       processVars, MsgInv, TypeOK, PairInv, Pair, Early, TokenInv, Offered,
       PactInv, InPact, NumbersInv, DataInv, BuffersNotShared, HasBuffer
  <2>. QED BY ServerType, <2>1, <2>2, <2>3, <2>4 DEF MsgInv
<1>9. CASE Processed(t)
  <2>1. NumbersInv' /\ PactInv'
    BY <1>9 DEF Processed, sgoto, upOf, queueVars, mutexVars, pactVars,
       clientVars, processVars, MsgInv, TypeOK, NumbersInv, PactInv, InPact
  <2>2. TokenInv' /\ BuffersNotShared'
    BY <1>9 DEF Processed, sgoto, upOf, queueVars, mutexVars, pactVars,
       clientVars, processVars, MsgInv, TypeOK, TokenInv, Offered, PactInv,
       InPact, PairInv, Pair, Early, NumbersInv, BuffersNotShared, HasBuffer
  <2>3. PairInv'
    <3>1. i[t] = t /\ data_processed[t] = 0 /\ data_processed'[t] = 1
      <4>1. i[t] = t /\ spc[t] = "processed"
        BY <1>9 DEF Processed, sgoto, MsgInv, NumbersInv
      <4>2. data_processed \in [Servers -> Nat]
        BY DEF MsgInv, TypeOK
      <4>3. data_processed[t] <= 1 /\ data_processed[t] # 1
        BY <4>1 DEF MsgInv, DataInv
      <4>4. data_processed[t] = 0
        BY <4>2, <4>3
      <4>. QED BY <1>9, <4>1, <4>2, <4>4 DEF Processed, upOf
    <3>2. ASSUME NEW c \in Clients, num[c] = t PROVE Pair(c)'
      BY <1>9, <3>1, <3>2 DEF Processed, sgoto, pactVars, clientVars, MsgInv, TypeOK,
         PairInv, Pair, Early
    <3>3. ASSUME NEW c \in Clients, num[c] # t PROVE Pair(c)'
      BY <1>9, <3>1, <3>3 DEF Processed, sgoto, upOf, pactVars, clientVars, MsgInv,
         TypeOK, PairInv, Pair, Early
    <3>. QED BY <3>2, <3>3 DEF PairInv
  <2>4. DataInv'
    BY <1>9 DEF Processed, sgoto, upOf, queueVars, mutexVars, pactVars,
       clientVars, processVars, MsgInv, TypeOK, PairInv, Pair, Early, TokenInv,
       Offered, PactInv, InPact, NumbersInv, DataInv, BuffersNotShared,
       HasBuffer
  <2>. QED BY ServerType, <2>1, <2>2, <2>3, <2>4 DEF MsgInv
<1>10. CASE DownRead(t)
  <2>1. NumbersInv' /\ PactInv'
    BY <1>10 DEF DownRead, sgoto, downOf, queueVars, mutexVars, pactVars,
       clientVars, processVars, MsgInv, TypeOK, NumbersInv, PactInv, InPact
  <2>2. TokenInv' /\ BuffersNotShared'
    BY <1>10 DEF DownRead, sgoto, downOf, queueVars, mutexVars, pactVars,
       clientVars, processVars, MsgInv, TypeOK, TokenInv, Offered, PactInv,
       InPact, PairInv, Pair, Early, NumbersInv, BuffersNotShared, HasBuffer
  <2>3. PairInv'
    BY <1>10 DEF DownRead, sgoto, downOf, queueVars, mutexVars, pactVars,
       clientVars, processVars, MsgInv, TypeOK, PairInv, Pair, Early, TokenInv,
       Offered, PactInv, InPact, NumbersInv, DataInv, BuffersNotShared,
       HasBuffer
  <2>4. DataInv'
    BY <1>10 DEF DownRead, sgoto, downOf, queueVars, mutexVars, pactVars,
       clientVars, processVars, MsgInv, TypeOK, PairInv, Pair, Early, TokenInv,
       Offered, PactInv, InPact, NumbersInv, DataInv, BuffersNotShared,
       HasBuffer
  <2>. QED BY ServerType, <2>1, <2>2, <2>3, <2>4 DEF MsgInv
<1>. QED BY <1>1, <1>2, <1>3, <1>4, <1>5, <1>6, <1>7, <1>8, <1>9, <1>10 DEF SSMMsg_server_proc

(* What the other conjuncts read.                                           *)
exchangeVars == <<pactVars, dataVars, clientVars, serverVars, param>>

(* A step that touches only the queue's places, the mutex or the stop flag   *)
(* of SSMMsg keeps the invariant: the conjuncts read the exchange alone.     *)
LEMMA Frame ==
    ASSUME MsgInv, TypeOK', UNCHANGED exchangeVars
    PROVE  MsgInv'
<1>1. NumbersInv' /\ PactInv' /\ TokenInv'
  BY DEF MsgInv, exchangeVars, pactVars, clientVars, serverVars, NumbersInv, PactInv,
     InPact, TokenInv, Offered
<1>2. PairInv' /\ BuffersNotShared'
  BY DEF MsgInv, exchangeVars, pactVars, dataVars, clientVars, serverVars, PairInv,
     Pair, Early, BuffersNotShared
<1>3. DataInv'
  BY DEF MsgInv, exchangeVars, pactVars, dataVars, clientVars, serverVars, DataInv,
     Early
<1>. QED BY <1>1, <1>2, <1>3 DEF MsgInv

(* The steps of the server process after the threads run keep it.           *)
LEMMA StopStep ==
    ASSUME MsgInv, StopAccepting \/ stop_serve_clients
    PROVE  MsgInv'
<1>1. TypeOK'
  <2>1. CASE StopAccepting
    BY <2>1 DEF StopAccepting, goto, down, queueVars, pactVars, dataVars,
       clientVars, serverVars, Quiet, MsgInv, TypeOK
  <2>2. CASE StopLeave
    BY <2>2 DEF StopLeave, goto, up, queueVars, pactVars, dataVars, clientVars,
       serverVars, Quiet, MsgInv, TypeOK
  <2>3. CASE Poll
    BY <2>3 DEF Poll, goto, down, queueVars, pactVars, dataVars, clientVars,
       serverVars, Quiet, MsgInv, TypeOK
  <2>4. CASE StopThreads
    BY <2>4 DEF StopThreads, goto, up, queueVars, pactVars, dataVars,
       clientVars, serverVars, Quiet, MsgInv, TypeOK
  <2>5. CASE RaiseClients
    BY <2>5 DEF RaiseClients, goto, up, mutexVars, pactVars, dataVars,
       clientVars, serverVars, Quiet, MsgInv, TypeOK
  <2>6. CASE Join
    BY <2>6 DEF Join, goto, queueVars, mutexVars, pactVars, dataVars,
       clientVars, serverVars, Quiet, MsgInv, TypeOK
  <2>. QED BY <2>1, <2>2, <2>3, <2>4, <2>5, <2>6 DEF stop_serve_clients
<1>2. UNCHANGED exchangeVars
  BY DEF stop_serve_clients, StopAccepting, StopLeave, Poll, StopThreads,
     RaiseClients, Join, goto, down, up, queueVars, mutexVars, pactVars,
     dataVars, clientVars, serverVars, processVars, exchangeVars
<1>. QED BY <1>1, <1>2, Frame

(* The threads get numbers of their own.                                    *)
ThreadsNumbered == PromptStart \/ servers_amount = 1

(* serve_clients creating one more thread keeps the invariant.              *)
LEMMA CreateStep ==
    ASSUME ThreadsNumbered, MsgInv, NEW t \in Servers, CreateThread(t)
    PROVE  MsgInv'
<1>1. TypeOK'
  BY ConstantFacts DEF CreateThread, queueVars, mutexVars, pactVars, dataVars,
     clientVars, MsgInv, TypeOK, ServerStates
<1>2. \A r \in Servers : r # t => spc[r] # "start"
  <2>1. CASE PromptStart
    BY <2>1, ConstantFacts DEF CreateThread, MsgInv, NumbersInv, TypeOK
  <2>2. CASE servers_amount = 1
    BY <2>2 DEF Servers
  <2>. QED BY <2>1, <2>2 DEF ThreadsNumbered
<1>3. NumbersInv'
  BY <1>2, ConstantFacts DEF CreateThread, MsgInv, NumbersInv, TypeOK
<1>4. PactInv' /\ TokenInv'
  BY DEF CreateThread, pactVars, clientVars, MsgInv, TypeOK, PactInv, InPact,
     TokenInv, Offered
<1>5. PairInv'
  BY DEF CreateThread, pactVars, clientVars, dataVars, MsgInv, TypeOK, PairInv, Pair, Early
<1>6. DataInv'
  BY DEF CreateThread, pactVars, clientVars, dataVars, MsgInv, TypeOK, DataInv, Early,
     HasBuffer
<1>7. BuffersNotShared'
  BY DEF CreateThread, clientVars, MsgInv, BuffersNotShared
<1>. QED BY <1>1, <1>3, <1>4, <1>5, <1>6, <1>7 DEF MsgInv

(* The invariant is inductive.                                              *)
LEMMA InvInit == Init => MsgInv
<1>. SUFFICES ASSUME Init PROVE MsgInv
  OBVIOUS
<1>1. TypeOK
  <2>1. /\ data_written \in [Servers -> Nat] /\ data_processed \in [Servers -> Nat]
        /\ data_read \in [Servers -> Nat] /\ buf \in [Servers -> Contents]
    BY ConstantFacts DEF Init
  <2>2. /\ msg \in [Clients -> {NoMessage} \cup Messages]
        /\ reply \in [Clients -> Contents] /\ num \in [Clients -> Servers]
    BY ConstantFacts DEF Init
  <2>3. /\ cpc \in [Clients -> InCall \cup {"idle", "enter", "refuse"}]
        /\ spc \in [Servers -> ServerStates] /\ i \in [Servers -> Servers]
    BY ConstantFacts DEF Init, InCall, ServerStates
  <2>4. /\ slot \in Servers /\ param \in Servers /\ raised \in Nat
        /\ shutdown_server_proc \in BOOLEAN
    BY ConstantFacts, Zenon DEF Init
  <2>5. /\ sem_clients \in Nat /\ sem_servers \in Nat /\ sem_mutex \in Nat
        /\ sem_pact \in Nat /\ sem_pact_written \in Nat /\ sem_pact_read \in Nat
        /\ waiting \in Int /\ busy_servers_amount \in Int
        /\ process_messages \in 0..1 /\ pc = "create"
    BY DEF Init
  <2>. QED BY <2>1, <2>2, <2>3, <2>4, <2>5 DEF TypeOK
<1>2. NumbersInv /\ PactInv /\ TokenInv
  BY ConstantFacts DEF Init, NumbersInv, PactInv, InPact, TokenInv, Offered
<1>3. PairInv /\ BuffersNotShared
  BY DEF Init, PairInv, Pair, BuffersNotShared, HasBuffer
<1>4. DataInv
  BY DEF Init, DataInv, Early, HasBuffer
<1>. QED BY <1>1, <1>2, <1>3, <1>4 DEF MsgInv

(* Every step of clients, threads and stop_serve_clients keeps MsgInv.      *)
LEMMA InvStep ==
    ASSUME ThreadsNumbered, MsgInv, [Next]_vars
    PROVE  MsgInv'
<1>1. CASE UNCHANGED vars
  <2>1. TypeOK'
    BY <1>1 DEF vars, queueVars, mutexVars, pactVars, dataVars, clientVars, serverVars,
       processVars, MsgInv, TypeOK
  <2>2. UNCHANGED exchangeVars
    BY <1>1 DEF vars, exchangeVars, processVars
  <2>. QED BY <2>1, <2>2, Frame
<1>2. CASE Next
  BY <1>2, ClientStep, ServerStep, CreateStep, StopStep DEF Next
<1>. QED BY <1>1, <1>2

(* Whatever the number of clients and threads, two clients never use the   *)
(* same buffer: the pact of send_msg and SSMMsg_server_proc is exclusive,   *)
(* provided the threads got numbers of their own.                           *)
THEOREM BuffersNotSharedHolds ==
    ASSUME ThreadsNumbered
    PROVE  Spec => []BuffersNotShared
<1>1. MsgInv => BuffersNotShared
  BY DEF MsgInv
<1>2. MsgInv /\ [Next]_vars => MsgInv'
  BY InvStep
<1>. QED BY <1>1, <1>2, InvInit, PTL DEF Spec

(* Whatever the number of clients and threads, the answer send_msg hands    *)
(* back is the answer to the message of that call.                          *)
THEOREM OwnAnswerHolds ==
    ASSUME ThreadsNumbered
    PROVE  Spec => []OwnAnswer
<1>1. MsgInv => OwnAnswer
  BY DEF MsgInv, PairInv, Pair, OwnAnswer
<1>2. MsgInv /\ [Next]_vars => MsgInv'
  BY InvStep
<1>. QED BY <1>1, <1>2, InvInit, PTL DEF Spec
=============================================================================
