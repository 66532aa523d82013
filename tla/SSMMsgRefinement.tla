-------------------------- MODULE SSMMsgRefinement --------------------------
(***************************************************************************)
(* For any number of clients, threads and queue places: stop_serve_clients *)
(* leaves no accepted call behind, and SSMMsg implements the service its   *)
(* header promises.  Each step of send_msg, of a thread or of              *)
(* stop_serve_clients is a step of the service or changes nothing the      *)
(* service shows.                                                          *)
(***************************************************************************)
EXTENDS SSMMsgProofs

(* From the poll that found the counters at zero on, no call is accepted *)
StopInv ==
    /\ pc \notin {"create", "serving"} => process_messages = 0
    /\ pc \in {"quiet", "raise", "join", "stopped"} =>
           \A c \in Clients : cpc[c] \notin InCall
    /\ shutdown_server_proc => pc \in {"raise", "join", "stopped"}

FullInv == MsgInv /\ CountInv /\ StopInv
-----------------------------------------------------------------------------
(* When the poll finds both counters at zero no accepted call is left: the  *)
(* ones without a buffer are counted and those with one have a busy thread. *)
LEMMA QuietIsQuiet ==
    ASSUME MsgInv, CountInv, Quiet
    PROVE  \A c \in Clients : cpc[c] \notin InCall
<1>1. BusyThreads = {}
  BY SetsFinite, FS_EmptySet, Zenon DEF CountInv, Quiet
<1>2. Unpaired = {}
  BY <1>1 DEF Unpaired, BusyThreads, Busy
<1>3. Cardinality(Unserved) = 0
  BY <1>2, FS_EmptySet DEF CountInv, Quiet
<1>4. Unserved = {}
  BY <1>3, SetsFinite, FS_EmptySet
<1>5. \A c \in Clients : cpc[c] \notin HasBuffer
  <2>. SUFFICES ASSUME NEW c \in Clients, cpc[c] \in HasBuffer PROVE FALSE
    OBVIOUS
  <2>1. num[c] \in Servers
    BY FunctionTypes
  <2>2. spc[num[c]] \in Busy
    BY DEF MsgInv, PairInv, Pair, Early, HasBuffer, Busy
  <2>. QED BY <1>1, <2>1, <2>2 DEF BusyThreads
<1>. QED BY <1>4, <1>5 DEF Unserved, HasBuffer, InCall

(* No step of a client in InCall's complement enters it once messages are   *)
(* no longer processed.                                                     *)
LEMMA StopStepInv ==
    ASSUME FullInv, [Next]_vars
    PROVE  StopInv'
<1>. USE DEF FullInv
<1>1. ASSUME NEW c \in Clients, Call(c) \/ send_msg(c) PROVE StopInv'
  <2>1. UNCHANGED <<pc, process_messages, shutdown_server_proc>>
    BY <1>1 DEF Call, send_msg, Enter, Refuse, UpClients, Leave, DownServers, ReadPact,
       PactRead, WriteMessage, ReadAnswer, Done, mutexVars, processVars
  <2>2. ASSUME process_messages = 0, cpc[c] \notin InCall PROVE cpc'[c] \notin InCall
    <3>1. CASE Call(c) \/ Refuse(c)
      BY <3>1, FunctionTypes DEF Call, Refuse, cgoto, InCall
    <3>2. CASE Enter(c)
      BY <2>2, <3>2, FunctionTypes DEF Enter, Accepting, cgoto, InCall
    <3>3. CASE \/ UpClients(c) \/ Leave(c) \/ DownServers(c) \/ ReadPact(c) \/ PactRead(c)
               \/ WriteMessage(c) \/ ReadAnswer(c) \/ Done(c)
      BY <2>2, <3>3, SMTT(20) DEF UpClients, Leave, DownServers, ReadPact, PactRead, WriteMessage,
         ReadAnswer, Done, cgoto, InCall
    <3>. QED BY <1>1, <3>1, <3>2, <3>3 DEF send_msg
  <2>3. \A d \in Clients : d # c => cpc'[d] = cpc[d]
    BY <1>1, FunctionTypes DEF Call, send_msg, Enter, Refuse, UpClients, Leave, DownServers,
       ReadPact, PactRead, WriteMessage, ReadAnswer, Done, cgoto
  <2>. QED BY <2>1, <2>2, <2>3, SMTT(20) DEF StopInv
<1>2. ASSUME NEW t \in Servers, SSMMsg_server_proc(t) PROVE StopInv'
  <2>1. UNCHANGED <<pc, process_messages, shutdown_server_proc, cpc>>
    BY <1>2, Zenon DEF SSMMsg_server_proc, ReadParam, UpServers, DownClients, Test, Take, Taken,
       DownPact, PactWritten, DownPactRead, UpPact, DownWritten, Func, Processed,
       DownRead, Release, Released, mutexVars, clientVars, processVars
  <2>. QED BY <2>1, SMTT(20) DEF StopInv
<1>3. ASSUME NEW t \in Servers, CreateThread(t) PROVE StopInv'
  BY <1>3 DEF CreateThread, mutexVars, clientVars, StopInv
<1>4. CASE StopAccepting \/ StopLeave \/ StopThreads \/ RaiseClients \/ Join
  BY <1>4 DEF StopAccepting, StopLeave, StopThreads, RaiseClients, Join, goto, mutexVars,
     clientVars, StopInv
<1>5. CASE Poll
  BY <1>5, QuietIsQuiet DEF Poll, goto, clientVars, StopInv
<1>6. CASE UNCHANGED vars
  BY <1>6 DEF vars, mutexVars, clientVars, processVars, StopInv
<1>. QED BY <1>1, <1>2, <1>3, <1>4, <1>5, <1>6 DEF Next, stop_serve_clients

(* The full invariant is inductive.                                         *)
LEMMA FullInvInit == Init => FullInv
<1>. SUFFICES ASSUME Init PROVE FullInv
  OBVIOUS
<1>1. Unserved = {} /\ Unpaired = {} /\ BusyThreads = {}
  BY DEF Init, Unserved, Unpaired, BusyThreads, Busy
<1>2. CountInv
  BY <1>1, FS_EmptySet DEF Init, CountInv
<1>3. StopInv
  BY DEF Init, StopInv
<1>. QED BY <1>2, <1>3, InvInit DEF FullInv

(* Every step keeps MsgInv, the exact counters and what the stop relies on.  *)
LEMMA FullInvStep ==
    ASSUME ThreadsNumbered, FullInv, [Next]_vars
    PROVE  FullInv'
<1>1. MsgInv'
  BY InvStep DEF FullInv
<1>2. CountInv'
  BY ClientCount, ServerCount, ProcessCount DEF FullInv, Next
<1>. QED BY <1>1, <1>2, StopStepInv DEF FullInv

(* Whatever the number of clients and threads, no accepted call is pending  *)
(* when stop_serve_clients tells the threads to exit, so no client is left  *)
(* blocked on a semaphore.                                                  *)
THEOREM StopLosesNoCallHolds ==
    ASSUME ThreadsNumbered
    PROVE  Spec => []StopLosesNoCall
<1>1. FullInv => StopLosesNoCall
  BY DEF FullInv, StopInv, StopLosesNoCall
<1>2. FullInv /\ [Next]_vars => FullInv'
  BY FullInvStep
<1>. QED BY <1>1, <1>2, FullInvInit, PTL DEF Spec

(* Whatever the number of clients and threads, every call of send_msg is    *)
(* served as CallsServed says: its own buffer, its own answer, and no call  *)
(* left behind by stop_serve_clients.                                       *)
THEOREM CallsServedHolds ==
    ASSUME ThreadsNumbered
    PROVE  Spec => []CallsServed
<1>1. FullInv => CallsServed
  <2>1. MsgInv => TypeOK /\ BuffersNotShared
    BY DEF MsgInv
  <2>2. MsgInv => OwnAnswer
    BY DEF MsgInv, PairInv, Pair, OwnAnswer
  <2>3. StopInv => StopLosesNoCall
    BY DEF StopInv, StopLosesNoCall
  <2>. QED BY <2>1, <2>2, <2>3 DEF FullInv, CallsServed
<1>2. FullInv /\ [Next]_vars => FullInv'
  BY FullInvStep
<1>. QED BY <1>1, <1>2, FullInvInit, PTL DEF Spec

(* A call that has no answer yet has none of the last call either *)
ReplyInv == \A c \in Clients : cpc[c] \in {"enter", "refuse"} => reply[c] = NoMessage

RefInv == FullInv /\ ReplyInv
-----------------------------------------------------------------------------
(* A call of send_msg drops the answer of the call before: kept by each step *)
LEMMA ReplyStep ==
    ASSUME RefInv, [Next]_vars
    PROVE  ReplyInv'
<1>. USE DEF RefInv, FullInv
<1>1. ASSUME NEW c \in Clients, Call(c) PROVE ReplyInv'
  BY <1>1, FunctionTypes DEF Call, cgoto, ReplyInv
<1>2. ASSUME NEW c \in Clients, Enter(c) PROVE ReplyInv'
  BY <1>2, FunctionTypes DEF Enter, cgoto, callVars, ReplyInv
<1>3. ASSUME NEW c \in Clients, send_msg(c), ~Enter(c) PROVE ReplyInv'
  <2>1. /\ cpc'[c] \notin {"enter", "refuse"}
        /\ \A d \in Clients : d # c => cpc'[d] = cpc[d] /\ reply'[d] = reply[d]
    BY <1>3, FunctionTypes DEF send_msg, Refuse, UpClients, Leave, DownServers, ReadPact,
       PactRead, WriteMessage, ReadAnswer, Done, cgoto, callVars
  <2>. QED BY <2>1 DEF ReplyInv
<1>4. CASE \/ \E t \in Servers : CreateThread(t) \/ SSMMsg_server_proc(t)
           \/ StopAccepting \/ stop_serve_clients \/ UNCHANGED vars
  <2>1. UNCHANGED clientVars
    BY <1>4, Zenon DEF SSMMsg_server_proc, ReadParam, UpServers, DownClients, Test, Take, Taken,
       DownPact, PactWritten, DownPactRead, UpPact, DownWritten, Func, Processed,
       DownRead, Release, Released, CreateThread, StopAccepting, stop_serve_clients,
       StopLeave, Poll, StopThreads, RaiseClients, Join, vars, clientVars
  <2>. QED BY <2>1, SMTT(20) DEF clientVars, ReplyInv
<1>. QED BY <1>1, <1>2, <1>3, <1>4 DEF Next

(* A message is never its own answer.                                       *)
LEMMA AnswerDiffers == \A m \in Messages : Answer(m) # m
<1>. SUFFICES ASSUME NEW m \in Messages PROVE Answer(m) # m
  OBVIOUS
<1>1. DOMAIN m = {"from", "body"} /\ DOMAIN Answer(m) = {"answer"}
  BY DEF Messages, Answer
<1>. QED BY <1>1

(* A step that the service does not see.                                    *)
LEMMA Unseen ==
    ASSUME \A c \in Clients : CallState(c)' = CallState(c),
           UNCHANGED <<msg, answers, isServing>>
    PROVE  UNCHANGED Service!serviceVars
BY DEF calls, Service!serviceVars

(* The steps of send_msg.                                                   *)
LEMMA ClientRefines ==
    ASSUME RefInv, NEW c \in Clients, Call(c) \/ send_msg(c)
    PROVE  [Service!ServiceNext]_Service!serviceVars
<1>. USE DEF RefInv, FullInv
<1>1. CASE Call(c)
  <2>. PICK b \in Bodies : msg' = [msg EXCEPT ![c] = [from |-> c, body |-> b]]
    BY <1>1, Zenon DEF Call
  <2>1. calls[c] = "idle" /\ calls' = [calls EXCEPT ![c] = "sending"]
    BY <1>1, FunctionTypes, Zenon DEF Call, cgoto, dataVars, calls, CallState
  <2>2. answers' = [answers EXCEPT ![c] = NoMessage]
    BY <1>1, FunctionTypes, Zenon DEF Call, cgoto, answers
  <2>3. Service!Send(c, [from |-> c, body |-> b])
    BY <1>1, <2>1, <2>2 DEF Call, processVars, isServing, Service!Send
  <2>. QED BY <2>3, ConstantFacts DEF Service!ServiceNext
<1>2. CASE Enter(c)
  <2>1. UNCHANGED <<msg, answers, isServing>> /\ calls[c] = "sending"
    BY <1>2, FunctionTypes DEF Enter, cgoto, callVars, processVars, answers, isServing, calls,
       CallState
  <2>2. CASE Accepting
    <3>1. calls' = [calls EXCEPT ![c] = "accepted"]
      BY <1>2, <2>2, FunctionTypes, Zenon DEF Enter, cgoto, callVars, dataVars, calls, CallState
    <3>2. isServing
      BY <2>2, CounterTypes DEF Accepting, StopInv, isServing
    <3>. QED BY <2>1, <3>1, <3>2, Zenon DEF Service!Accept, Service!ServiceNext
  <2>3. CASE ~Accepting
    <3>1. \A d \in Clients : CallState(d)' = CallState(d)
      BY <1>2, <2>3, FunctionTypes DEF Enter, cgoto, callVars, dataVars, CallState
    <3>. QED BY <2>1, <3>1, Unseen
  <2>. QED BY <2>2, <2>3
<1>3. CASE Refuse(c)
  <2>1. calls[c] = "sending" /\ calls' = [calls EXCEPT ![c] = "idle"]
    BY <1>3, FunctionTypes, Zenon DEF Refuse, cgoto, dataVars, calls, CallState
  <2>2. answers' = answers
    BY <1>3, FunctionTypes DEF Refuse, cgoto, ReplyInv, answers
  <2>. QED BY <1>3, <2>1, <2>2, Zenon DEF Refuse, processVars, isServing, Service!Refuse,
          Service!ServiceNext
<1>4. CASE UpClients(c) \/ Leave(c) \/ DownServers(c) \/ ReadPact(c) \/ PactRead(c)
  <2>1. UNCHANGED <<msg, reply, buf, isServing>>
    BY <1>4, Zenon DEF UpClients, Leave, DownServers, ReadPact, PactRead, callVars, dataVars,
       processVars, isServing
  <2>2. /\ cpc[c] \in InCall \ {"await", "done"} /\ cpc'[c] \in InCall \ {"await", "done"}
        /\ \A d \in Clients : d # c => cpc'[d] = cpc[d] /\ num'[d] = num[d]
    BY <1>4, FunctionTypes DEF UpClients, Leave, DownServers, ReadPact, PactRead, cgoto, callVars,
       InCall
  <2>3. \A d \in Clients : CallState(d)' = CallState(d)
    BY <2>1, <2>2 DEF InCall, CallState
  <2>4. UNCHANGED answers
    BY <2>1, <2>2 DEF InCall, answers
  <2>. QED BY <2>1, <2>3, <2>4, Unseen
<1>5. CASE WriteMessage(c)
  <2>1. CallState(c) = "accepted" /\ CallState(c)' = "accepted"
    BY <1>5, AnswerDiffers, FunctionTypes DEF WriteMessage, cgoto, callVars, MsgInv, PairInv,
       Pair, CallState
  <2>2. ASSUME NEW d \in Clients, d # c PROVE CallState(d)' = CallState(d)
    <3>1. cpc[d] = "await" => num[d] # num[c]
      BY <1>5, <2>2 DEF WriteMessage, cgoto, MsgInv, BuffersNotShared, HasBuffer
    <3>2. cpc'[d] = cpc[d] /\ UNCHANGED <<msg, num>>
      BY <1>5, <2>2, FunctionTypes DEF WriteMessage, cgoto, callVars
    <3>3. cpc[d] = "await" => buf'[num[d]] = buf[num[d]]
      BY <1>5, <3>1, FunctionTypes DEF WriteMessage
    <3>4. CASE cpc[d] = "await"
      BY <3>2, <3>3, <3>4 DEF CallState
    <3>5. CASE cpc[d] # "await"
      BY <3>2, <3>5, FunctionTypes DEF InCall, CallState
    <3>. QED BY <3>4, <3>5
  <2>3. UNCHANGED <<msg, answers, isServing>>
    BY <1>5, FunctionTypes DEF WriteMessage, cgoto, callVars, processVars, answers, isServing
  <2>. QED BY <2>1, <2>2, <2>3, Unseen
<1>6. CASE ReadAnswer(c)
  <2>1. buf[num[c]] = Answer(msg[c]) /\ cpc[c] = "await"
    BY <1>6 DEF ReadAnswer, cgoto, downOf, MsgInv, TypeOK, PairInv, Pair, DataInv, Early
  <2>2. \A d \in Clients : CallState(d)' = CallState(d)
    BY <1>6, <2>1, FunctionTypes DEF ReadAnswer, cgoto, CallState
  <2>3. UNCHANGED <<msg, answers, isServing>>
    BY <1>6, FunctionTypes DEF ReadAnswer, cgoto, processVars, answers, isServing
  <2>. QED BY <2>2, <2>3, Unseen
<1>7. CASE Done(c)
  <2>1. calls[c] = "processed" /\ calls' = [calls EXCEPT ![c] = "idle"]
    <3>1. CallState(c) = "processed" /\ CallState(c)' = "idle"
      <4>1. cpc[c] = "done" /\ cpc'[c] = "idle"
        BY <1>7, FunctionTypes DEF Done, cgoto
      <4>. QED BY <4>1, FunctionTypes DEF CallState
    <3>2. ASSUME NEW d \in Clients, d # c PROVE CallState(d)' = CallState(d)
      <4>1. cpc'[d] = cpc[d] /\ msg'[d] = msg[d] /\ num'[d] = num[d] /\ UNCHANGED buf
        BY <1>7, <3>2, FunctionTypes DEF Done, cgoto
      <4>. QED BY <4>1 DEF CallState
    <3>. QED BY <3>1, <3>2, Zenon DEF calls
  <2>2. answers' = [answers EXCEPT ![c] = Answer(msg[c])]
    BY <1>7, FunctionTypes, Zenon DEF Done, cgoto, MsgInv, PairInv, Pair, answers
  <2>. QED BY <1>7, <2>1, <2>2, Zenon DEF Done, processVars, isServing, Service!Return,
          Service!ServiceNext
<1>. QED BY <1>1, <1>2, <1>3, <1>4, <1>5, <1>6, <1>7 DEF send_msg

(* The handler's run is where a call counts as processed.                   *)
LEMMA HandlerRefines ==
    ASSUME RefInv, NEW t \in Servers, Func(t)
    PROVE  Service!ServiceNext
<1>. USE DEF RefInv, FullInv
<1>1. i[t] = t /\ spc[t] = "func"
  BY DEF Func, sgoto, MsgInv, NumbersInv
<1>. PICK c \in Clients : cpc[c] = "await" /\ num[c] = t
  BY <1>1 DEF MsgInv, DataInv
<1>2. buf[t] = msg[c] /\ msg[c] \in Messages
  BY <1>1 DEF MsgInv, PairInv, Pair, Early
<1>3. buf' = [buf EXCEPT ![t] = Answer(msg[c])] /\ UNCHANGED clientVars
  BY <1>1, <1>2 DEF Func
<1>4. CallState(c) = "accepted" /\ CallState(c)' = "processed"
  BY <1>2, <1>3, AnswerDiffers, FunctionTypes DEF clientVars, CallState
<1>5. ASSUME NEW d \in Clients, d # c PROVE CallState(d)' = CallState(d)
  <2>1. cpc[d] = "await" => num[d] # t
    BY <1>5 DEF MsgInv, BuffersNotShared, HasBuffer
  <2>2. cpc[d] = "await" => buf'[num[d]] = buf[num[d]]
    BY <1>3, <2>1, FunctionTypes
  <2>3. CASE cpc[d] = "await"
    BY <1>3, <2>2, <2>3 DEF clientVars, CallState
  <2>4. CASE cpc[d] # "await"
    BY <1>3, <2>4, FunctionTypes DEF clientVars, InCall, CallState
  <2>. QED BY <2>3, <2>4
<1>6. calls[c] = "accepted" /\ calls' = [calls EXCEPT ![c] = "processed"]
  BY <1>4, <1>5, Zenon DEF calls
<1>7. UNCHANGED <<msg, answers, isServing>>
  BY <1>3 DEF Func, clientVars, processVars, answers, isServing
<1>. QED BY <1>6, <1>7, Zenon DEF Service!Process, Service!ServiceNext

(* The other steps of a thread, and those of the process but one, are not   *)
(* seen.                                                                    *)
LEMMA OthersUnseen ==
    ASSUME RefInv,
           \/ UNCHANGED vars
           \/ \E t \in Servers : CreateThread(t) \/ (SSMMsg_server_proc(t) /\ ~Func(t))
           \/ StopAccepting
           \/ stop_serve_clients /\ ~StopThreads
    PROVE  UNCHANGED Service!serviceVars
<1>1. UNCHANGED <<clientVars, buf>>
  BY ZenonT(30) DEF SSMMsg_server_proc, ReadParam, UpServers, DownClients, Test, Take, Taken,
     DownPact, PactWritten, DownPactRead, UpPact, DownWritten, Processed, DownRead,
     Release, Released, CreateThread, StopAccepting, stop_serve_clients, StopLeave,
     Poll, RaiseClients, Join, vars, dataVars, clientVars
<1>2. UNCHANGED isServing
  <2>1. CASE \E t \in Servers : SSMMsg_server_proc(t)
    BY <2>1, Zenon DEF SSMMsg_server_proc, ReadParam, UpServers, DownClients, Test, Take, Taken,
       DownPact, PactWritten, DownPactRead, UpPact, DownWritten, Func, Processed,
       DownRead, Release, Released, processVars, isServing
  <2>2. CASE \E t \in Servers : CreateThread(t)
    BY <2>2 DEF CreateThread, isServing
  <2>3. CASE StopAccepting \/ StopLeave \/ Poll
    BY <2>3 DEF StopAccepting, StopLeave, Poll, goto, isServing
  <2>4. CASE RaiseClients \/ Join
    BY <2>4 DEF RaiseClients, Join, goto, isServing
  <2>5. CASE UNCHANGED vars
    BY <2>5 DEF vars, processVars, isServing
  <2>. QED BY <2>1, <2>2, <2>3, <2>4, <2>5 DEF stop_serve_clients
<1>3. \A c \in Clients : CallState(c)' = CallState(c)
  BY <1>1 DEF clientVars, CallState
<1>4. UNCHANGED <<msg, answers>>
  BY <1>1 DEF clientVars, answers
<1>. QED BY <1>2, <1>3, <1>4, Unseen

(* The service ends when the threads are told to exit.                      *)
LEMMA StopRefines ==
    ASSUME RefInv, StopThreads
    PROVE  Service!ServiceNext
<1>. USE DEF RefInv, FullInv
<1>1. isServing /\ isServing' = FALSE
  BY DEF StopThreads, goto, isServing
<1>2. \A c \in Clients : calls[c] \notin {"accepted", "processed"}
  BY FunctionTypes DEF StopThreads, goto, StopInv, InCall, calls, CallState
<1>3. UNCHANGED <<calls, msg, answers>>
  BY DEF StopThreads, clientVars, dataVars, calls, CallState, answers
<1>. QED BY <1>1, <1>2, <1>3 DEF Service!Stop, Service!ServiceNext

(* The initial state is the service's.                                      *)
LEMMA InitRefines == Init => Service!ServiceInit
BY DEF Init, Service!ServiceInit, calls, CallState, answers, isServing

(* For every value of the constants, SSMMsg implements the service of its   *)
(* header: an accepted message is processed exactly once, its sender gets   *)
(* its answer, and stop_serve_clients returns only when none is pending.    *)
THEOREM ImplementsServiceHolds ==
    ASSUME ThreadsNumbered
    PROVE  Spec => ImplementsService
<1>1. Init => RefInv
  BY FullInvInit DEF Init, RefInv, ReplyInv
<1>2. RefInv /\ [Next]_vars => RefInv'
  BY FullInvStep, ReplyStep DEF RefInv
<1>3. RefInv /\ [Next]_vars => [Service!ServiceNext]_Service!serviceVars
  BY ClientRefines, HandlerRefines, OthersUnseen, StopRefines DEF Next
<1>. QED BY <1>1, <1>2, <1>3, InitRefines, PTL DEF Spec, ImplementsService,
        Service!ServiceSpec
=============================================================================
