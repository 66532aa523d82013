------------------------------- MODULE SSMMsg -------------------------------
(***************************************************************************)
(* Messages through shared memory (common/SSMMsg): the way transactions    *)
(* and the governor call the storage manager.  Clients and server threads  *)
(* meet through an array of semaphores.  A thread that takes a client (a   *)
(* unit of sem_clients) writes the number of its buffer to the cell slot,  *)
(* the pact; some client that waits reads it and from then on the two use  *)
(* that buffer.  A step is one semaphore operation with the memory access  *)
(* next to it.                                                             *)
(***************************************************************************)
EXTENDS Integers, FiniteSets

CONSTANTS
    Clients,            \* the processes that call send_msg
    servers_amount,     \* number of server threads (the storage manager has 1)
    MESSAGES_IN_QUEUE,  \* messages that may wait (100 in SSMMsg.cpp)
    Bodies,             \* what a message can say
    NoMessage,          \* a buffer that holds no message
    PromptStart         \* does a server thread read its number before the
                        \* next one is created?

ASSUME SSMMsgAssumption ==
    /\ IsFiniteSet(Clients)
    /\ servers_amount \in Nat \ {0} /\ MESSAGES_IN_QUEUE \in Nat
    /\ NoMessage \notin [from : Clients, body : Bodies]
    /\ PromptStart \in BOOLEAN

Servers == 0 .. servers_amount - 1

VARIABLES
    sem_clients,       \* calls that wait for a thread (and stop's units)
    sem_servers,       \* threads that wait for a call
    sem_mutex,         \* guards the counters
    sem_pact,          \* guards the slot
    sem_pact_written,  \* the slot has been written
    sem_pact_read,     \* the slot has been read
    waiting, busy_servers_amount, process_messages,  \* the counters
    slot,              \* the buffer offered to the next client
    data_written, data_processed, data_read,  \* a semaphore for each buffer
    buf,               \* the buffers
    cpc,               \* where each client is in send_msg
    msg,               \* the message of its call
    reply,             \* the answer of its last call
    num,               \* its server_num
    spc,               \* where each thread is in SSMMsg_server_proc
    i,                 \* its number
    pc,                \* where the server process is
    raised,            \* units of sem_clients raised by stop_serve_clients
    param,             \* server_param->i, one cell for all threads
    shutdown_server_proc

queueVars == <<sem_clients, sem_servers>>
mutexVars == <<sem_mutex, waiting, busy_servers_amount, process_messages>>
pactVars == <<sem_pact, sem_pact_written, sem_pact_read, slot>>
dataVars == <<data_written, data_processed, data_read, buf>>
clientVars == <<cpc, msg, reply, num>>
callVars == <<msg, reply, num>>
serverVars == <<spc, i>>
processVars == <<pc, raised, param, shutdown_server_proc>>
vars == <<queueVars, mutexVars, pactVars, dataVars, clientVars, serverVars, processVars>>

(* Buffers hold a message or the answer to one *)
Messages == [from : Clients, body : Bodies]
Answer(m) == [answer |-> m]
Contents == {NoMessage} \cup Messages \cup {Answer(m) : m \in Messages}

(* A client whose message has been counted in waiting *)
InCall == {"up_clients", "leave", "down_servers", "pact", "pact_read", "write",
           "await", "done"}
(* A client that has agreed on a buffer *)
HasBuffer == {"pact_read", "write", "await", "done"}

ServerStates == {"none", "start", "up_servers", "down_clients", "test", "exited",
                 "take", "taken", "down_pact", "pact_written", "down_pact_read",
                 "up_pact", "down_written", "func", "processed", "down_read",
                 "release", "released"}

(* The types of the variables.  The counters are only integers here.        *)
TypeOK ==
    /\ sem_clients \in Nat /\ sem_servers \in Nat /\ sem_mutex \in Nat
    /\ sem_pact \in Nat /\ sem_pact_written \in Nat /\ sem_pact_read \in Nat
    /\ waiting \in Int /\ busy_servers_amount \in Int
    /\ process_messages \in 0..1 /\ slot \in Servers
    /\ data_written \in [Servers -> Nat] /\ data_processed \in [Servers -> Nat]
    /\ data_read \in [Servers -> Nat] /\ buf \in [Servers -> Contents]
    /\ cpc \in [Clients -> InCall \cup {"idle", "enter", "refuse"}]
    /\ msg \in [Clients -> {NoMessage} \cup Messages]
    /\ reply \in [Clients -> Contents]
    /\ num \in [Clients -> Servers]
    /\ spc \in [Servers -> ServerStates] /\ i \in [Servers -> Servers]
    /\ pc \in {"create", "serving", "stop_leave", "poll", "quiet", "raise",
               "join", "stopped"}
    /\ raised \in Nat /\ param \in Servers /\ shutdown_server_proc \in BOOLEAN

Init ==
    /\ sem_clients = 0 /\ sem_servers = 0 /\ sem_mutex = 1
    /\ sem_pact = 1 /\ sem_pact_written = 0 /\ sem_pact_read = 0
    /\ waiting = 0 /\ busy_servers_amount = 0 /\ process_messages = 1
    /\ slot = 0
    /\ data_written = [s \in Servers |-> 0] /\ data_processed = [s \in Servers |-> 0]
    /\ data_read = [s \in Servers |-> 0] /\ buf = [s \in Servers |-> NoMessage]
    /\ cpc = [c \in Clients |-> "idle"]
    /\ msg = [c \in Clients |-> NoMessage]
    /\ reply = [c \in Clients |-> NoMessage]
    /\ num = [c \in Clients |-> 0]
    /\ spc = [s \in Servers |-> "none"] /\ i = [s \in Servers |-> 0]
    /\ pc = "create" /\ raised = 0 /\ param = 0
    /\ shutdown_server_proc = FALSE

(* Operations on a semaphore and on one of an array *)
down(x) == x > 0 /\ x' = x - 1
up(x)   == x' = x + 1
downOf(x, s) == x[s] > 0 /\ x' = [x EXCEPT ![s] = @ - 1]
upOf(x, s)   == x' = [x EXCEPT ![s] = @ + 1]

cgoto(c, from, to) == cpc[c] = from /\ cpc' = [cpc EXCEPT ![c] = to]
sgoto(s, from, to) == spc[s] = from /\ spc' = [spc EXCEPT ![s] = to]
goto(from, to)     == pc = from /\ pc' = to

-----------------------------------------------------------------------------
(* send_msg *)

Call(c) ==
    /\ cgoto(c, "idle", "enter")
    /\ \E b \in Bodies : msg' = [msg EXCEPT ![c] = [from |-> c, body |-> b]]
    /\ reply' = [reply EXCEPT ![c] = NoMessage]
    /\ UNCHANGED <<queueVars, mutexVars, pactVars, dataVars, num, serverVars,
                   processVars>>

AcceptingAlways == waiting < MESSAGES_IN_QUEUE                     \* mutant
Accepting == waiting < MESSAGES_IN_QUEUE /\ process_messages = 1

Enter(c) ==
    /\ down(sem_mutex)
    /\ IF Accepting
       THEN /\ cgoto(c, "enter", "up_clients")
            /\ waiting' = waiting + 1
       ELSE cgoto(c, "enter", "refuse") /\ UNCHANGED waiting
    /\ UNCHANGED <<queueVars, busy_servers_amount, process_messages, pactVars,
                   dataVars, callVars, serverVars, processVars>>

Refuse(c) ==
    /\ cgoto(c, "refuse", "idle")
    /\ up(sem_mutex)
    /\ msg' = [msg EXCEPT ![c] = NoMessage]
    /\ UNCHANGED <<queueVars, waiting, busy_servers_amount, process_messages,
                   pactVars, dataVars, reply, num, serverVars, processVars>>

UpClients(c) ==
    /\ cgoto(c, "up_clients", "leave")
    /\ up(sem_clients)
    /\ UNCHANGED <<sem_servers, mutexVars, pactVars, dataVars, callVars,
                   serverVars, processVars>>

Leave(c) ==
    /\ cgoto(c, "leave", "down_servers")
    /\ up(sem_mutex)
    /\ UNCHANGED <<queueVars, waiting, busy_servers_amount, process_messages,
                   pactVars, dataVars, callVars, serverVars, processVars>>

DownServers(c) ==
    /\ cgoto(c, "down_servers", "pact")
    /\ down(sem_servers)
    /\ UNCHANGED <<sem_clients, mutexVars, pactVars, dataVars, callVars,
                   serverVars, processVars>>

ReadPact(c) ==
    /\ cgoto(c, "pact", "pact_read")
    /\ down(sem_pact_written)
    /\ num' = [num EXCEPT ![c] = slot]
    /\ UNCHANGED <<queueVars, mutexVars, sem_pact, sem_pact_read, slot, dataVars,
                   msg, reply, serverVars, processVars>>

PactRead(c) ==
    /\ cgoto(c, "pact_read", "write")
    /\ up(sem_pact_read)
    /\ UNCHANGED <<queueVars, mutexVars, sem_pact, sem_pact_written, slot,
                   dataVars, callVars, serverVars, processVars>>

WriteMessage(c) ==
    /\ cgoto(c, "write", "await")
    /\ buf' = [buf EXCEPT ![num[c]] = msg[c]]
    /\ upOf(data_written, num[c])
    /\ UNCHANGED <<queueVars, mutexVars, pactVars, data_processed, data_read,
                   callVars, serverVars, processVars>>

ReadAnswer(c) ==
    /\ cgoto(c, "await", "done")
    /\ downOf(data_processed, num[c])
    /\ reply' = [reply EXCEPT ![c] = buf[num[c]]]
    /\ UNCHANGED <<queueVars, mutexVars, pactVars, data_written, data_read, buf,
                   msg, num, serverVars, processVars>>

Done(c) ==
    /\ cgoto(c, "done", "idle")
    /\ upOf(data_read, num[c])
    /\ msg' = [msg EXCEPT ![c] = NoMessage]
    /\ num' = [num EXCEPT ![c] = 0]
    /\ UNCHANGED <<queueVars, mutexVars, pactVars, data_written, data_processed,
                   buf, reply, serverVars, processVars>>

send_msg(c) ==
    \/ Enter(c) \/ Refuse(c) \/ UpClients(c) \/ Leave(c) \/ DownServers(c)
    \/ ReadPact(c) \/ PactRead(c) \/ WriteMessage(c) \/ ReadAnswer(c) \/ Done(c)

-----------------------------------------------------------------------------
(* SSMMsg_server_proc *)

ReadParam(s) ==
    /\ sgoto(s, "start", "up_servers")
    /\ i' = [i EXCEPT ![s] = param]
    /\ UNCHANGED <<queueVars, mutexVars, pactVars, dataVars, clientVars,
                   processVars>>

UpServers(s) ==
    /\ sgoto(s, "up_servers", "down_clients")
    /\ up(sem_servers)
    /\ UNCHANGED <<sem_clients, mutexVars, pactVars, dataVars, clientVars, i,
                   processVars>>

DownClients(s) ==
    /\ sgoto(s, "down_clients", "test")
    /\ down(sem_clients)
    /\ UNCHANGED <<sem_servers, mutexVars, pactVars, dataVars, clientVars, i,
                   processVars>>

Test(s) ==
    /\ sgoto(s, "test", IF shutdown_server_proc THEN "exited" ELSE "take")
    /\ UNCHANGED <<queueVars, mutexVars, pactVars, dataVars, clientVars, i,
                   processVars>>

Take(s) ==
    /\ sgoto(s, "take", "taken")
    /\ down(sem_mutex)
    /\ waiting' = waiting - 1
    /\ busy_servers_amount' = busy_servers_amount + 1
    /\ UNCHANGED <<queueVars, process_messages, pactVars, dataVars, clientVars, i,
                   processVars>>

Taken(s) ==
    /\ sgoto(s, "taken", "down_pact")
    /\ up(sem_mutex)
    /\ UNCHANGED <<queueVars, waiting, busy_servers_amount, process_messages,
                   pactVars, dataVars, clientVars, i, processVars>>

DownPact(s) ==
    /\ sgoto(s, "down_pact", "pact_written")
    /\ down(sem_pact)
    /\ slot' = i[s]
    /\ UNCHANGED <<queueVars, mutexVars, sem_pact_written, sem_pact_read,
                   dataVars, clientVars, i, processVars>>

PactWritten(s) ==
    /\ sgoto(s, "pact_written", "down_pact_read")
    /\ up(sem_pact_written)
    /\ UNCHANGED <<queueVars, mutexVars, sem_pact, sem_pact_read, slot, dataVars,
                   clientVars, i, processVars>>

DownPactReadNoWait(s) ==                                           \* mutant
    /\ sgoto(s, "down_pact_read", "up_pact")
    /\ UNCHANGED <<queueVars, mutexVars, pactVars,
                   dataVars, clientVars, i, processVars>>

DownPactRead(s) ==
    /\ sgoto(s, "down_pact_read", "up_pact")
    /\ down(sem_pact_read)
    /\ UNCHANGED <<queueVars, mutexVars, sem_pact, sem_pact_written, slot,
                   dataVars, clientVars, i, processVars>>

UpPact(s) ==
    /\ sgoto(s, "up_pact", "down_written")
    /\ up(sem_pact)
    /\ UNCHANGED <<queueVars, mutexVars, sem_pact_written, sem_pact_read, slot,
                   dataVars, clientVars, i, processVars>>

DownWritten(s) ==
    /\ sgoto(s, "down_written", "func")
    /\ downOf(data_written, i[s])
    /\ UNCHANGED <<queueVars, mutexVars, pactVars, data_processed, data_read, buf,
                   clientVars, i, processVars>>

(* The handler leaves its answer in the buffer *)
Func(s) ==
    /\ sgoto(s, "func", "processed")
    /\ buf' = [buf EXCEPT ![i[s]] = Answer(@)]
    /\ UNCHANGED <<queueVars, mutexVars, pactVars, data_written, data_processed,
                   data_read, clientVars, i, processVars>>

Processed(s) ==
    /\ sgoto(s, "processed", "down_read")
    /\ upOf(data_processed, i[s])
    /\ UNCHANGED <<queueVars, mutexVars, pactVars, data_written, data_read, buf,
                   clientVars, i, processVars>>

DownRead(s) ==
    /\ sgoto(s, "down_read", "release")
    /\ downOf(data_read, i[s])
    /\ UNCHANGED <<queueVars, mutexVars, pactVars, data_written, data_processed,
                   buf, clientVars, i, processVars>>

Release(s) ==
    /\ sgoto(s, "release", "released")
    /\ down(sem_mutex)
    /\ busy_servers_amount' = busy_servers_amount - 1
    /\ UNCHANGED <<queueVars, waiting, process_messages, pactVars, dataVars,
                   clientVars, i, processVars>>

ReleasedLocked(s) ==                                               \* mutant
    /\ sgoto(s, "released", "up_servers")
    /\ UNCHANGED <<queueVars, mutexVars,
                   pactVars, dataVars, clientVars, i, processVars>>

Released(s) ==
    /\ sgoto(s, "released", "up_servers")
    /\ up(sem_mutex)
    /\ UNCHANGED <<queueVars, waiting, busy_servers_amount, process_messages,
                   pactVars, dataVars, clientVars, i, processVars>>

SSMMsg_server_proc(s) ==
    \/ ReadParam(s) \/ UpServers(s) \/ DownClients(s) \/ Test(s) \/ Take(s)
    \/ Taken(s) \/ DownPact(s) \/ PactWritten(s) \/ DownPactRead(s) \/ UpPact(s)
    \/ DownWritten(s) \/ Func(s) \/ Processed(s) \/ DownRead(s) \/ Release(s)
    \/ Released(s)

-----------------------------------------------------------------------------
(* serve_clients creates the threads one after the other *)
CreateThread(s) ==
    /\ pc = "create" /\ spc[s] = "none"
    /\ \A r \in Servers : r < s => /\ spc[r] # "none"
                                   /\ PromptStart => spc[r] # "start"
    /\ spc' = [spc EXCEPT ![s] = "start"]
    /\ param' = s
    /\ pc' = IF s = servers_amount - 1 THEN "serving" ELSE "create"
    /\ UNCHANGED <<queueVars, mutexVars, pactVars, dataVars, clientVars, i,
                   raised, shutdown_server_proc>>

(* stop_serve_clients *)
StopAccepting ==
    /\ goto("serving", "stop_leave")
    /\ down(sem_mutex)
    /\ process_messages' = 0
    /\ UNCHANGED <<queueVars, waiting, busy_servers_amount, pactVars, dataVars,
                   clientVars, serverVars, raised, param, shutdown_server_proc>>

StopLeave ==
    /\ goto("stop_leave", "poll")
    /\ up(sem_mutex)
    /\ UNCHANGED <<queueVars, waiting, busy_servers_amount, process_messages,
                   pactVars, dataVars, clientVars, serverVars, raised, param,
                   shutdown_server_proc>>

Quiet == waiting = 0 /\ busy_servers_amount = 0

Poll ==
    /\ goto("poll", IF Quiet THEN "quiet" ELSE "stop_leave")
    /\ down(sem_mutex)
    /\ UNCHANGED <<queueVars, waiting, busy_servers_amount, process_messages,
                   pactVars, dataVars, clientVars, serverVars, raised, param,
                   shutdown_server_proc>>

StopThreads ==
    /\ goto("quiet", "raise")
    /\ up(sem_mutex)
    /\ shutdown_server_proc' = TRUE
    /\ UNCHANGED <<queueVars, waiting, busy_servers_amount, process_messages,
                   pactVars, dataVars, clientVars, serverVars, raised, param>>

RaiseOnce ==                                                       \* mutant
    /\ goto("raise", "join")
    /\ up(sem_clients)
    /\ raised' = raised + 1
    /\ UNCHANGED <<sem_servers, mutexVars, pactVars, dataVars, clientVars,
                   serverVars, param, shutdown_server_proc>>

RaiseClients ==
    /\ goto("raise", IF raised + 1 = servers_amount THEN "join" ELSE "raise")
    /\ up(sem_clients)
    /\ raised' = raised + 1
    /\ UNCHANGED <<sem_servers, mutexVars, pactVars, dataVars, clientVars,
                   serverVars, param, shutdown_server_proc>>

Join ==
    /\ goto("join", "stopped")
    /\ \A s \in Servers : spc[s] = "exited"
    /\ UNCHANGED <<queueVars, mutexVars, pactVars, dataVars, clientVars,
                   serverVars, raised, param, shutdown_server_proc>>

stop_serve_clients ==
    StopLeave \/ Poll \/ StopThreads \/ RaiseClients \/ Join

Next ==
    \/ \E c \in Clients : Call(c) \/ send_msg(c)
    \/ \E s \in Servers : CreateThread(s) \/ SSMMsg_server_proc(s)
    \/ StopAccepting \/ stop_serve_clients

Spec == Init /\ [][Next]_vars

-----------------------------------------------------------------------------
(* A thread that has counted itself busy *)
Busy == {"taken", "down_pact", "pact_written", "down_pact_read", "up_pact",
         "down_written", "func", "processed", "down_read", "release"}

(* Two clients never agree on the same buffer at the same time: the pact    *)
(* hands each announced slot to one client, and a thread announces its slot *)
(* again only when its last client has read its answer.                     *)
BuffersNotShared ==
    \A c, d \in Clients :
        c # d /\ {cpc[c], cpc[d]} \subseteq HasBuffer => num[c] # num[d]

(* The answer a call returns is the answer to its own message, never the    *)
(* message itself, another client's answer or an earlier one.               *)
OwnAnswer == \A c \in Clients : cpc[c] = "done" => reply[c] = Answer(msg[c])

(* When stop_serve_clients tells the threads to exit no accepted call is    *)
(* left: a thread that finds shutdown_server_proc set leaves no client of   *)
(* send_msg behind, blocked for ever on a semaphore.                        *)
StopLosesNoCall ==
    shutdown_server_proc => \A c \in Clients : cpc[c] \notin InCall

(* The calls of send_msg are served: no two of them use one buffer, each    *)
(* gets its own answer, and stop_serve_clients leaves none behind.          *)
CallsServed == TypeOK /\ BuffersNotShared /\ OwnAnswer /\ StopLosesNoCall

(* The promise of SSMMsg.h.  A message is processed from the handler's run  *)
(* in its buffer on; the service serves until stop_serve_clients' poll has  *)
(* found the counters at zero.                                              *)
CallState(c) ==
    IF cpc[c] = "idle" THEN "idle"
    ELSE IF cpc[c] \in {"enter", "refuse"} THEN "sending"
    ELSE IF cpc[c] = "done" THEN "processed"
    ELSE IF cpc[c] = "await" /\ buf[num[c]] = Answer(msg[c]) THEN "processed"
    ELSE "accepted"

calls == [c \in Clients |-> CallState(c)]
answers == [c \in Clients |-> IF cpc[c] = "idle" THEN reply[c] ELSE NoMessage]
isServing == pc \notin {"raise", "join", "stopped"}

Service == INSTANCE MsgService WITH
    call <- calls, sent <- msg, received <- answers, serving <- isServing

(* send_msg and the server threads implement the service: each accepted     *)
(* message is processed exactly once, the call that sent it gets its        *)
(* answer and no other, and after stop_serve_clients nothing is accepted.   *)
ImplementsService == Service!ServiceSpec

(* Fairness.  A process that can run does; a process that waits on a        *)
(* semaphore is woken in its turn (the System V semaphores serve waiting    *)
(* processes first come, first served).  Nobody has to call send_msg or     *)
(* stop_serve_clients.                                                      *)
Fairness ==
    /\ \A c \in Clients : SF_vars(send_msg(c))
    /\ \A s \in Servers : SF_vars(SSMMsg_server_proc(s))
    /\ SF_vars(stop_serve_clients \/ \E s \in Servers : CreateThread(s))

FairSpec == Spec /\ Fairness

(* Every call of send_msg returns, refused or answered, also when the       *)
(* server is being stopped meanwhile (no wait in it has a time limit: the   *)
(* milliseconds of down2 are not used).                                     *)
CallReturns == \A c \in Clients : cpc[c] = "enter" ~> cpc[c] = "idle"

(* stop_serve_clients returns: the calls accepted before it drain and every *)
(* thread gets the unit of sem_clients it needs to see the flag and exit.   *)
StopReturns == pc = "stop_leave" ~> pc = "stopped"

=============================================================================
