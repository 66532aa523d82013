----------------------------- MODULE MsgService -----------------------------
(***************************************************************************)
(* What SSMMsg promises to its callers (the comments of SSMMsg.h): a call  *)
(* of send_msg is refused, or its message is processed exactly once and    *)
(* the call returns the answer to that very message; stop_serve_clients    *)
(* returns only when every accepted message has been answered, and nothing *)
(* is accepted after it.                                                   *)
(***************************************************************************)
CONSTANTS
    Clients,    \* the processes that call send_msg
    Messages,   \* the messages they send
    NoMessage,  \* a call that has no message
    Answer(_)   \* what the server makes of a message

VARIABLES
    call,       \* for each client: its call's state
    sent,       \* its message
    received,   \* the answer of its last call
    serving     \* FALSE: stop_serve_clients has returned

serviceVars == <<call, sent, received, serving>>

ServiceInit ==
    /\ call = [c \in Clients |-> "idle"]
    /\ sent = [c \in Clients |-> NoMessage]
    /\ received = [c \in Clients |-> NoMessage]
    /\ serving = TRUE

Send(c, m) ==
    /\ call[c] = "idle"
    /\ call' = [call EXCEPT ![c] = "sending"]
    /\ sent' = [sent EXCEPT ![c] = m]
    /\ received' = [received EXCEPT ![c] = NoMessage]
    /\ UNCHANGED serving

Accept(c) ==
    /\ serving /\ call[c] = "sending"
    /\ call' = [call EXCEPT ![c] = "accepted"]
    /\ UNCHANGED <<sent, received, serving>>

Refuse(c) ==
    /\ call[c] = "sending"
    /\ call' = [call EXCEPT ![c] = "idle"]
    /\ sent' = [sent EXCEPT ![c] = NoMessage]
    /\ UNCHANGED <<received, serving>>

Process(c) ==
    /\ call[c] = "accepted"
    /\ call' = [call EXCEPT ![c] = "processed"]
    /\ UNCHANGED <<sent, received, serving>>

Return(c) ==
    /\ call[c] = "processed"
    /\ call' = [call EXCEPT ![c] = "idle"]
    /\ sent' = [sent EXCEPT ![c] = NoMessage]
    /\ received' = [received EXCEPT ![c] = Answer(sent[c])]
    /\ UNCHANGED serving

Stop ==
    /\ serving /\ \A c \in Clients : call[c] \notin {"accepted", "processed"}
    /\ serving' = FALSE
    /\ UNCHANGED <<call, sent, received>>

ServiceNext ==
    \/ \E c \in Clients :
           \/ \E m \in Messages : Send(c, m)
           \/ Accept(c) \/ Refuse(c) \/ Process(c) \/ Return(c)
    \/ Stop

ServiceSpec == ServiceInit /\ [][ServiceNext]_serviceVars
=============================================================================
