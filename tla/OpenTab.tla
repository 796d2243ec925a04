------------------------------ MODULE OpenTab ------------------------------
(* What runs in a tab beside its page: the cached queries and the event     *)
(* stream that keeps them current (LiveQueries), and the assistant's        *)
(* conversation (ChatStream).  They share no state (an action the assistant *)
(* runs reaches the queries as an announcement, AssistantWrites), so a      *)
(* behaviour follows one of them and leaves the other where it starts.      *)
EXTENDS LiveQueries

CONSTANTS Cards, None, MAX_MESSAGES, MaxRequests    \* of ChatStream

VARIABLES
    part,       \* what this behaviour follows: "queries" or "chat"
    chat, listener, requests, actions

conversation == <<chat, listener, requests, actions>>
tab == <<part, vars, conversation>>

C == INSTANCE ChatStream

TabInit ==
    /\ part \in {"queries", "chat"}
    /\ Init /\ C!Init
    /\ part = "chat" => query = CHOOSE q \in Watched : TRUE

OfQueries(A) == part = "queries" /\ A /\ UNCHANGED <<part, conversation>>
OfChat(A) == part = "chat" /\ A /\ UNCHANGED <<part, vars>>
TabNext ==
    \/ part = "queries" /\ Next /\ UNCHANGED <<part, conversation>>
    \/ part = "chat" /\ C!Next /\ UNCHANGED <<part, vars>>

(* The fairness of each part, as its module states it.                      *)
TabFairness ==
    /\ WF_tab(OfQueries(ServerReads)) /\ WF_tab(OfQueries(Answer)) /\ WF_tab(OfQueries(Poll))
    /\ \A r \in 1..MaxRequests :
           /\ WF_tab(OfChat(r \in DOMAIN requests /\ C!TaskEnds(r)))
           /\ WF_tab(OfChat(r \in DOMAIN requests /\ C!event_generator(r)))
TabSpec == TabInit /\ [][TabNext]_tab /\ TabFairness

----------------------------------------------------------------------------
(* ChatStream: the input and the message on its way agree, and a request    *)
(* the server took settles its message.                                     *)
OneStreamAtATime == C!OneStreamAtATime
StreamsSettle == C!StreamsSettle
(* The release notes say that a confirmed card shows "Updated".             *)
ConfirmedCardShowsUpdated == C!ConfirmedCardShowsUpdated
=============================================================================
