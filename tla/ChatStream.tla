----------------------------- MODULE ChatStream -----------------------------
(* The assistant's conversation in one tab: the chat store, the panel's     *)
(* buttons, the request each of them streams, and the server's end of the   *)
(* stream.  A question, a regenerated answer and a confirmed or cancelled   *)
(* card all start a request; Stop, New conversation and closing the panel   *)
(* abort it.  What a message says, its tool calls and its code blocks are   *)
(* left out, except the card that proposes a change.                        *)
EXTENDS Integers, Sequences, SequencesExt

CONSTANTS
    Cards,          \* the changes the assistant may propose
    None,
    MAX_MESSAGES,   \* what one conversation holds
    MaxRequests     \* requests in a behaviour

VARIABLES
    chat,       \* the store: messages, isStreaming, abortController, card states
    listener,   \* the subscription a confirmation leaves on the store
    requests,   \* every request made: where it stands, what it confirms
    actions     \* the server's proposed actions

vars == <<chat, listener, requests, actions>>

Message(r) == [role |-> "assistant", id |-> r, isStreaming |-> TRUE, error |-> FALSE,
               card |-> None]
Question == [role |-> "user", id |-> 0, isStreaming |-> FALSE, error |-> FALSE,
             card |-> None]
Init ==
    /\ chat = [messages |-> <<>>, isStreaming |-> FALSE, abortController |-> 0,
               cards |-> [k \in Cards |-> "pending"]]
    /\ listener = None
    /\ requests = <<>>
    /\ actions = [k \in Cards |-> "none"]

----------------------------------------------------------------------------
(* The store.                                                               *)
Updated(c, r, Change(_)) ==
    [c EXCEPT !.messages = [i \in DOMAIN @ |-> IF @[i].id = r THEN Change(@[i]) ELSE @[i]]]
Settled(c) == [c EXCEPT !.isStreaming = FALSE, !.abortController = 0]
setToolResult(c, r, k) == Updated(c, r, LAMBDA m : [m EXCEPT !.card = k])
completeMessage(c, r) ==
    Settled(Updated(c, r, LAMBDA m : [m EXCEPT !.isStreaming = FALSE]))
setMessageError(c, r) ==
    Settled(Updated(c, r, LAMBDA m : [m EXCEPT !.isStreaming = FALSE, !.error = TRUE]))
stopStreaming(c) ==
    Settled([c EXCEPT !.messages = [i \in DOMAIN @ |-> [@[i] EXCEPT !.isStreaming = FALSE]]])
addUserMessage(c) == [c EXCEPT !.messages = Append(@, Question)]
startAssistantMessage(c, r) ==
    [c EXCEPT !.messages = Append(@, Message(r)), !.isStreaming = TRUE]
removeLastAssistantMessage(c) ==
    IF Last(c.messages).role # "assistant" THEN c ELSE [c EXCEPT !.messages = Front(@)]
clearMessages(c) ==
    [Settled(c) EXCEPT !.messages = <<>>, !.cards = [k \in Cards |-> "pending"]]
setConfirmationState(c, k, s) == [c EXCEPT !.cards[k] = s]

(* A subscriber hears every change of the store before the change returns.  *)
(* handleConfirm's sets the card again from inside, so it hears itself, and *)
(* ends by exhausting the stack: the card keeps what it was set to, the     *)
(* subscription stays, and whoever changed the store gets the exception.    *)
Of(c, r) == SelectSeq(c.messages, LAMBDA m : m.id = r)
Speaks(c) == ~c.isStreaming /\ listener # None
Throws(c) == Speaks(c) /\ Of(c, listener.message) # <<>>
Heard(c) ==
    IF ~Throws(c) THEN c
    ELSE setConfirmationState(c, listener.card,
             IF Of(c, listener.message)[1].error THEN "pending" ELSE "confirmed")
Kept(c) == IF Speaks(c) /\ ~Throws(c) THEN None ELSE listener

----------------------------------------------------------------------------
(* The panel.                                                               *)
Aborted(r) ==
    [i \in DOMAIN requests |->
        IF i = r THEN [requests[i] EXCEPT !.aborted = TRUE] ELSE requests[i]]

startStream(c, card, approved) ==
    LET r == Len(requests) + 1 IN
    /\ r <= MaxRequests
    /\ chat' = [startAssistantMessage(c, r) EXCEPT !.abortController = r]
    /\ requests' = Append(requests,
           [phase |-> "sent", aborted |-> FALSE, task |-> "none", card |-> card,
            approved |-> approved, ended |-> "no"])

(* A handler stops where a change of the store throws.                      *)
Stuck(c) == Throws(c) /\ chat' = Heard(c) /\ UNCHANGED <<listener, requests>>

sendQuestion ==
    /\ ~chat.isStreaming /\ Len(chat.messages) < MAX_MESSAGES
    /\ LET c == addUserMessage(chat) IN
       Stuck(c) \/ (~Throws(c) /\ startStream(c, None, FALSE) /\ listener' = Kept(c))
    /\ UNCHANGED actions
handleRegenerate ==
    /\ ~chat.isStreaming /\ chat.messages # <<>> /\ Last(chat.messages).role = "assistant"
    /\ LET c == removeLastAssistantMessage(chat) IN
       Stuck(c) \/ (~Throws(c) /\ startStream(c, None, FALSE) /\ listener' = Kept(c))
    /\ UNCHANGED actions
handleNewConversationUnaborted ==
    /\ chat' = clearMessages(chat)
    /\ listener' = Kept(chat')
    /\ UNCHANGED <<actions, requests>>
handleNewConversation ==
    /\ requests' = Aborted(chat.abortController)
    /\ chat' = clearMessages(chat)
    /\ listener' = Kept(chat')
    /\ UNCHANGED actions

(* A card is a change some message proposes; its buttons work while it is   *)
(* pending.                                                                 *)
ConfirmationCard(k) == chat.cards[k] = "pending" /\ \E i \in DOMAIN chat.messages :
    chat.messages[i].card = k
handleConfirm(k) ==
    /\ ~chat.isStreaming /\ ConfirmationCard(k)
    /\ LET c == setConfirmationState(chat, k, "loading") IN
       \/ Stuck(c)
       \/ /\ ~Throws(c)
          /\ startStream(c, k, TRUE)
          /\ listener' = [card |-> k, message |-> Len(requests) + 1]
    /\ UNCHANGED actions
handleCancel(k) ==
    /\ ~chat.isStreaming /\ ConfirmationCard(k)
    /\ LET c == setConfirmationState(chat, k, "cancelled") IN
       Stuck(c) \/ (~Throws(c) /\ startStream(c, k, FALSE) /\ listener' = Kept(c))
    /\ UNCHANGED actions

handleStop ==
    /\ chat.isStreaming
    /\ requests' = Aborted(chat.abortController)
    /\ chat' = Heard(stopStreaming(chat))
    /\ listener' = Kept(stopStreaming(chat))
    /\ UNCHANGED actions
(* Closing the panel aborts the request and leaves its message streaming.   *)
closePanel ==
    /\ chat.abortController # 0
    /\ requests' = Aborted(chat.abortController)
    /\ UNCHANGED <<chat, listener, actions>>

----------------------------------------------------------------------------
(* The request: a refusal settles the message with an error; a request that *)
(* never gets an answer settles nothing; an aborted one reports nothing.    *)
(* The confirmed action runs before the answer is begun, whoever listens.   *)
Move(r, fields) ==
    requests' = [requests EXCEPT ![r] =
        [f \in DOMAIN @ |-> IF f \in DOMAIN fields THEN fields[f] ELSE @[f]]]
onError(r) ==
    IF requests[r].aborted THEN UNCHANGED <<chat, listener>>
    ELSE /\ chat' = Heard(setMessageError(chat, r))
         /\ listener' = Kept(setMessageError(chat, r))
(* An exception out of onDone is caught as a broken stream.                 *)
onDone(r) ==
    LET c == completeMessage(chat, r) IN
    IF requests[r].aborted THEN UNCHANGED <<chat, listener>>
    ELSE IF Throws(c)
    THEN /\ chat' = Heard(setMessageError(Heard(c), r))
         /\ listener' = Kept(setMessageError(Heard(c), r))
    ELSE chat' = c /\ listener' = Kept(c)

HandleConfirmation(r) ==
    LET k == requests[r].card IN
    actions' = IF k = None \/ actions[k] # "proposed" THEN actions
               ELSE [actions EXCEPT ![k] = IF requests[r].approved THEN "executed"
                                           ELSE "cancelled"]
Expired(r) == requests[r].card # None /\ requests[r].approved /\ actions[requests[r].card] # "proposed"

post_chat(r) ==
    /\ requests[r].phase = "sent" /\ ~Expired(r)
    /\ HandleConfirmation(r)
    /\ Move(r, [phase |-> "streaming", task |-> "running"])
    /\ UNCHANGED <<chat, listener>>
(* The limiter, an expired action, or what fails after the action ran.      *)
Refuse(r) ==
    /\ requests[r].phase = "sent"
    /\ UNCHANGED actions \/ (~Expired(r) /\ HandleConfirmation(r))
    /\ Move(r, [phase |-> "over", ended |-> "refused"])
    /\ onError(r)
FetchFails(r) ==
    /\ requests[r].phase = "sent"
    /\ UNCHANGED actions \/ (~Expired(r) /\ HandleConfirmation(r))
    /\ Move(r, [phase |-> "lost"])
    /\ UNCHANGED <<chat, listener>>

----------------------------------------------------------------------------
(* The server's end: the task fills the queue and always puts the sentinel; *)
(* the generator ends the stream when it reads it.                          *)
Streams(r) == requests[r].phase = "streaming" /\ requests[r].task = "running"
Propose(r, k) ==
    /\ Streams(r) /\ actions[k] = "none" /\ ~requests[r].aborted
    /\ actions' = [actions EXCEPT ![k] = "proposed"]
    /\ chat' = setToolResult(chat, r, k)
    /\ UNCHANGED <<listener, requests>>
TaskEnds(r) ==
    /\ Streams(r)
    /\ \E how \in {"finished", "raised", "cancelled"} : Move(r, [task |-> how])
    /\ UNCHANGED <<chat, listener, actions>>

SentinelOnSuccess(r) == requests[r].task = "finished"
Sentinel(r) == requests[r].task \in {"finished", "raised", "cancelled"}
event_generator(r) ==
    /\ requests[r].phase = "streaming" /\ Sentinel(r)
    /\ Move(r, [phase |-> "over", ended |-> requests[r].task])
    /\ IF requests[r].task = "finished" THEN onDone(r) ELSE onError(r)
    /\ UNCHANGED actions
(* The connection breaks, or the generator notices that nobody reads.       *)
Breaks(r) ==
    /\ requests[r].phase = "streaming"
    /\ Move(r, [phase |-> "over", task |-> "cancelled", ended |-> "broken"])
    /\ onError(r)
    /\ UNCHANGED actions

Next ==
    \/ sendQuestion \/ handleRegenerate \/ handleNewConversation
    \/ \E k \in Cards : handleConfirm(k) \/ handleCancel(k)
    \/ handleStop \/ closePanel
    \/ \E r \in DOMAIN requests :
           \/ post_chat(r) \/ Refuse(r) \/ FetchFails(r)
           \/ TaskEnds(r) \/ event_generator(r) \/ Breaks(r)
           \/ \E k \in Cards : Propose(r, k)

(* The assistant's turn ends (it has a turn limit and the model's API a     *)
(* timeout), and the generator is scheduled.                                *)
Fairness == \A r \in 1..MaxRequests :
    /\ WF_vars(r \in DOMAIN requests /\ TaskEnds(r))
    /\ WF_vars(r \in DOMAIN requests /\ event_generator(r))
Spec == Init /\ [][Next]_vars /\ Fairness

----------------------------------------------------------------------------
Streaming(r) == \E i \in DOMAIN chat.messages :
    chat.messages[i].id = r /\ chat.messages[i].isStreaming
Live(r) == requests[r].phase \in {"sent", "streaming"} /\ ~requests[r].aborted

(* The input is held back exactly while a message streams, no two requests  *)
(* feed the conversation at once, and the one that does is the one Stop     *)
(* would abort: the late end of an abandoned answer never unlocks the input *)
(* under the next one.                                                      *)
OneStreamAtATime ==
    /\ chat.isStreaming <=> \E r \in DOMAIN requests : Streaming(r)
    /\ \A r \in DOMAIN requests : Live(r) => Streaming(r) /\ chat.abortController = r

(* A request the server took settles its message however its task ends,     *)
(* unless the reader aborts it by closing the panel (the message then       *)
(* streams until Stop is pressed).                                          *)
StreamsSettle == \A r \in 1..MaxRequests :
    (r \in DOMAIN requests /\ Live(r) /\ requests[r].phase = "streaming")
        ~> (~Streaming(r) \/ requests[r].aborted)

(* The release notes: after a confirmed action the card shows "Updated",    *)
(* buttons disabled.                                                        *)
ConfirmedCardShowsUpdated == \A r \in DOMAIN requests :
    requests[r].ended = "finished" /\ requests[r].approved /\ Streaming(r) = FALSE
    /\ (\E i \in DOMAIN chat.messages : chat.messages[i].id = r)
        => chat.cards[requests[r].card] = "confirmed"
=============================================================================
