--------------------------- MODULE OpenTab_proofs ---------------------------
(***************************************************************************)
(* What an open tab promises, for any query, any changes, any number of    *)
(* them and of faults, any cards and any number of requests: a shown query *)
(* at rest misses nothing it should have heard of, and the conversation    *)
(* has one stream at a time.                                               *)
(***************************************************************************)
EXTENDS OpenTab, FiniteSetTheorems, SequenceTheorems, TLAPS

-----------------------------------------------------------------------------
(* The cached queries *)

Types ==
    /\ cache \in [mounted : BOOLEAN, loaded : BOOLEAN, invalid : BOOLEAN,
                  fetch : {"none", "sent", "read"}, shown : SUBSET Why, late : SUBSET Why]
    /\ wire \in [unsaid : Nat, said : Nat]
    /\ own \in [refetching : Nat, other : Nat]
    /\ ~cache.mounted => cache.fetch = "none"

\* Something is on its way that will refetch the query for reason w.
Pending(w) ==
    \/ w = "own" /\ own.refetching > 0
    \/ w = "heard" /\ (wire.unsaid > 0 \/ wire.said > 0)

\* What is shown misses a change only until its refetch or while the query is
\* invalid; an answer on its way misses none whose refetch has begun; and an
\* invalid query on screen is being refetched.
Awaits(w) ==
    /\ w \in cache.shown => Pending(w) \/ cache.invalid \/ ~cache.loaded
    /\ cache.fetch = "read" /\ w \in cache.late => Pending(w)
    /\ cache.invalid /\ cache.mounted => cache.fetch # "none"

Inv == Types /\ \A w \in {"own", "heard"} \ excused : Awaits(w)

-----------------------------------------------------------------------------
(* How many announcements refetch the query is a number *)

\* A route announces a finite set of entities.
LEMMA BroadcastsFinite == \A m : IsFiniteSet(Broadcasts(m))
<1> SUFFICES ASSUME NEW m PROVE IsFiniteSet(Broadcasts(m))
    OBVIOUS
<1>1. \A a : IsFiniteSet({a})
    BY FS_Singleton
<1>2. \A a, b : IsFiniteSet({a} \cup {b})
    BY <1>1, FS_AddElement
<1>3. \A a, b, c : IsFiniteSet(({a} \cup {b}) \cup {c})
    BY <1>2, FS_AddElement
<1>4. \/ Broadcasts(m) = {}
      \/ \E a : Broadcasts(m) = {a}
      \/ \E a, b : Broadcasts(m) = {a} \cup {b}
      \/ \E a, b, c : Broadcasts(m) = ({a} \cup {b}) \cup {c}
    <2> DEFINE two == {"accounts", "transactions"}
               three == {"house", "transactions", "accounts"}
               rows == {"house", "transactions"}
    <2>1. /\ two = {"accounts"} \cup {"transactions"}
          /\ three = ({"house"} \cup {"transactions"}) \cup {"accounts"}
          /\ rows = {"house"} \cup {"transactions"}
        OBVIOUS
    <2>2. Broadcasts(m) \in
              {{}, {"settlements"}, {"transactions"}, {"uploads"}, {"reconciliation"},
               {"category_groups"}, {"house"}, two, three, rows}
        BY DEF Broadcasts
    <2> HIDE DEF two, three, rows
    <2> QED BY <2>1, <2>2, Zenon
<1>5. IsFiniteSet({})
    BY FS_EmptySet
<1>6. CASE \E a : Broadcasts(m) = {a} BY <1>1, <1>6, Zenon
<1>7. CASE \E a, b : Broadcasts(m) = {a} \cup {b} BY <1>2, <1>7, Zenon
<1>8. CASE \E a, b, c : Broadcasts(m) = ({a} \cup {b}) \cup {c}
    <2>1. PICK a, b, c : Broadcasts(m) = ({a} \cup {b}) \cup {c} BY <1>8
    <2>2. IsFiniteSet(({a} \cup {b}) \cup {c}) BY <1>3
    <2> QED BY <2>1, <2>2
<1>9. CASE Broadcasts(m) = {} BY <1>5, <1>9, Zenon
<1> QED BY <1>4, <1>6, <1>7, <1>8, <1>9

\* The assistant announces one entity, or none.
LEMMA ToolBroadcastsFinite == \A m : IsFiniteSet(ToolBroadcasts(m))
<1> SUFFICES ASSUME NEW m PROVE IsFiniteSet(ToolBroadcasts(m))
    OBVIOUS
<1>1. \A a : IsFiniteSet({a})
    BY FS_Singleton
<1>2. IsFiniteSet({})
    BY FS_EmptySet
<1> QED BY <1>1, <1>2 DEF ToolBroadcasts

\* The entities that refetch the query can be counted.
LEMMA AnnouncedNat ==
    ASSUME NEW E, IsFiniteSet(E)
    PROVE  Announced(E) \in Nat
<1>1. {e \in E : Serves(e)} \in SUBSET E
    OBVIOUS
<1>2. IsFiniteSet({e \in E : Serves(e)})
    BY <1>1, FS_Subset
<1> QED BY <1>2, FS_CardinalityType DEF Announced

-----------------------------------------------------------------------------
(* The steps *)

\* A query starts on screen, loading.
LEMMA InvInit == Init => Inv
    BY DEF Init, Inv, Types, Awaits, Why

\* A refetch keeps the cache's types, and a query on screen stays refetched.
LEMMA RestartedTypes ==
    ASSUME Types
    PROVE  /\ Restarted(cache) \in
                 [mounted : BOOLEAN, loaded : BOOLEAN, invalid : BOOLEAN,
                  fetch : {"none", "sent", "read"}, shown : SUBSET Why, late : SUBSET Why]
           /\ Restarted(cache).mounted = cache.mounted
           /\ ~cache.mounted => Restarted(cache).fetch = "none"
    BY DEF Types, Restarted

\* A refetch for reason why leaves no reason waiting that was not, and why
\* itself waits for the answer, unless the first load swallowed it.
LEMMA RestartedAwaits ==
    ASSUME Types, NEW why, NEW w \in {"own", "heard"}, Awaits(w),
           NEW p, p => Pending(w), Pending(w) => p \/ w = why,
           w \notin Swallowed(why)
    PROVE  LET c == Restarted(cache) IN
           /\ w \in c.shown => p \/ c.invalid \/ ~c.loaded
           /\ c.fetch = "read" /\ w \in c.late => p
           /\ c.invalid /\ c.mounted => c.fetch # "none"
<1>1. CASE w = why
    BY <1>1 DEF Types, Awaits, Restarted, Swallowed
<1>2. CASE w # why
    BY <1>2 DEF Types, Awaits, Restarted, Swallowed
<1> QED BY <1>1, <1>2

\* The steps that bring no change and lose none: what the screen does.
LEMMA ScreenStep ==
    ASSUME Inv, UNCHANGED <<wire, own, excused, query>>,
           ServerReads \/ Answer \/ Poll \/ WindowFocus \/ Unmount \/ Mount
    PROVE  Inv'
<1>1. CASE ServerReads BY <1>1 DEF Inv, Types, Awaits, Pending, ServerReads
<1>2. CASE Answer BY <1>2 DEF Inv, Types, Awaits, Pending, Answer
<1>3. CASE Poll BY <1>3 DEF Inv, Types, Awaits, Pending, Poll
<1>4. CASE WindowFocus BY <1>4 DEF Inv, Types, Awaits, Pending, WindowFocus
<1>5. CASE Unmount BY <1>5 DEF Inv, Types, Awaits, Pending, Unmount
<1>6. CASE Mount BY <1>6 DEF Inv, Types, Awaits, Pending, Mount
<1> QED BY <1>1, <1>2, <1>3, <1>4, <1>5, <1>6

\* A change that commits is missed for a reason that is on its way, or for
\* none that this tab could know of.
LEMMA WriteStep ==
    ASSUME Inv, NEW m, NEW E, IsFiniteSet(E), NEW why \in SUBSET Why,
           Write(m, E, why), "heard" \notin why,
           own' \in [refetching : Nat, other : Nat],
           own'.refetching >= own.refetching,
           "own" \in why => own'.refetching > 0
    PROVE  Inv'
<1> DEFINE reason == Reason(Known(E) \cup why)
<1>1. Announced(E) \in Nat
    BY AnnouncedNat
<1>2. /\ wire' \in [unsaid : Nat, said : Nat]
      /\ wire'.unsaid = wire.unsaid + Announced(E) /\ wire'.said = wire.said
    BY <1>1 DEF Inv, Types, Write
<1>3. /\ reason \in SUBSET Why
      /\ "heard" \in reason => Announced(E) > 0
      /\ "own" \in reason => "own" \in why
    BY DEF Reason, Known, Why
<1>4. /\ cache' \in [mounted : BOOLEAN, loaded : BOOLEAN, invalid : BOOLEAN,
                      fetch : {"none", "sent", "read"}, shown : SUBSET Why, late : SUBSET Why]
      /\ cache'.mounted = cache.mounted /\ cache'.loaded = cache.loaded
      /\ cache'.invalid = cache.invalid /\ cache'.fetch = cache.fetch
      /\ cache'.shown \subseteq cache.shown \cup reason
      /\ cache'.fetch = "read" => cache'.late \subseteq cache.late \cup reason
    <2>1. CASE UNCHANGED cache
        BY <2>1 DEF Inv, Types
    <2>2. CASE cache' = [cache EXCEPT !.shown = @ \cup reason,
                             !.late = IF cache.fetch = "read" THEN @ \cup reason ELSE @]
        <3> HIDE DEF reason
        <3> QED BY <1>3, <2>2 DEF Inv, Types
    <2> QED BY <2>1, <2>2 DEF Write, Committed
<1>5. excused' = excused
    BY DEF Write
<1>6. \A w \in {"own", "heard"} :
          /\ Pending(w) => Pending(w)'
          /\ w \in reason => Pending(w)'
    BY <1>1, <1>2, <1>3 DEF Inv, Types, Pending
<1>7. Types'
    BY <1>2, <1>4 DEF Inv, Types
<1> HIDE DEF reason
<1>8. ASSUME NEW w \in {"own", "heard"} \ excused' PROVE Awaits(w)'
    BY <1>4, <1>5, <1>6, <1>8 DEF Inv, Awaits
<1> QED BY <1>7, <1>8 DEF Inv

\* A change of anyone, through the web app, the assistant or the MCP server.
LEMMA ChangeStep ==
    ASSUME Inv, NEW m,
           OwnWrite(m) \/ PartnerWrites(m) \/ AssistantWrites(m) \/ McpWrites(m)
    PROVE  Inv'
<1>1. CASE OwnWrite(m)
    <2> DEFINE why == IF query \in OwnRefetches(m) THEN {"own"} ELSE {}
    <2>1. IsFiniteSet(Broadcasts(m)) BY BroadcastsFinite
    <2>2. /\ why \in SUBSET Why /\ "heard" \notin why /\ Write(m, Broadcasts(m), why)
        BY <1>1 DEF OwnWrite, Why
    <2>3. /\ own' \in [refetching : Nat, other : Nat]
          /\ own'.refetching >= own.refetching
          /\ "own" \in why => own'.refetching > 0
        BY <1>1 DEF OwnWrite, Inv, Types
    <2> HIDE DEF why
    <2> QED BY <2>1, <2>2, <2>3, WriteStep
<1> {} \in SUBSET Why /\ "heard" \notin {} /\ "own" \notin {}
    OBVIOUS
<1>2. CASE PartnerWrites(m)
    <2>1. IsFiniteSet(Broadcasts(m)) BY BroadcastsFinite
    <2>2. Write(m, Broadcasts(m), {}) /\ own' = own BY <1>2 DEF PartnerWrites
    <2>3. own' \in [refetching : Nat, other : Nat] /\ own'.refetching >= own.refetching
        BY <2>2 DEF Inv, Types
    <2> QED BY <2>1, <2>2, <2>3, WriteStep
<1>3. CASE AssistantWrites(m)
    <2>1. IsFiniteSet(ToolBroadcasts(m)) BY ToolBroadcastsFinite
    <2>2. Write(m, ToolBroadcasts(m), {}) /\ own' = own BY <1>3 DEF AssistantWrites
    <2>3. own' \in [refetching : Nat, other : Nat] /\ own'.refetching >= own.refetching
        BY <2>2 DEF Inv, Types
    <2> QED BY <2>1, <2>2, <2>3, WriteStep
<1>4. CASE McpWrites(m)
    <2>1. IsFiniteSet({}) BY FS_EmptySet
    <2>2. Write(m, {}, {"mcp"}) /\ own' = own BY <1>4 DEF McpWrites
    <2>3. own' \in [refetching : Nat, other : Nat] /\ own'.refetching >= own.refetching
        BY <2>2 DEF Inv, Types
    <2>4. {"mcp"} \in SUBSET Why BY DEF Why
    <2> QED BY <2>1, <2>2, <2>3, <2>4, WriteStep
<1> QED BY <1>1, <1>2, <1>3, <1>4

\* The announcements and the stream: an announcement reaches the tab or is
\* excused, and one that is heard restarts the query.
LEMMA StreamStep ==
    ASSUME Inv, broadcast \/ ensureConnection \/ DropStream \/ useRealtimeSync
    PROVE  Inv'
<1>1. CASE broadcast BY <1>1 DEF Inv, Types, Awaits, Pending, broadcast
<1>2. CASE ensureConnection BY <1>2 DEF Inv, Types, Awaits, Pending, ensureConnection
<1>3. CASE DropStream BY <1>3 DEF Inv, Types, Awaits, Pending, DropStream
<1>4. CASE useRealtimeSync
    <2>1. Types'
        BY <1>4, RestartedTypes DEF Inv, Types, useRealtimeSync
    <2>2. ASSUME NEW w \in {"own", "heard"} \ excused' PROVE Awaits(w)'
        <3>1. w \notin Swallowed("heard") /\ Awaits(w)
            BY <1>4, <2>2 DEF Inv, useRealtimeSync
        <3>2. Pending(w)' => Pending(w)
            BY <1>4 DEF Inv, Types, Pending, useRealtimeSync
        <3>3. Pending(w) => Pending(w)' \/ w = "heard"
            BY <1>4 DEF Inv, Types, Pending, useRealtimeSync
        <3> DEFINE p == Pending(w)'
        <3> HIDE DEF p
        <3>4. LET c == Restarted(cache) IN
              /\ w \in c.shown => p \/ c.invalid \/ ~c.loaded
              /\ c.fetch = "read" /\ w \in c.late => p
              /\ c.invalid /\ c.mounted => c.fetch # "none"
            BY <3>1, <3>2, <3>3, RestartedAwaits DEF Inv, p
        <3> QED BY <1>4, <3>4 DEF Awaits, useRealtimeSync, p
    <2> QED BY <2>1, <2>2 DEF Inv
<1> QED BY <1>1, <1>2, <1>3, <1>4

\* The answers to this tab's changes, and requests that fail.
LEMMA AnswerStep ==
    ASSUME Inv, OwnAnswer \/ OtherAnswer \/ OwnAnswerLost \/ FetchFails
    PROVE  Inv'
<1>1. CASE OwnAnswer
    <2>1. Types'
        BY <1>1, RestartedTypes DEF Inv, Types, OwnAnswer
    <2>2. ASSUME NEW w \in {"own", "heard"} \ excused' PROVE Awaits(w)'
        <3>1. w \notin Swallowed("own") /\ Awaits(w)
            BY <1>1, <2>2 DEF Inv, OwnAnswer
        <3>2. Pending(w)' => Pending(w)
            BY <1>1 DEF Inv, Types, Pending, OwnAnswer
        <3>3. Pending(w) => Pending(w)' \/ w = "own"
            BY <1>1 DEF Inv, Types, Pending, OwnAnswer
        <3> DEFINE p == Pending(w)'
        <3> HIDE DEF p
        <3>4. LET c == Restarted(cache) IN
              /\ w \in c.shown => p \/ c.invalid \/ ~c.loaded
              /\ c.fetch = "read" /\ w \in c.late => p
              /\ c.invalid /\ c.mounted => c.fetch # "none"
            BY <3>1, <3>2, <3>3, RestartedAwaits DEF Inv, p
        <3> QED BY <1>1, <3>4 DEF Awaits, OwnAnswer, p
    <2> QED BY <2>1, <2>2 DEF Inv
<1>2. CASE OtherAnswer BY <1>2 DEF Inv, Types, Awaits, Pending, OtherAnswer
<1>3. CASE OwnAnswerLost BY <1>3 DEF Inv, Types, Awaits, Pending, OwnAnswerLost
<1>4. CASE FetchFails BY <1>4 DEF Inv, Types, Awaits, Pending, FetchFails, Why
<1> QED BY <1>1, <1>2, <1>3, <1>4

\* Every step keeps the invariant.
LEMMA InvStep == Inv /\ [Next]_vars => Inv'
<1> SUFFICES ASSUME Inv, [Next]_vars PROVE Inv'
    OBVIOUS
<1>1. CASE UNCHANGED vars
    BY <1>1 DEF vars, Inv, Types, Awaits, Pending
<1>2. ASSUME NEW m \in Writers,
             OwnWrite(m) \/ PartnerWrites(m) \/ AssistantWrites(m) \/ McpWrites(m)
      PROVE  Inv'
    BY <1>2, ChangeStep
<1>3. CASE broadcast \/ ensureConnection \/ DropStream \/ useRealtimeSync
    BY <1>3, StreamStep
<1>4. CASE OwnAnswer \/ OtherAnswer \/ OwnAnswerLost \/ FetchFails
    BY <1>4, AnswerStep
<1>5. CASE ServerReads \/ Answer \/ Poll \/ WindowFocus \/ Unmount \/ Mount
    <2>1. UNCHANGED <<wire, own, excused, query>>
        BY <1>5 DEF ServerReads, Answer, Poll, WindowFocus, Unmount, Mount
    <2> QED BY <1>5, <2>1, ScreenStep
<1> QED BY <1>1, <1>2, <1>3, <1>4, <1>5 DEF Next

-----------------------------------------------------------------------------
(* The conversation *)

\* What a store keeps: a sequence of messages, and what it knows of the stream
\* under way.
Messages == [role : {"user", "assistant"}, id : Nat, isStreaming : BOOLEAN, error : BOOLEAN,
             card : Cards \cup {None}]
Store(c) ==
    /\ {"messages", "isStreaming", "abortController"} \subseteq DOMAIN c
    /\ c.messages \in Seq(Messages)
Silent(c) == \A i \in DOMAIN c.messages : ~c.messages[i].isStreaming
OnlyOf(c, r) == \A i \in DOMAIN c.messages : c.messages[i].isStreaming => c.messages[i].id = r

\* Every message that streams is the controller's, and the flag tells of it.
Tells(c) ==
    /\ c.isStreaming \in BOOLEAN
    /\ OnlyOf(c, c.abortController)
    /\ c.isStreaming <=> ~Silent(c)

\* What the listening card does changes neither messages nor streaming.
LEMMA HeardStore ==
    ASSUME NEW c, Store(c)
    PROVE  /\ Store(C!Heard(c)) /\ C!Heard(c).messages = c.messages
           /\ C!Heard(c).isStreaming = c.isStreaming
           /\ C!Heard(c).abortController = c.abortController
BY DEF Store, C!Heard, C!setConfirmationState

\* Rebuilding a sequence over its domain gives a sequence.
LEMMA SameLength ==
    ASSUME NEW S, NEW s \in Seq(S), NEW u, DOMAIN u = DOMAIN s, u = [i \in DOMAIN s |-> u[i]],
           \A i \in DOMAIN s : u[i] \in S
    PROVE  u \in Seq(S)
<1>1. DOMAIN s = 1..Len(s) /\ Len(s) \in Nat
  BY LenProperties
<1>2. u \in [1..Len(s) -> S]
  BY <1>1
<1>3. [1..Len(s) -> S] \subseteq Seq(S)
  BY <1>1, SeqDef
<1> QED BY <1>2, <1>3

\* Ending a message, well or not, ends the streaming of the store.
LEMMA EndedStore ==
    ASSUME NEW c, Store(c), NEW r, NEW d, d = C!completeMessage(c, r) \/ d = C!setMessageError(c, r)
    PROVE  /\ Store(d) /\ d.isStreaming = FALSE /\ d.abortController = 0
           /\ OnlyOf(c, r) => Silent(d)
<1> DEFINE done(m) == [m EXCEPT !.isStreaming = FALSE]
           erred(m) == [m EXCEPT !.isStreaming = FALSE, !.error = TRUE]
<1>1. \A m \in Messages : /\ done(m) \in Messages /\ ~done(m).isStreaming
                          /\ erred(m) \in Messages /\ ~erred(m).isStreaming
  BY DEF Messages
<1>2. \A i \in DOMAIN c.messages : c.messages[i] \in Messages
  BY ElementOfSeq, LenProperties DEF Store
<1>3. CASE d = C!completeMessage(c, r)
  <2>1. /\ d.messages = [i \in DOMAIN c.messages |->
                            IF c.messages[i].id = r THEN done(c.messages[i]) ELSE c.messages[i]]
        /\ d.isStreaming = FALSE /\ d.abortController = 0 /\ DOMAIN d = DOMAIN c
    BY <1>3 DEF C!completeMessage, C!Settled, C!Updated, Store
  <2> HIDE DEF done, erred
  <2>2. /\ DOMAIN d.messages = DOMAIN c.messages
        /\ d.messages = [i \in DOMAIN c.messages |-> d.messages[i]]
        /\ \A i \in DOMAIN c.messages : d.messages[i] \in Messages
    BY <1>1, <1>2, <2>1
  <2>3. d.messages \in Seq(Messages)
    <3> DEFINE u == d.messages
               s == c.messages
    <3>1. /\ s \in Seq(Messages) /\ DOMAIN u = DOMAIN s /\ u = [i \in DOMAIN s |-> u[i]]
          /\ \A i \in DOMAIN s : u[i] \in Messages
      BY <2>2 DEF Store
    <3> HIDE DEF u, s
    <3>2. u \in Seq(Messages)
      BY <3>1, SameLength
    <3> QED BY <3>2 DEF u
  <2>4. ASSUME NEW i \in DOMAIN c.messages, d.messages[i].isStreaming
        PROVE  c.messages[i].isStreaming /\ c.messages[i].id # r
    BY <1>1, <1>2, <2>1, <2>4, Zenon
  <2>5. Store(d)
    BY <2>1, <2>3 DEF Store
  <2> QED BY <2>1, <2>2, <2>4, <2>5 DEF OnlyOf, Silent
<1>4. CASE d = C!setMessageError(c, r)
  <2>1. /\ d.messages = [i \in DOMAIN c.messages |->
                            IF c.messages[i].id = r THEN erred(c.messages[i]) ELSE c.messages[i]]
        /\ d.isStreaming = FALSE /\ d.abortController = 0 /\ DOMAIN d = DOMAIN c
    BY <1>4 DEF C!setMessageError, C!Settled, C!Updated, Store
  <2> HIDE DEF done, erred
  <2>2. /\ DOMAIN d.messages = DOMAIN c.messages
        /\ d.messages = [i \in DOMAIN c.messages |-> d.messages[i]]
        /\ \A i \in DOMAIN c.messages : d.messages[i] \in Messages
    BY <1>1, <1>2, <2>1
  <2>3. d.messages \in Seq(Messages)
    <3> DEFINE u == d.messages
               s == c.messages
    <3>1. /\ s \in Seq(Messages) /\ DOMAIN u = DOMAIN s /\ u = [i \in DOMAIN s |-> u[i]]
          /\ \A i \in DOMAIN s : u[i] \in Messages
      BY <2>2 DEF Store
    <3> HIDE DEF u, s
    <3>2. u \in Seq(Messages)
      BY <3>1, SameLength
    <3> QED BY <3>2 DEF u
  <2>4. ASSUME NEW i \in DOMAIN c.messages, d.messages[i].isStreaming
        PROVE  c.messages[i].isStreaming /\ c.messages[i].id # r
    BY <1>1, <1>2, <2>1, <2>4, Zenon
  <2>5. Store(d)
    BY <2>1, <2>3 DEF Store
  <2> QED BY <2>1, <2>2, <2>4, <2>5 DEF OnlyOf, Silent
<1> QED BY <1>3, <1>4

\* What is asked of the server.
Requests == [phase : {"sent", "streaming", "over", "lost"}, aborted : BOOLEAN,
             task : {"none", "running", "finished", "raised", "cancelled"},
             card : Cards \cup {None}, approved : BOOLEAN,
             ended : {"no", "refused", "finished", "raised", "cancelled", "broken"}]

ChatInv ==
    /\ Store(chat) /\ Tells(chat)
    /\ requests \in Seq(Requests)
    /\ chat.abortController \in 0..Len(requests)
    /\ chat.isStreaming => chat.abortController # 0
    /\ \A r \in DOMAIN requests : C!Live(r) => C!Streaming(r)

\* The conversation starts empty and silent.
LEMMA ChatInit == C!Init => ChatInv
<1> SUFFICES ASSUME C!Init PROVE ChatInv
  OBVIOUS
<1>1. /\ chat.messages = <<>> /\ chat.isStreaming = FALSE /\ chat.abortController = 0
      /\ {"messages", "isStreaming", "abortController"} \subseteq DOMAIN chat /\ requests = <<>>
  BY DEF C!Init
<1>2. <<>> \in Seq(Messages) /\ <<>> \in Seq(Requests) /\ DOMAIN <<>> = {} /\ Len(<<>>) = 0
  OBVIOUS
<1>3. Store(chat) /\ Silent(chat)
  BY <1>1, <1>2 DEF Store, Silent
<1>4. Tells(chat)
  BY <1>1, <1>3 DEF Tells, OnlyOf, Silent
<1>5. DOMAIN requests = {} /\ Len(requests) = 0
  BY <1>1, <1>2
<1> QED BY <1>1, <1>2, <1>3, <1>4, <1>5 DEF ChatInv

\* The invariant leaves one live request at most, the one that streams.
LEMMA QuietMeansOne ==
    ASSUME ChatInv
    PROVE  C!OneStreamAtATime
<1>1. DOMAIN requests = 1..Len(requests) /\ Len(requests) \in Nat
  BY LenProperties DEF ChatInv
<1>2. ASSUME NEW r \in DOMAIN requests, C!Streaming(r)
      PROVE  chat.abortController = r /\ chat.isStreaming
  BY <1>2 DEF ChatInv, Tells, OnlyOf, Silent, C!Streaming
<1>3. ASSUME chat.isStreaming PROVE \E r \in DOMAIN requests : C!Streaming(r)
  <2>1. PICK i \in DOMAIN chat.messages : chat.messages[i].isStreaming
    BY <1>3 DEF ChatInv, Tells, OnlyOf, Silent
  <2>2. C!Streaming(chat.abortController)
    BY <2>1 DEF ChatInv, Tells, OnlyOf, C!Streaming
  <2>3. chat.abortController \in DOMAIN requests
    BY <1>1, <1>3 DEF ChatInv
  <2> QED BY <2>2, <2>3
<1> QED BY <1>2, <1>3 DEF ChatInv, C!OneStreamAtATime

\* A store left silent, with no request live, keeps the invariant.
LEMMA SilentAgain ==
    ASSUME ChatInv, NEW c, Store(c), Silent(c), c.isStreaming = FALSE,
           c.abortController \in 0..Len(requests), chat' = C!Heard(c),
           requests' \in Seq(Requests), Len(requests') = Len(requests),
           \A r \in DOMAIN requests : ~C!Live(r)'
    PROVE  ChatInv'
<1>1. Store(chat') /\ Silent(chat') /\ chat'.isStreaming = FALSE
      /\ chat'.abortController = c.abortController
  BY HeardStore DEF Silent
<1>2. DOMAIN requests' = DOMAIN requests
  BY LenProperties DEF ChatInv
<1> QED BY <1>1, <1>2 DEF ChatInv, Tells, OnlyOf, Silent

\* A conversation that streams nothing has no request alive.
LEMMA QuietAllSettled ==
    ASSUME ChatInv, ~chat.isStreaming
    PROVE  Silent(chat) /\ \A r \in DOMAIN requests : ~C!Live(r)
BY DEF ChatInv, Tells, OnlyOf, Silent, C!Streaming

\* A stream is started only over a silent store.
LEMMA StartStep ==
    ASSUME ChatInv, ~chat.isStreaming, NEW c, Store(c), Silent(c),
           NEW card \in Cards \cup {None}, NEW approved \in BOOLEAN,
           C!startStream(c, card, approved)
    PROVE  ChatInv'
<1> DEFINE r == Len(requests) + 1
           n == Len(c.messages) + 1
<1>1. /\ requests' = Append(requests, [phase |-> "sent", aborted |-> FALSE, task |-> "none",
                         card |-> card, approved |-> approved, ended |-> "no"])
      /\ chat'.messages = Append(c.messages, C!Message(r))
      /\ chat'.isStreaming = TRUE /\ chat'.abortController = r /\ DOMAIN chat' = DOMAIN c
  BY DEF C!startStream, C!startAssistantMessage, Store
<1>2. /\ requests' \in Seq(Requests) /\ Len(requests') = r /\ r \in Nat \ {0}
      /\ DOMAIN requests = 1..Len(requests) /\ DOMAIN requests' = 1..r
      /\ \A i \in DOMAIN requests : requests'[i] = requests[i]
  <2>1. [phase |-> "sent", aborted |-> FALSE, task |-> "none",
         card |-> card, approved |-> approved, ended |-> "no"] \in Requests
    BY DEF Requests
  <2> QED BY <1>1, <2>1, AppendProperties, LenProperties DEF ChatInv
<1>3. C!Message(r) \in Messages /\ C!Message(r).id = r /\ C!Message(r).isStreaming
  BY <1>2 DEF C!Message, Messages
<1>4. /\ chat'.messages \in Seq(Messages) /\ DOMAIN chat'.messages = 1..n
      /\ DOMAIN c.messages = 1..Len(c.messages) /\ n \in Nat \ {0}
      /\ \A i \in DOMAIN c.messages : chat'.messages[i] = c.messages[i]
      /\ chat'.messages[n] = C!Message(r)
  <2>1. c.messages \in Seq(Messages)
    BY DEF Store
  <2> QED BY <1>1, <1>3, <2>1, AppendProperties, LenProperties
<1>5. \A i \in DOMAIN chat'.messages : chat'.messages[i].isStreaming <=> i = n
  BY <1>3, <1>4 DEF Silent
<1>6. Store(chat')
  BY <1>1, <1>4 DEF Store
<1>7. Tells(chat')
  <2>1. \A i \in DOMAIN chat'.messages :
            chat'.messages[i].isStreaming => chat'.messages[i].id = chat'.abortController
    BY <1>1, <1>3, <1>4, <1>5
  <2>2. n \in DOMAIN chat'.messages /\ chat'.messages[n].isStreaming
    BY <1>3, <1>4
  <2> HIDE DEF n, r
  <2> QED BY <1>1, <2>1, <2>2 DEF Tells, OnlyOf, Silent
<1>8. ASSUME NEW q \in DOMAIN requests', C!Live(q)' PROVE C!Streaming(q)'
  <2>1. ~(q \in DOMAIN requests)
    BY <1>2, <1>8, QuietAllSettled DEF C!Live
  <2>2. q = r
    BY <1>2, <2>1
  <2> QED BY <1>3, <1>4, <1>5, <2>2 DEF C!Streaming
<1> QED BY <1>1, <1>2, <1>6, <1>7, <1>8 DEF ChatInv

\* A start in which the listening card throws leaves the store silent.
LEMMA ThrowStep ==
    ASSUME ChatInv, ~chat.isStreaming, NEW c, Store(c), Silent(c), c.isStreaming = FALSE,
           c.abortController = chat.abortController, C!Stuck(c)
    PROVE  ChatInv'
<1>1. chat' = C!Heard(c) /\ requests' = requests
  BY DEF C!Stuck
<1>2. \A r \in DOMAIN requests : ~C!Live(r)'
  BY <1>1, QuietAllSettled DEF C!Live
<1> QED BY <1>1, <1>2, SilentAgain DEF ChatInv

\* A button that asks the assistant something.
LEMMA AskStep ==
    ASSUME ChatInv, C!sendQuestion \/ C!handleRegenerate \/
                    \E k \in Cards : C!handleConfirm(k) \/ C!handleCancel(k)
    PROVE  ChatInv'
<1> DEFINE Quiet(c) == Store(c) /\ Silent(c) /\ c.isStreaming = FALSE
                       /\ c.abortController = chat.abortController
<1> HIDE DEF Quiet
<1>0. ~chat.isStreaming /\ chat.isStreaming = FALSE /\ Store(chat) /\ Silent(chat)
  <2>1. ~chat.isStreaming /\ chat.isStreaming \in BOOLEAN
    BY DEF ChatInv, Tells, OnlyOf, C!sendQuestion, C!handleRegenerate, C!handleConfirm, C!handleCancel
  <2> QED BY <2>1, QuietAllSettled DEF ChatInv
<1>1. ASSUME NEW c, Quiet(c), NEW card \in Cards \cup {None}, NEW approved \in BOOLEAN,
             C!Stuck(c) \/ C!startStream(c, card, approved)
      PROVE  ChatInv'
  BY <1>0, <1>1, ThrowStep, StartStep DEF Quiet
<1>2. Quiet(C!addUserMessage(chat))
  <2>1. C!Question \in Messages /\ ~C!Question.isStreaming
    BY DEF C!Question, Messages
  <2> DEFINE s == chat.messages
             t == Append(s, C!Question)
  <2>2. s \in Seq(Messages)
    BY <1>0 DEF Store
  <2>3. t \in Seq(Messages) /\ \A i \in DOMAIN t : ~t[i].isStreaming
    <3>1. \A i \in DOMAIN s : ~s[i].isStreaming
      BY <1>0 DEF Silent
    <3> HIDE DEF s
    <3>2. /\ t \in Seq(Messages) /\ DOMAIN t = 1..(Len(s) + 1) /\ Len(s) \in Nat
          /\ DOMAIN s = 1..Len(s)
          /\ \A i \in DOMAIN s : t[i] = s[i] /\ t[Len(s) + 1] = C!Question
      BY <2>1, <2>2, AppendProperties, LenProperties
    <3>3. t[Len(s) + 1] = C!Question
      BY <2>1, <2>2, AppendProperties
    <3> QED BY <2>1, <3>1, <3>2, <3>3
  <2>4. /\ C!addUserMessage(chat).messages = t
        /\ DOMAIN C!addUserMessage(chat) = DOMAIN chat
        /\ C!addUserMessage(chat).isStreaming = chat.isStreaming
        /\ C!addUserMessage(chat).abortController = chat.abortController
    BY <1>0 DEF C!addUserMessage, Store
  <2> HIDE DEF s, t
  <2> QED BY <1>0, <2>3, <2>4 DEF Quiet, Store, Silent
<1>3. ASSUME chat.messages # <<>> PROVE Quiet(C!removeLastAssistantMessage(chat))
  <2> DEFINE s == chat.messages
             d == C!removeLastAssistantMessage(chat)
  <2>1. s \in Seq(Messages) /\ s # <<>>
    BY <1>0, <1>3 DEF Store
  <2> DEFINE front == SubSeq(s, 1, Len(s) - 1)
  <2>2. /\ front \in Seq(Messages) /\ DOMAIN front \subseteq DOMAIN s
        /\ \A i \in DOMAIN front : front[i] = s[i]
    <3> HIDE DEF s
    <3>1. Len(s) \in Nat /\ DOMAIN s = 1..Len(s) /\ Len(s) > 0
      BY <2>1, LenProperties, EmptySeq
    <3>2. \A i \in 1..(Len(s) - 1) : s[i] \in Messages
      BY <2>1, <3>1, ElementOfSeq
    <3>3. /\ front \in Seq(Messages) /\ Len(front) = Len(s) - 1
          /\ \A i \in 1..(Len(s) - 1) : front[i] = s[i]
      BY <3>1, <3>2, SubSeqProperties
    <3> QED BY <3>1, <3>3, LenProperties
  <2>3. /\ d.messages \in {s, front} /\ DOMAIN d = DOMAIN chat
        /\ d.isStreaming = chat.isStreaming /\ d.abortController = chat.abortController
    BY <1>0 DEF C!removeLastAssistantMessage, C!Front, Store
  <2>4. d.messages \in Seq(Messages) /\ \A i \in DOMAIN d.messages : ~d.messages[i].isStreaming
    <3>1. \A i \in DOMAIN s : ~s[i].isStreaming
      BY <1>0 DEF Silent
    <3> HIDE DEF s, d, front
    <3> QED BY <2>1, <2>2, <2>3, <3>1
  <2> HIDE DEF d
  <2>5. Quiet(d)
    BY <1>0, <2>3, <2>4 DEF Quiet, Store, Silent
  <2> QED BY <2>5 DEF d
<1>4. ASSUME NEW k, NEW state PROVE Quiet(C!setConfirmationState(chat, k, state))
  <2> DEFINE d == C!setConfirmationState(chat, k, state)
  <2>1. d.messages = chat.messages /\ DOMAIN d = DOMAIN chat
        /\ d.isStreaming = chat.isStreaming /\ d.abortController = chat.abortController
    BY <1>0 DEF C!setConfirmationState, Store
  <2> HIDE DEF d
  <2>2. Quiet(d)
    BY <1>0, <2>1 DEF Quiet, Store, Silent
  <2> QED BY <2>2 DEF d
<1>5. CASE C!sendQuestion
  BY <1>1, <1>2, <1>5 DEF C!sendQuestion
<1>6. CASE C!handleRegenerate
  BY <1>1, <1>3, <1>6 DEF C!handleRegenerate
<1>7. CASE \E k \in Cards : C!handleConfirm(k) \/ C!handleCancel(k)
  BY <1>1, <1>4, <1>7 DEF C!handleConfirm, C!handleCancel
<1> QED BY <1>5, <1>6, <1>7

\* Aborting a request sets its flag and touches no other.
LEMMA AbortedRequests ==
    ASSUME ChatInv, NEW q
    PROVE  /\ C!Aborted(q) \in Seq(Requests) /\ Len(C!Aborted(q)) = Len(requests)
           /\ DOMAIN C!Aborted(q) = DOMAIN requests
           /\ \A i \in DOMAIN requests :
                  /\ C!Aborted(q)[i].phase = requests[i].phase
                  /\ C!Aborted(q)[i].aborted <=> i = q \/ requests[i].aborted
<1> DEFINE u == C!Aborted(q)
<1>1. requests \in Seq(Requests) /\ \A i \in DOMAIN requests : requests[i] \in Requests
  BY ElementOfSeq, LenProperties DEF ChatInv
<1>2. /\ DOMAIN u = DOMAIN requests /\ u = [i \in DOMAIN requests |-> u[i]]
      /\ \A i \in DOMAIN requests : u[i] = IF i = q THEN [requests[i] EXCEPT !.aborted = TRUE]
                                           ELSE requests[i]
  BY DEF C!Aborted
<1> HIDE DEF u
<1>3. \A i \in DOMAIN requests : u[i] \in Requests /\ u[i].phase = requests[i].phase
                                 /\ (u[i].aborted <=> i = q \/ requests[i].aborted)
  <2> TAKE i \in DOMAIN requests
  <2> DEFINE m == requests[i]
  <2>1. m \in Requests /\ u[i] = IF i = q THEN [m EXCEPT !.aborted = TRUE] ELSE m
    BY <1>1, <1>2
  <2> HIDE DEF m
  <2> QED BY <2>1 DEF Requests, m
<1>4. u \in Seq(Requests)
  BY <1>1, <1>2, <1>3, SameLength
<1>5. Len(u) = Len(requests)
  BY <1>1, <1>2, <1>4, LenProperties
<1> QED BY <1>2, <1>3, <1>4, <1>5 DEF u

\* What an answer sets of its request leaves the others as they are.
LEMMA MovedRequests ==
    ASSUME ChatInv, NEW r \in DOMAIN requests, NEW fields, C!Move(r, fields),
           DOMAIN fields \subseteq {"phase", "task", "ended"},
           "phase" \in DOMAIN fields => fields.phase \in {"streaming", "over", "lost"},
           "task" \in DOMAIN fields => fields.task \in {"running", "finished", "raised", "cancelled"},
           "ended" \in DOMAIN fields =>
               fields.ended \in {"refused", "finished", "raised", "cancelled", "broken"}
    PROVE  /\ requests' \in Seq(Requests) /\ Len(requests') = Len(requests)
           /\ DOMAIN requests' = DOMAIN requests
           /\ \A i \in DOMAIN requests : i # r => requests'[i] = requests[i]
           /\ requests'[r].aborted = requests[r].aborted
           /\ requests'[r].phase = IF "phase" \in DOMAIN fields THEN fields.phase
                                   ELSE requests[r].phase
<1>1. requests \in Seq(Requests) /\ \A i \in DOMAIN requests : requests[i] \in Requests
  BY ElementOfSeq, LenProperties DEF ChatInv
<1>2. /\ DOMAIN requests' = DOMAIN requests /\ requests' = [i \in DOMAIN requests |-> requests'[i]]
      /\ \A i \in DOMAIN requests : i # r => requests'[i] = requests[i]
      /\ requests'[r] = [f \in DOMAIN requests[r] |->
                            IF f \in DOMAIN fields THEN fields[f] ELSE requests[r][f]]
  BY <1>1 DEF C!Move
<1>3. /\ requests'[r] \in Requests /\ requests'[r].aborted = requests[r].aborted
      /\ requests'[r].phase = IF "phase" \in DOMAIN fields THEN fields.phase
                              ELSE requests[r].phase
  <2> DEFINE q == requests[r]
             p == requests'[r]
  <2>1. q \in Requests /\ p = [f \in DOMAIN q |-> IF f \in DOMAIN fields THEN fields[f] ELSE q[f]]
    BY <1>1, <1>2
  <2> HIDE DEF q, p
  <2>2. p = [phase |-> p.phase, aborted |-> p.aborted, task |-> p.task, card |-> p.card,
             approved |-> p.approved, ended |-> p.ended]
    BY <2>1 DEF Requests
  <2>3. /\ p.aborted = q.aborted /\ p.card = q.card /\ p.approved = q.approved
        /\ p.phase = IF "phase" \in DOMAIN fields THEN fields.phase ELSE q.phase
        /\ p.task = IF "task" \in DOMAIN fields THEN fields.task ELSE q.task
        /\ p.ended = IF "ended" \in DOMAIN fields THEN fields.ended ELSE q.ended
    BY <2>1 DEF Requests
  <2>4. p \in Requests
    BY <2>1, <2>2, <2>3 DEF Requests
  <2> QED BY <2>3, <2>4 DEF q, p
<1>4. \A i \in DOMAIN requests : requests'[i] \in Requests
  BY <1>1, <1>2, <1>3
<1> DEFINE u == requests'
<1>5. DOMAIN u = DOMAIN requests /\ u = [i \in DOMAIN requests |-> u[i]]
      /\ \A i \in DOMAIN requests : u[i] \in Requests
  BY <1>2, <1>4
<1> HIDE DEF u
<1>6. u \in Seq(Requests) /\ Len(u) = Len(requests)
  <2>1. u \in Seq(Requests)
    BY <1>1, <1>5, SameLength
  <2> QED BY <1>1, <1>5, <2>1, LenProperties
<1> QED BY <1>2, <1>3, <1>6 DEF u

\* The only request alive is the controller's.
LEMMA OnlyOneLive ==
    ASSUME ChatInv, NEW r \in DOMAIN requests, C!Live(r)
    PROVE  r = chat.abortController
BY DEF ChatInv, Tells, OnlyOf, C!Streaming

\* Stop, and New conversation.
LEMMA StopStep ==
    ASSUME ChatInv, C!handleNewConversation \/ C!handleStop
    PROVE  ChatInv'
<1>1. requests' = C!Aborted(chat.abortController)
  BY DEF C!handleNewConversation, C!handleStop
<1>2. requests' \in Seq(Requests) /\ Len(requests') = Len(requests)
  BY <1>1, AbortedRequests
<1>3. ASSUME NEW q \in DOMAIN requests PROVE ~C!Live(q)'
  <2>1. /\ requests'[q].phase = requests[q].phase
        /\ requests'[q].aborted <=> q = chat.abortController \/ requests[q].aborted
    BY <1>1, AbortedRequests
  <2>2. C!Live(q) => q = chat.abortController
    BY OnlyOneLive
  <2> QED BY <2>1, <2>2 DEF C!Live
<1>4. CASE C!handleNewConversation
  <2>1. chat' = C!clearMessages(chat)
    BY <1>4 DEF C!handleNewConversation
  <2>2. /\ chat'.messages = <<>> /\ chat'.isStreaming = FALSE /\ chat'.abortController = 0
        /\ {"messages", "isStreaming", "abortController"} \subseteq DOMAIN chat'
    BY <2>1 DEF C!clearMessages, C!Settled, ChatInv, Store
  <2>3. <<>> \in Seq(Messages) /\ DOMAIN <<>> = {}
    OBVIOUS
  <2>4. Store(chat') /\ Silent(chat')
    BY <2>2, <2>3 DEF Store, Silent
  <2>5. Tells(chat')
    BY <2>2, <2>4 DEF Tells, OnlyOf, Silent
  <2>6. DOMAIN requests' = DOMAIN requests /\ Len(requests) \in Nat
    BY <1>2, LenProperties DEF ChatInv
  <2> QED BY <1>2, <1>3, <2>2, <2>4, <2>5, <2>6 DEF ChatInv
<1>5. CASE C!handleStop
  <2> DEFINE c == C!stopStreaming(chat)
             s == chat.messages
             u == c.messages
             ended(m) == [m EXCEPT !.isStreaming = FALSE]
  <2>1. s \in Seq(Messages) /\ \A i \in DOMAIN s : s[i] \in Messages
    BY ElementOfSeq, LenProperties DEF ChatInv, Store
  <2>2. /\ u = [i \in DOMAIN s |-> ended(s[i])]
        /\ c.isStreaming = FALSE /\ c.abortController = 0 /\ DOMAIN c = DOMAIN chat
    BY DEF C!stopStreaming, C!Settled, ChatInv, Store
  <2>3. \A m \in Messages : ended(m) \in Messages /\ ~ended(m).isStreaming
    BY DEF Messages
  <2> HIDE DEF s, u, ended
  <2>4. u \in Seq(Messages) /\ \A i \in DOMAIN u : ~u[i].isStreaming
    <3>1. DOMAIN u = DOMAIN s /\ u = [i \in DOMAIN s |-> u[i]] /\ \A i \in DOMAIN s : u[i] \in Messages
      BY <2>1, <2>2, <2>3
    <3>2. u \in Seq(Messages)
      BY <2>1, <3>1, SameLength
    <3> QED BY <2>1, <2>2, <2>3, <3>2
  <2>5. Store(c) /\ Silent(c) /\ c.isStreaming = FALSE /\ c.abortController \in 0..Len(requests)
    <3>1. Len(requests) \in Nat
      BY LenProperties DEF ChatInv
    <3>2. {"messages", "isStreaming", "abortController"} \subseteq DOMAIN c
      BY <2>2 DEF ChatInv, Store
    <3> HIDE DEF c
    <3> QED BY <2>2, <2>4, <3>1, <3>2 DEF Store, Silent, u
  <2>6. chat' = C!Heard(c)
    BY <1>5 DEF C!handleStop
  <2> HIDE DEF c
  <2> QED BY <1>2, <1>3, <2>5, <2>6, SilentAgain
<1> QED BY <1>4, <1>5

\* Closing the panel.
LEMMA CloseStep ==
    ASSUME ChatInv, C!closePanel
    PROVE  ChatInv'
<1>1. requests' = C!Aborted(chat.abortController) /\ chat' = chat
  BY DEF C!closePanel
<1>2. /\ requests' \in Seq(Requests) /\ Len(requests') = Len(requests)
      /\ DOMAIN requests' = DOMAIN requests
  BY <1>1, AbortedRequests
<1>3. ASSUME NEW q \in DOMAIN requests PROVE ~C!Live(q)'
  <2>1. /\ requests'[q].phase = requests[q].phase
        /\ requests'[q].aborted <=> q = chat.abortController \/ requests[q].aborted
    BY <1>1, AbortedRequests
  <2>2. C!Live(q) => q = chat.abortController
    BY OnlyOneLive
  <2> QED BY <2>1, <2>2 DEF C!Live
<1> QED BY <1>1, <1>2, <1>3 DEF ChatInv

\* An answer that does not end the stream leaves the conversation alone.
LEMMA GoesOn ==
    ASSUME ChatInv, NEW r \in DOMAIN requests, NEW fields, C!Move(r, fields), UNCHANGED chat,
           DOMAIN fields \subseteq {"phase", "task", "ended"},
           "phase" \in DOMAIN fields => fields.phase \in {"streaming", "over", "lost"},
           "task" \in DOMAIN fields => fields.task \in {"running", "finished", "raised", "cancelled"},
           "ended" \in DOMAIN fields =>
               fields.ended \in {"refused", "finished", "raised", "cancelled", "broken"},
           C!Live(r)' => C!Live(r)
    PROVE  ChatInv'
<1>1. /\ requests' \in Seq(Requests) /\ Len(requests') = Len(requests)
      /\ DOMAIN requests' = DOMAIN requests
      /\ \A i \in DOMAIN requests : i # r => requests'[i] = requests[i]
  BY MovedRequests
<1>2. \A q \in DOMAIN requests : C!Live(q)' => C!Live(q)
  BY <1>1 DEF C!Live
<1>3. \A q \in DOMAIN requests : C!Streaming(q) => C!Streaming(q)'
  BY DEF C!Streaming
<1> QED BY <1>1, <1>2, <1>3 DEF ChatInv

\* Settling the controller's message leaves none that streams.
Over(d) == Store(d) /\ Silent(d) /\ d.isStreaming = FALSE /\ d.abortController = 0
\* Once the streaming message is settled the store is over.
LEMMA SettledSilent ==
    ASSUME ChatInv, NEW c, Store(c), c.messages = chat.messages \/ Silent(c),
           NEW d, NEW r, r = chat.abortController,
           d = C!completeMessage(c, r) \/ d = C!setMessageError(c, r)
    PROVE  Over(d)
<1>1. OnlyOf(c, r)
  BY DEF ChatInv, Tells, OnlyOf, Silent
<1> QED BY <1>1, EndedStore DEF Over

\* The end of an abandoned request is not heard; the end of the live one
\* settles its message, and the input with it.
LEMMA EndsStep ==
    ASSUME ChatInv, NEW r \in DOMAIN requests, NEW fields, C!Move(r, fields),
           requests[r].phase \in {"sent", "streaming"},
           {"phase", "ended"} \subseteq DOMAIN fields, DOMAIN fields \subseteq {"phase", "task", "ended"},
           fields.phase = "over",
           "task" \in DOMAIN fields => fields.task \in {"running", "finished", "raised", "cancelled"},
           fields.ended \in {"refused", "finished", "raised", "cancelled", "broken"},
           C!onError(r) \/ C!onDone(r)
    PROVE  ChatInv'
<1>1. /\ requests' \in Seq(Requests) /\ Len(requests') = Len(requests)
      /\ DOMAIN requests' = DOMAIN requests
      /\ \A i \in DOMAIN requests : i # r => requests'[i] = requests[i]
      /\ requests'[r].phase = "over"
  BY MovedRequests
<1>2. ~C!Live(r)' /\ \A q \in DOMAIN requests : C!Live(q)' => C!Live(q)
  BY <1>1 DEF C!Live
<1>3. CASE requests[r].aborted
  <2>1. chat' = chat
    BY <1>3 DEF C!onError, C!onDone
  <2>2. \A q \in DOMAIN requests : C!Streaming(q) => C!Streaming(q)'
    BY <2>1 DEF C!Streaming
  <2> QED BY <1>1, <1>2, <2>1, <2>2 DEF ChatInv
<1>4. CASE ~requests[r].aborted
  <2>1. r = chat.abortController
    BY <1>4, OnlyOneLive DEF C!Live
  <2>2. \A q \in DOMAIN requests : ~C!Live(q)'
    BY <1>2, <2>1, OnlyOneLive
  <2>3. Len(requests) \in Nat
    BY LenProperties DEF ChatInv
  <2>4. ASSUME NEW c, Store(c), c.messages = chat.messages \/ Silent(c),
               NEW d, d = C!completeMessage(c, r) \/ d = C!setMessageError(c, r)
        PROVE  Over(d)
    BY <2>1, <2>4, SettledSilent
  <2>5. ASSUME NEW d, Over(d), chat' = C!Heard(d) PROVE ChatInv'
    <3>1. Store(d) /\ Silent(d) /\ d.isStreaming = FALSE /\ d.abortController \in 0..Len(requests)
      BY <2>3, <2>5 DEF Over
    <3> QED BY <1>1, <2>2, <2>5, <3>1, SilentAgain, Zenon
  <2>6. Store(chat)
    BY DEF ChatInv
  <2>7. CASE C!onError(r)
    <3> DEFINE d == C!setMessageError(chat, r)
    <3>1. Over(d)
      BY <2>4, <2>6
    <3>2. chat' = C!Heard(d)
      BY <1>4, <2>7 DEF C!onError
    <3> HIDE DEF d
    <3> QED BY <2>5, <3>1, <3>2
  <2>8. CASE C!onDone(r)
    <3> DEFINE c == C!completeMessage(chat, r)
               h == C!Heard(c)
               d == C!setMessageError(h, r)
    <3>1. Over(c)
      BY <2>4, <2>6
    <3>2. \/ chat' = C!Heard(d)
          \/ ~C!Throws(c) /\ chat' = c
      BY <1>4, <2>8 DEF C!onDone
    <3>3. ~C!Throws(c) => C!Heard(c) = c
      BY DEF C!Heard
    <3>4. Store(h) /\ Silent(h)
      <4> HIDE DEF c
      <4> QED BY <3>1, HeardStore DEF Over, Silent
    <3>5. Over(d)
      <4> HIDE DEF h
      <4> QED BY <2>4, <3>4
    <3> HIDE DEF c, d, h
    <3> QED BY <2>5, <3>1, <3>2, <3>3, <3>5
  <2> QED BY <2>7, <2>8
<1> QED BY <1>3, <1>4

\* A change is proposed in the message that streams.
LEMMA ProposeStep ==
    ASSUME ChatInv, NEW r \in DOMAIN requests, NEW k \in Cards, C!Propose(r, k)
    PROVE  ChatInv'
<1> DEFINE s == chat.messages
           u == chat'.messages
           carded(m) == [m EXCEPT !.card = k]
<1>1. s \in Seq(Messages) /\ \A i \in DOMAIN s : s[i] \in Messages
  BY ElementOfSeq, LenProperties DEF ChatInv, Store
<1>2. /\ u = [i \in DOMAIN s |-> IF s[i].id = r THEN carded(s[i]) ELSE s[i]]
      /\ chat'.isStreaming = chat.isStreaming /\ chat'.abortController = chat.abortController
      /\ DOMAIN chat' = DOMAIN chat /\ requests' = requests
  BY DEF C!Propose, C!setToolResult, C!Updated, ChatInv, Store
<1>3. \A m \in Messages : /\ carded(m) \in Messages /\ carded(m).isStreaming = m.isStreaming
                          /\ carded(m).id = m.id
  BY DEF Messages
<1> HIDE DEF carded, s, u
<1>4. /\ DOMAIN u = DOMAIN s /\ u \in Seq(Messages)
      /\ \A i \in DOMAIN s : u[i].isStreaming = s[i].isStreaming /\ u[i].id = s[i].id
  <2>1. DOMAIN u = DOMAIN s /\ u = [i \in DOMAIN s |-> u[i]] /\ \A i \in DOMAIN s : u[i] \in Messages
    BY <1>1, <1>2, <1>3
  <2>2. u \in Seq(Messages)
    BY <1>1, <2>1, SameLength
  <2> QED BY <1>1, <1>2, <1>3, <2>2
<1>5. Store(chat')
  BY <1>2, <1>4 DEF ChatInv, Store, u
<1>6. Silent(chat') <=> Silent(chat)
  BY <1>4 DEF Silent, u, s
<1>7. Tells(chat')
  BY <1>2, <1>4, <1>6 DEF ChatInv, Tells, OnlyOf, u, s
<1>8. \A q \in DOMAIN requests : C!Streaming(q) => C!Streaming(q)'
  BY <1>4 DEF C!Streaming, u, s
<1>9. \A q \in DOMAIN requests : C!Live(q)' => C!Live(q)
  BY <1>2 DEF C!Live
<1> QED BY <1>2, <1>5, <1>7, <1>8, <1>9 DEF ChatInv

\* The server's answers, the connection and its ends.
LEMMA AnswersStep ==
    ASSUME ChatInv, NEW r \in DOMAIN requests,
           \/ C!post_chat(r) \/ C!Refuse(r) \/ C!FetchFails(r)
           \/ C!TaskEnds(r) \/ C!event_generator(r) \/ C!Breaks(r)
    PROVE  ChatInv'
<1>1. CASE C!post_chat(r)
  <2> DEFINE f == [phase |-> "streaming", task |-> "running"]
  <2>1. C!Move(r, f) /\ UNCHANGED chat /\ requests[r].phase = "sent"
    BY <1>1 DEF C!post_chat
  <2>2. C!Live(r)' => C!Live(r)
    BY <2>1, MovedRequests DEF C!Live
  <2> QED BY <2>1, <2>2, GoesOn
<1>2. CASE C!FetchFails(r)
  <2> DEFINE f == [phase |-> "lost"]
  <2>1. C!Move(r, f) /\ UNCHANGED chat /\ requests[r].phase = "sent"
    BY <1>2 DEF C!FetchFails
  <2>2. C!Live(r)' => C!Live(r)
    BY <2>1, MovedRequests DEF C!Live
  <2> QED BY <2>1, <2>2, GoesOn
<1>3. CASE C!TaskEnds(r)
  <2>1. PICK how \in {"finished", "raised", "cancelled"} : C!Move(r, [task |-> how])
    BY <1>3 DEF C!TaskEnds
  <2> DEFINE f == [task |-> how]
  <2>2. C!Move(r, f) /\ UNCHANGED chat
    BY <1>3, <2>1 DEF C!TaskEnds
  <2>3. C!Live(r)' => C!Live(r)
    BY <2>2, MovedRequests DEF C!Live
  <2> QED BY <2>2, <2>3, GoesOn
<1>4. CASE C!Refuse(r)
  <2> DEFINE f == [phase |-> "over", ended |-> "refused"]
  <2>1. C!Move(r, f) /\ requests[r].phase = "sent" /\ C!onError(r)
    BY <1>4 DEF C!Refuse
  <2> QED BY <2>1, EndsStep
<1>5. CASE C!event_generator(r)
  <2> DEFINE f == [phase |-> "over", ended |-> requests[r].task]
  <2>1. /\ C!Move(r, f) /\ requests[r].phase = "streaming" /\ (C!onError(r) \/ C!onDone(r))
        /\ requests[r].task \in {"finished", "raised", "cancelled"}
    BY <1>5 DEF C!event_generator, C!Sentinel
  <2> QED BY <2>1, EndsStep
<1>6. CASE C!Breaks(r)
  <2> DEFINE f == [phase |-> "over", task |-> "cancelled", ended |-> "broken"]
  <2>1. C!Move(r, f) /\ requests[r].phase = "streaming" /\ C!onError(r)
    BY <1>6 DEF C!Breaks
  <2> QED BY <2>1, EndsStep
<1> QED BY <1>1, <1>2, <1>3, <1>4, <1>5, <1>6

\* Every step of the conversation keeps its invariant.
LEMMA ChatStep == ChatInv /\ C!Next => ChatInv'
<1> SUFFICES ASSUME ChatInv, C!Next PROVE ChatInv'
  OBVIOUS
<1>1. CASE C!sendQuestion \/ C!handleRegenerate \/
           \E k \in Cards : C!handleConfirm(k) \/ C!handleCancel(k)
  BY <1>1, AskStep
<1>2. CASE C!handleNewConversation \/ C!handleStop
  BY <1>2, StopStep
<1>3. CASE C!closePanel
  BY <1>3, CloseStep
<1>4. CASE \E r \in DOMAIN requests :
           \/ C!post_chat(r) \/ C!Refuse(r) \/ C!FetchFails(r)
           \/ C!TaskEnds(r) \/ C!event_generator(r) \/ C!Breaks(r)
  BY <1>4, AnswersStep
<1>5. CASE \E r \in DOMAIN requests, k \in Cards : C!Propose(r, k)
  BY <1>5, ProposeStep
<1> QED BY <1>1, <1>2, <1>3, <1>4, <1>5 DEF C!Next

\* So does a step elsewhere in the tab.
LEMMA ChatStays == ChatInv /\ UNCHANGED conversation => ChatInv'
<1> SUFFICES ASSUME ChatInv, UNCHANGED conversation PROVE ChatInv'
  OBVIOUS
<1>1. chat' = chat /\ requests' = requests
  BY DEF conversation
<1>2. \A r \in DOMAIN requests : (C!Live(r)' <=> C!Live(r)) /\ (C!Streaming(r)' <=> C!Streaming(r))
  BY <1>1 DEF C!Live, C!Streaming
<1> QED BY <1>1, <1>2 DEF ChatInv

-----------------------------------------------------------------------------
(* The tab *)

TabInv == Inv /\ ChatInv

\* The tab starts with both parts at their start.
LEMMA TabInitHolds == TabInit => TabInv
BY InvInit, ChatInit DEF TabInit, TabInv

\* A step of the tab is a step of one part, the other one heard of it
\* or left alone.
LEMMA TabStep == TabInv /\ [TabNext]_tab => TabInv'
<1> SUFFICES ASSUME TabInv, [TabNext]_tab PROVE TabInv'
  OBVIOUS
<1>1. CASE Next /\ UNCHANGED conversation
  BY <1>1, InvStep, ChatStays DEF TabInv
<1>2. CASE C!Next /\ UNCHANGED vars
  BY <1>2, InvStep, ChatStep DEF TabInv
<1>3. CASE UNCHANGED tab
  <2>1. UNCHANGED vars /\ UNCHANGED conversation
    BY <1>3 DEF tab
  <2> QED BY <2>1, InvStep, ChatStays DEF TabInv
<1> QED BY <1>1, <1>2, <1>3 DEF TabNext

\* For any query and any changes: when nothing is under way, a shown query
\* misses nothing this tab made and refetches, nor anything announced for it,
\* unless an announcement, an answer or a request was lost.
THEOREM QueriesCatchUp == TabSpec => []CaughtUp
<1>1. TabInv => CaughtUp
  BY DEF TabInv, Inv, Types, Awaits, Pending, CaughtUp, AtRest, Why
<1> QED BY <1>1, TabInitHolds, TabStep, PTL DEF TabSpec

\* For any cards and any number of questions, regenerated answers,
\* confirmations, Stops and late ends of streams: the input is held back
\* exactly while a message streams, and the one request that feeds the
\* conversation is the one Stop would abort.
THEOREM OneAnswerAtATime == TabSpec => []OneStreamAtATime
<1>1. TabInv => OneStreamAtATime
  BY QuietMeansOne DEF TabInv, OneStreamAtATime
<1> QED BY <1>1, TabInitHolds, TabStep, PTL DEF TabSpec
=============================================================================
