---------------------------- MODULE LiveQueries ----------------------------
(* How one browser tab keeps a cached query current while both partners,    *)
(* the assistant and the MCP server write: the server's announcements on    *)
(* the event stream, the tab's refetch of what an announcement names, the   *)
(* refetch a component makes after its own change, the five-second polls,   *)
(* and the screens that come and go meanwhile.                              *)
(*                                                                          *)
(* Queries do not interact, so a behaviour watches one of them.  `shown`    *)
(* is what the answer on screen misses and `late` what the answer on its    *)
(* way misses: for each write since, why this tab should come to know of    *)
(* it.  "own": a component of this tab made it and refetches the query;     *)
(* "heard": the server announced an entity that refetches the query;        *)
(* "unsaid": neither; "mcp": the MCP server made it, which has no bus.      *)
EXTENDS Endpoints, Integers, FiniteSets

CONSTANTS
    Watched,    \* the queries a behaviour may watch
    Writers,    \* the changes that may happen
    MaxWrites,  \* how many changes happen
    MaxFaults   \* how many lost answers, failed fetches and lost streams

VARIABLES
    query,      \* the query watched
    cache,      \* its entry in the tab's cache, and whether a screen shows it
    stream,     \* this tab's event stream: "off", "on", or "dead"
    wire,       \* announcements: not made yet, and made but not delivered
    own,        \* this tab's changes whose answers have not arrived
    excused,    \* what the tab may miss because something was lost
    used        \* writes and faults so far

vars == <<query, cache, stream, wire, own, excused, used>>

Why == {"own", "heard", "unsaid", "mcp"}
Init ==
    /\ query \in Watched
    /\ cache = [mounted |-> TRUE, loaded |-> FALSE, invalid |-> FALSE, fetch |-> "sent",
                shown |-> {}, late |-> {}]
    /\ stream = "off"
    /\ wire = [unsaid |-> 0, said |-> 0]
    /\ own = [refetching |-> 0, other |-> 0]
    /\ excused = {}
    /\ used = [writes |-> 0, faults |-> 0]

----------------------------------------------------------------------------
(* A refetch of the query.  One already in flight is thrown away and begun  *)
(* again, but only when the query has data: the first load runs on.         *)
(* Mutant: queries no screen shows are left as they are.                    *)
RestartedMounted(c) ==
    IF ~c.mounted \/ (c.fetch # "none" /\ ~c.loaded) THEN c
    ELSE [c EXCEPT !.fetch = "sent", !.late = {}, !.invalid = TRUE]
Restarted(c) ==
    IF ~c.mounted THEN [c EXCEPT !.invalid = TRUE]
    ELSE IF c.fetch # "none" /\ ~c.loaded THEN c
    ELSE [c EXCEPT !.fetch = "sent", !.late = {}, !.invalid = TRUE]

(* A refetch that the first load swallows may leave that load's answer.     *)
Swallowed(why) == IF cache.fetch # "none" /\ ~cache.loaded THEN {why} ELSE {}

Serves(entity) == query \in ENTITY_QUERY_KEYS(entity)
Announced(entities) == Cardinality({e \in entities : Serves(e)})

(* A change commits: what is shown, and what the server has already read    *)
(* for the answer on its way, now misses it.                                *)
Committed(m, why) ==
    IF Reads(query) \intersect Writes(m) = {} THEN UNCHANGED cache
    ELSE cache' = [cache EXCEPT !.shown = @ \union why,
                                !.late = IF cache.fetch = "read" THEN @ \union why ELSE @]

Known(entities) == IF Announced(entities) > 0 THEN {"heard"} ELSE {}
Reason(why) == IF why = {} THEN {"unsaid"} ELSE why

Write(m, entities, why) ==
    /\ used.writes < MaxWrites
    /\ used' = [used EXCEPT !.writes = @ + 1]
    /\ Committed(m, Reason(Known(entities) \union why))
    /\ wire' = [wire EXCEPT !.unsaid = @ + Announced(entities)]
    /\ UNCHANGED <<query, stream, excused>>

(* A change of this tab: the route commits it; its answer is on its way.    *)
OwnWrite(m) ==
    /\ Write(m, Broadcasts(m), IF query \in OwnRefetches(m) THEN {"own"} ELSE {})
    /\ own' = IF query \in OwnRefetches(m) THEN [own EXCEPT !.refetching = @ + 1]
              ELSE [own EXCEPT !.other = @ + 1]

PartnerWrites(m) == Write(m, Broadcasts(m), {}) /\ UNCHANGED own

(* The assistant runs a confirmed action inside the web server, the MCP     *)
(* server in a process of its own: its announcement reaches no stream.      *)
AssistantWrites(m) == Tooled(m) /\ Write(m, ToolBroadcasts(m), {}) /\ UNCHANGED own
McpWrites(m) == Tooled(m) /\ Write(m, {}, {"mcp"}) /\ UNCHANGED own

(* broadcast: the event reaches every stream that is connected.             *)
broadcast ==
    /\ wire.unsaid > 0
    /\ wire' = [unsaid |-> wire.unsaid - 1,
                said |-> IF stream = "on" THEN wire.said + 1 ELSE wire.said]
    /\ excused' = IF stream = "on" THEN excused ELSE excused \union {"heard"}
    /\ UNCHANGED <<query, cache, stream, own, used>>

----------------------------------------------------------------------------
(* The stream: it opens after the first screen's queries are already on     *)
(* their way, and what is announced while it is down is lost.  A reconnect  *)
(* the server refuses (a deployment in progress) closes it for good.        *)
ensureConnection ==
    /\ stream = "off"
    /\ stream' = "on"
    /\ UNCHANGED <<query, cache, wire, own, excused, used>>

Fault == used.faults < MaxFaults /\ used' = [used EXCEPT !.faults = @ + 1]

DropStream ==
    /\ stream = "on" /\ Fault
    /\ \E next \in {"off", "dead"} : stream' = next
    /\ wire' = [wire EXCEPT !.said = 0]
    /\ excused' = IF wire.said > 0 THEN excused \union {"heard"} ELSE excused
    /\ UNCHANGED <<query, cache, own>>

(* useRealtimeSync hears an entity of the query.                            *)
useRealtimeSync ==
    /\ wire.said > 0
    /\ wire' = [wire EXCEPT !.said = @ - 1]
    /\ cache' = Restarted(cache)
    /\ excused' = excused \union Swallowed("heard")
    /\ UNCHANGED <<query, stream, own, used>>

(* The answer to a change of this tab runs its component's onSuccess; a     *)
(* lost answer runs none, though the change is committed.                   *)
OwnAnswer ==
    /\ own.refetching > 0
    /\ own' = [own EXCEPT !.refetching = @ - 1]
    /\ cache' = Restarted(cache)
    /\ excused' = excused \union Swallowed("own")
    /\ UNCHANGED <<query, stream, wire, used>>
OtherAnswer ==
    /\ own.other > 0
    /\ own' = [own EXCEPT !.other = @ - 1]
    /\ UNCHANGED <<query, cache, stream, wire, excused, used>>
OwnAnswerLost ==
    /\ own.refetching > 0 /\ Fault
    /\ own' = [own EXCEPT !.refetching = @ - 1]
    /\ excused' = excused \union {"own"}
    /\ UNCHANGED <<query, cache, stream, wire>>

----------------------------------------------------------------------------
(* A request of the query: the server reads, the answer arrives.            *)
ServerReads ==
    /\ cache.fetch = "sent"
    /\ cache' = [cache EXCEPT !.fetch = "read", !.late = {}]
    /\ UNCHANGED <<query, stream, wire, own, excused, used>>
Answer ==
    /\ cache.fetch = "read"
    /\ cache' = [cache EXCEPT !.fetch = "none", !.shown = cache.late, !.late = {},
                              !.loaded = TRUE, !.invalid = FALSE]
    /\ UNCHANGED <<query, stream, wire, own, excused, used>>
(* A failed request is not retried, or no more: the old data stays shown.   *)
FetchFails ==
    /\ cache.fetch # "none" /\ Fault
    /\ cache' = [cache EXCEPT !.fetch = "none", !.late = {}]
    /\ excused' = Why
    /\ UNCHANGED <<query, stream, wire, own>>

(* The poll of a shown query, and a return to the browser window.           *)
PollWhileStreamDown ==
    /\ query \in Polled /\ cache.mounted /\ cache.fetch = "none" /\ stream # "on"
    /\ cache' = [cache EXCEPT !.fetch = "sent"]
    /\ UNCHANGED <<query, stream, wire, own, excused, used>>
Poll ==
    /\ query \in Polled /\ cache.mounted /\ cache.fetch = "none"
    /\ cache' = [cache EXCEPT !.fetch = "sent"]
    /\ UNCHANGED <<query, stream, wire, own, excused, used>>
WindowFocus ==
    /\ cache.mounted /\ cache.fetch = "none"
    /\ cache' = [cache EXCEPT !.fetch = "sent"]
    /\ UNCHANGED <<query, stream, wire, own, excused, used>>

(* The screen goes: its request is cancelled.  It comes back: the query is  *)
(* refetched if it was invalidated, if it has no data, or if its data is    *)
(* older than its stale time.                                               *)
Unmount ==
    /\ cache.mounted
    /\ cache' = [cache EXCEPT !.mounted = FALSE, !.fetch = "none", !.late = {}]
    /\ UNCHANGED <<query, stream, wire, own, excused, used>>
Mount ==
    /\ ~cache.mounted
    /\ \E stale \in BOOLEAN :
           cache' = [cache EXCEPT !.mounted = TRUE,
                        !.fetch = IF cache.invalid \/ ~cache.loaded \/ stale
                                  THEN "sent" ELSE "none"]
    /\ UNCHANGED <<query, stream, wire, own, excused, used>>

Next ==
    \/ \E m \in Writers :
           OwnWrite(m) \/ PartnerWrites(m) \/ AssistantWrites(m) \/ McpWrites(m)
    \/ broadcast \/ ensureConnection \/ DropStream \/ useRealtimeSync
    \/ OwnAnswer \/ OtherAnswer \/ OwnAnswerLost
    \/ ServerReads \/ Answer \/ FetchFails \/ Poll \/ WindowFocus \/ Unmount \/ Mount

(* The server answers what it is sent, and the browser's poll timer runs.   *)
Fairness == WF_vars(ServerReads) /\ WF_vars(Answer) /\ WF_vars(Poll)
Spec == Init /\ [][Next]_vars /\ Fairness

----------------------------------------------------------------------------
AtRest ==
    /\ cache.mounted /\ cache.loaded /\ cache.fetch = "none"
    /\ wire.unsaid = 0 /\ wire.said = 0 /\ own.refetching = 0

(* When nothing is under way, a shown query misses no change that this tab  *)
(* made and refetches, nor any the server announced for it, unless an       *)
(* announcement, an answer or a request was lost: an answer that was read   *)
(* before a change and arrives after it never stays on screen, and neither  *)
(* does data whose screen was closed while the change was announced.        *)
CaughtUp == AtRest => cache.shown \subseteq {"unsaid", "mcp"} \union excused

(* The polls are the fallback: on Dashboard, Settle Up and Transactions a   *)
(* shown query ends up with every change, announced or not, streams and     *)
(* answers lost or not, those of the MCP server included.                   *)
PollsCatchUp ==
    query \in {GetDashboard, GetSettleUpData, GetReconciliation} =>
        []<>(~cache.mounted \/ cache.shown = {})

(* What the design notes say of the event bus: it announces the changes of  *)
(* the web app, and the open pages refetch what it announces.               *)
ChangesReachOpenPages == AtRest /\ excused = {} => "unsaid" \notin cache.shown
=============================================================================
