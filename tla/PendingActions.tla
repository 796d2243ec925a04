--------------------------- MODULE PendingActions ---------------------------
(***************************************************************************)
(* Two-phase confirmation of the assistant's write tools: a tool proposes  *)
(* an action, a person confirms it, and only then its use case runs.       *)
(*                                                                         *)
(* Each server process (the web application, an MCP server) keeps its own  *)
(* store in memory. The store's methods do not await, so each is one step; *)
(* what the confirmed call does next does await, so other calls run        *)
(* between the claim and the end of the use case.                          *)
(***************************************************************************)
EXTENDS Integers

CONSTANTS
    Actions,   \* action ids (confirm tokens) that may ever be issued
    Persons,   \* the couple
    Tools,     \* the write tools
    AnyTool,   \* a claim that names no tool
    Inputs,    \* the arguments of a tool call
    Web, Mcp,  \* the server processes: claims over MCP name the tool
    Calls,     \* confirming calls that can be in flight at once
    TTL,       \* how long an action stays claimable
    MaxTime    \* bound on the clock

ASSUME TTLAssumption == TTL \in Nat /\ MaxTime \in Nat
ASSUME ProcessesAssumption == Web # Mcp /\ AnyTool \notin Tools

VARIABLES
    now,        \* the clock
    store,      \* each process's pending actions: id -> proposal
    shown,      \* the proposal each issued id was previewed with
    call,       \* the confirming calls in flight
    cancelled,  \* actions their owner cancelled while they were pending
    runs        \* how often each action's use case committed

vars == <<now, store, shown, call, cancelled, runs>>

Procs == {Web, Mcp}
Proposal == [person : Persons, tool : Tools, input : Inputs, at : 0..MaxTime]
Proposals == UNION {[S -> Proposal] : S \in SUBSET Actions}
Empty == [a \in {} |-> a]
Idle == [busy |-> FALSE]
Call == [busy : {TRUE}, proc : Procs, action : Actions, by : Persons,
         claimed : Proposal, asked : Inputs, at : 0..MaxTime]

-----------------------------------------------------------------------------
(* The store *)

\* Every method evicts first: what is older than the TTL, not exactly that old.
Expired(proposal) == proposal.at < now - TTL
Live(p) == {a \in DOMAIN store[p] : ~Expired(store[p][a])}
Keep(p, S) == [store EXCEPT ![p] = [a \in S |-> store[p][a]]]

\* create: a fresh id, stored and returned to the caller as the preview.
Create(p, person, tool, input) ==
    \E a \in Actions \ DOMAIN shown :
        LET proposal == [person |-> person, tool |-> tool, input |-> input, at |-> now]
        IN
        /\ store' = [store EXCEPT ![p] =
                        [b \in Live(p) \cup {a} |-> IF b = a THEN proposal ELSE store[p][b]]]
        /\ shown' = [b \in DOMAIN shown \cup {a} |-> IF b = a THEN proposal ELSE shown[b]]

\* Mutant of Claimable: whoever knows the id may claim it.
ClaimableByAnyone(p, a, person, tool) ==
    /\ a \in Live(p)
    /\ tool \in {AnyTool, store[p][a].tool}

\* claim, cancel: every check comes before the removal.
Claimable(p, a, person, tool) ==
    /\ a \in Live(p)
    /\ store[p][a].person = person
    /\ tool \in {AnyTool, store[p][a].tool}

\* Mutant of Claim: the action is removed only once it has run.
ClaimWithoutRemoval(c, p, a, person, tool, asked) ==
    /\ call[c] = Idle
    /\ Claimable(p, a, person, tool)
    /\ store' = Keep(p, Live(p))
    /\ call' = [call EXCEPT ![c] =
          [busy |-> TRUE, proc |-> p, action |-> a, by |-> person,
           claimed |-> store[p][a], asked |-> asked, at |-> now]]

Claim(c, p, a, person, tool, asked) ==
    /\ call[c] = Idle
    /\ Claimable(p, a, person, tool)
    /\ store' = Keep(p, Live(p) \ {a})
    /\ call' = [call EXCEPT ![c] =
          [busy |-> TRUE, proc |-> p, action |-> a, by |-> person,
           claimed |-> store[p][a], asked |-> asked, at |-> now]]

-----------------------------------------------------------------------------
(* The calls *)

Propose(p) ==
    /\ \E person \in Persons, tool \in Tools, input \in Inputs :
          Create(p, person, tool, input)
    /\ UNCHANGED <<now, call, cancelled, runs>>

\* The chat route confirms an id alone and repeats no arguments.
ConfirmChat(c) ==
    /\ \E a \in Live(Web), person \in Persons :
          Claim(c, Web, a, person, AnyTool, store[Web][a].input)
    /\ UNCHANGED <<now, shown, cancelled, runs>>

\* A confirming MCP call names its tool and repeats the arguments.
ConfirmMcp(c) ==
    /\ \E a \in Live(Mcp), person \in Persons, tool \in Tools, asked \in Inputs :
          Claim(c, Mcp, a, person, tool, asked)
    /\ UNCHANGED <<now, shown, cancelled, runs>>

\* With an unknown, consumed or expired token it becomes a fresh preview.
ConfirmStale ==
    /\ Actions \ Live(Mcp) # {}
    /\ Propose(Mcp)

\* Mutant of Refuse: pops the action before it looks at who claims it.
RefusePopsFirst(p) ==
    /\ \E a \in Live(p), person \in Persons, tool \in Tools \cup {AnyTool} :
          /\ ~Claimable(p, a, person, tool)
          /\ store' = Keep(p, Live(p) \ {a})
    /\ UNCHANGED <<now, shown, call, cancelled, runs>>

\* A refused claim or cancel only evicts: another person's action, another
\* tool's token, and in the chat an id that is not there.
Refuse(p) ==
    /\ \E a \in Actions, person \in Persons, tool \in Tools \cup {AnyTool} :
          /\ ~Claimable(p, a, person, tool)
          /\ p = Mcp => a \in Live(Mcp)
    /\ store' = Keep(p, Live(p))
    /\ UNCHANGED <<now, shown, call, cancelled, runs>>

\* Mutant of Cancel: reports the cancel and leaves the action stored.
CancelKeepsAction ==
    \E a \in Live(Web), person \in Persons :
        /\ Claimable(Web, a, person, AnyTool)
        /\ store' = Keep(Web, Live(Web))
        /\ cancelled' = cancelled \cup {a}
        /\ UNCHANGED <<now, shown, call, runs>>

\* The owner cancels in the chat.
Cancel ==
    \E a \in Live(Web), person \in Persons :
        /\ Claimable(Web, a, person, AnyTool)
        /\ store' = Keep(Web, Live(Web) \ {a})
        /\ cancelled' = cancelled \cup {a}
        /\ UNCHANGED <<now, shown, call, runs>>

\* The claimed action's use case commits, unless the arguments drifted.
Execute(c) ==
    /\ call[c] # Idle
    /\ call[c].asked = call[c].claimed.input
    /\ runs' = [runs EXCEPT ![call[c].action] = @ + 1]
    /\ call' = [call EXCEPT ![c] = Idle]
    /\ UNCHANGED <<now, store, shown, cancelled>>

\* Or it is rejected or fails; the action is consumed all the same.
Fail(c) ==
    /\ call[c] # Idle
    /\ call' = [call EXCEPT ![c] = Idle]
    /\ UNCHANGED <<now, store, shown, cancelled, runs>>

\* A process restarts: its store is gone, and the calls it was serving.
Restart(p) ==
    /\ store' = [store EXCEPT ![p] = Empty]
    /\ call' = [c \in Calls |->
                  IF call[c] # Idle /\ call[c].proc = p THEN Idle ELSE call[c]]
    /\ UNCHANGED <<now, shown, cancelled, runs>>

Tick ==
    /\ now < MaxTime
    /\ now' = now + 1
    /\ UNCHANGED <<store, shown, call, cancelled, runs>>

Init ==
    /\ now = 0
    /\ store = [p \in Procs |-> Empty]
    /\ shown = Empty
    /\ call = [c \in Calls |-> Idle]
    /\ cancelled = {}
    /\ runs = [a \in Actions |-> 0]

Next ==
    \/ \E p \in Procs : Propose(p) \/ Refuse(p) \/ Restart(p)
    \/ \E c \in Calls : ConfirmChat(c) \/ ConfirmMcp(c) \/ Execute(c) \/ Fail(c)
    \/ ConfirmStale \/ Cancel \/ Tick

Spec == Init /\ [][Next]_vars

-----------------------------------------------------------------------------
(* Properties *)

\* The stores hold proposals under their ids, calls hold what they claimed.
TypeOK ==
    /\ now \in 0..MaxTime
    /\ store \in [Procs -> Proposals]
    /\ shown \in Proposals
    /\ call \in [Calls -> Call \cup {Idle}]
    /\ cancelled \subseteq DOMAIN shown
    /\ runs \in [Actions -> Nat]

\* However calls, retries, restarts and expiries interleave, one confirmed
\* action changes the database at most once: it is claimed before it runs.
RunsAtMostOnce == \A a \in Actions : runs[a] <= 1

\* An action its owner cancelled never runs, and no call still holds it.
CancelledNeverRuns ==
    \A a \in cancelled :
        runs[a] = 0 /\ \A c \in Calls : call[c] # Idle => call[c].action # a

\* What runs is what was shown to the person who confirmed it: a use case
\* commits only for a call by the owner of the proposal, claimed within the
\* TTL of the preview, that repeated the previewed arguments.
RunsAsPreviewed ==
    \A a \in Actions :
        runs'[a] # runs[a] =>
            \E c \in Calls :
                /\ call[c] # Idle /\ call[c].action = a
                /\ call[c].claimed = shown[a]
                /\ call[c].by = shown[a].person
                /\ call[c].asked = shown[a].input
                /\ call[c].at <= shown[a].at + TTL
OnlyPreviewsRun == [][RunsAsPreviewed]_vars

ConsumedBy(c, a) == call[c] = Idle /\ call'[c] # Idle /\ call'[c].action = a
Restarting(p) == store'[p] = Empty /\ UNCHANGED <<now, shown, cancelled, runs>>

\* A refused claim leaves the action pending: while it is claimable, an action
\* leaves the store only with its owner's claim, with its owner's cancel, or
\* with the whole process's memory.
KeptUntilClaimed ==
    \A p \in Procs : \A a \in Live(p) \ DOMAIN store'[p] :
        \/ \E c \in Calls : ConsumedBy(c, a) /\ call'[c].by = shown[a].person
        \/ a \in cancelled'
        \/ Restarting(p)
RefusalKeepsPending == [][KeptUntilClaimed]_vars

=============================================================================
