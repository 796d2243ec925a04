------------------------ MODULE PendingActions_proofs ------------------------
(***************************************************************************)
(* Theorems about the confirmation of assistant actions, for any number of *)
(* actions, persons, tools and calls, any TTL and any length of the clock. *)
(* An action is in one place at a time: pending in one store, held by one  *)
(* call, or done with.                                                     *)
(***************************************************************************)
EXTENDS PendingActions, TLAPS

Busy(c) == call[c] # Idle

\* What a store holds was shown, is in no other store, and was neither run,
\* claimed nor cancelled.
StoredInv ==
    \A p \in Procs : \A a \in DOMAIN store[p] :
        /\ a \in DOMAIN shown /\ store[p][a] = shown[a]
        /\ runs[a] = 0 /\ a \notin cancelled
        /\ \A q \in Procs : a \in DOMAIN store[q] => q = p
        /\ \A c \in Calls : Busy(c) => call[c].action # a

\* What a call holds is what was shown, to the call's person, in time; no
\* other call holds it, and it was neither run nor cancelled.
HeldInv ==
    \A c \in Calls : Busy(c) =>
        LET a == call[c].action IN
        /\ a \in DOMAIN shown /\ call[c].claimed = shown[a]
        /\ call[c].by = shown[a].person /\ call[c].at <= shown[a].at + TTL
        /\ runs[a] = 0 /\ a \notin cancelled
        /\ \A d \in Calls : Busy(d) /\ call[d].action = a => d = c

\* What was never shown, or was cancelled, never ran; nothing ran twice.
RunsInv ==
    \A a \in Actions :
        /\ runs[a] <= 1
        /\ a \notin DOMAIN shown => runs[a] = 0
        /\ a \in cancelled => runs[a] = 0

Inv == TypeOK /\ StoredInv /\ HeldInv /\ RunsInv

-----------------------------------------------------------------------------
(* Functions on sets of actions *)

\* A function into the proposals, on a set of actions, is a map of proposals.
LEMMA ProposalsIntro ==
    ASSUME NEW S \in SUBSET Actions, NEW f \in [S -> Proposal]
    PROVE  f \in Proposals
    BY DEF Proposals

\* A map of proposals is a function on some actions into the proposals.
LEMMA ProposalsElim ==
    ASSUME NEW f \in Proposals
    PROVE  DOMAIN f \subseteq Actions /\ f \in [DOMAIN f -> Proposal]
    BY DEF Proposals

\* What is live is stored.
LEMMA LiveStored ==
    ASSUME NEW p
    PROVE  Live(p) \subseteq DOMAIN store[p]
    BY DEF Live

\* Keeping part of one store types, and changes nothing else.
LEMMA KeepStored ==
    ASSUME TypeOK, NEW p \in Procs, NEW S, S \subseteq DOMAIN store[p], store' = Keep(p, S)
    PROVE  /\ store' \in [Procs -> Proposals]
           /\ \A q \in Procs : DOMAIN store'[q] \subseteq DOMAIN store[q]
           /\ \A q \in Procs : \A a \in DOMAIN store'[q] : store'[q][a] = store[q][a]
           /\ DOMAIN store'[p] = S
<1> DEFINE f == [a \in S |-> store[p][a]]
<1>1. store[p] \in Proposals /\ store \in [Procs -> Proposals]
    BY DEF TypeOK
<1>2. DOMAIN store[p] \subseteq Actions /\ store[p] \in [DOMAIN store[p] -> Proposal]
    BY <1>1, ProposalsElim
<1>3. S \in SUBSET Actions /\ f \in [S -> Proposal]
    BY <1>2
<1>4. f \in Proposals
    <2> HIDE DEF f
    <2> QED BY <1>3, ProposalsIntro
<1>5. store' = [store EXCEPT ![p] = f]
    BY DEF Keep
<1>6. store' \in [Procs -> Proposals] /\ store'[p] = f
    <2> HIDE DEF f
    <2> QED BY <1>1, <1>4, <1>5
<1>7. \A q \in Procs : q # p => store'[q] = store[q]
    BY <1>1, <1>5
<1> QED
    BY <1>6, <1>7

-----------------------------------------------------------------------------
(* The steps *)

\* Emptying part of one store while nothing else moves keeps the invariant.
LEMMA EvictStep ==
    ASSUME Inv, NEW p \in Procs, NEW S, S \subseteq DOMAIN store[p],
           store' = Keep(p, S), UNCHANGED <<now, shown, call, cancelled, runs>>
    PROVE  Inv'
<1>1. /\ store' \in [Procs -> Proposals]
      /\ \A q \in Procs : DOMAIN store'[q] \subseteq DOMAIN store[q]
      /\ \A q \in Procs : \A a \in DOMAIN store'[q] : store'[q][a] = store[q][a]
    BY KeepStored DEF Inv
<1>2. TypeOK'
    BY <1>1 DEF Inv, TypeOK
<1>3. StoredInv'
    BY <1>1 DEF Inv, StoredInv, Busy
<1>4. HeldInv' /\ RunsInv'
    BY DEF Inv, HeldInv, RunsInv, Busy
<1> QED
    BY <1>2, <1>3, <1>4 DEF Inv

\* Creating an action under a fresh id keeps the invariant.
LEMMA CreateStep ==
    ASSUME Inv, NEW p \in Procs, NEW person \in Persons, NEW tool \in Tools,
           NEW input \in Inputs, Create(p, person, tool, input),
           UNCHANGED <<now, call, cancelled, runs>>
    PROVE  Inv'
<1> DEFINE proposal == [person |-> person, tool |-> tool, input |-> input, at |-> now]
<1>1. PICK a \in Actions \ DOMAIN shown :
        /\ store' = [store EXCEPT ![p] =
                [b \in Live(p) \cup {a} |-> IF b = a THEN proposal ELSE store[p][b]]]
        /\ shown' = [b \in DOMAIN shown \cup {a} |-> IF b = a THEN proposal ELSE shown[b]]
    BY DEF Create
<1>2. proposal \in Proposal
    BY DEF Inv, TypeOK, Proposal
<1> HIDE DEF proposal
<1>3. /\ store \in [Procs -> Proposals] /\ store[p] \in Proposals /\ shown \in Proposals
      /\ Live(p) \subseteq DOMAIN store[p]
    BY LiveStored DEF Inv, TypeOK
<1>4. /\ DOMAIN store[p] \subseteq Actions /\ store[p] \in [DOMAIN store[p] -> Proposal]
      /\ DOMAIN shown \subseteq Actions /\ shown \in [DOMAIN shown -> Proposal]
    BY <1>3, ProposalsElim
<1> DEFINE f == [b \in Live(p) \cup {a} |-> IF b = a THEN proposal ELSE store[p][b]]
           g == [b \in DOMAIN shown \cup {a} |-> IF b = a THEN proposal ELSE shown[b]]
<1>5. /\ Live(p) \cup {a} \in SUBSET Actions /\ f \in [Live(p) \cup {a} -> Proposal]
      /\ DOMAIN shown \cup {a} \in SUBSET Actions /\ g \in [DOMAIN shown \cup {a} -> Proposal]
    BY <1>2, <1>3, <1>4
<1>6. f \in Proposals /\ g \in Proposals
    <2> HIDE DEF f, g
    <2> QED BY <1>5, ProposalsIntro
<1>7. /\ store' \in [Procs -> Proposals] /\ store'[p] = f
      /\ \A q \in Procs : q # p => store'[q] = store[q]
    <2> HIDE DEF f
    <2>1. store' = [store EXCEPT ![p] = f]
        BY <1>1 DEF f
    <2> QED BY <2>1, <1>3, <1>6
<1>8. /\ shown' = g /\ DOMAIN shown' = DOMAIN shown \cup {a}
      /\ \A b \in DOMAIN shown : shown'[b] = shown[b]
      /\ shown'[a] = proposal
    BY <1>1
<1>9. /\ \A q \in Procs : DOMAIN store'[q] \subseteq DOMAIN store[q] \cup {a}
      /\ a \in DOMAIN store'[p] /\ store'[p][a] = proposal
      /\ \A q \in Procs : \A b \in DOMAIN store'[q] : b # a => store'[q][b] = store[q][b]
      /\ \A q \in Procs : a \in DOMAIN store'[q] => q = p
    <2>1. \A q \in Procs : a \notin DOMAIN store[q]
        BY DEF Inv, StoredInv
    <2>2. DOMAIN store'[p] = Live(p) \cup {a} /\ store'[p][a] = proposal
        BY <1>7
    <2>3. \A b \in Live(p) : b # a => store'[p][b] = store[p][b]
        BY <1>7
    <2> QED BY <1>3, <1>7, <2>1, <2>2, <2>3
<1> HIDE DEF f, g
<1>10. TypeOK'
    BY <1>6, <1>7, <1>8 DEF Inv, TypeOK
<1>11. a \notin cancelled /\ runs[a] = 0 /\ \A c \in Calls : Busy(c) => call[c].action # a
    BY <1>1 DEF Inv, TypeOK, RunsInv, HeldInv
<1>12. StoredInv'
    <2> SUFFICES ASSUME NEW q \in Procs, NEW b \in DOMAIN store'[q]
                 PROVE  /\ b \in DOMAIN shown' /\ store'[q][b] = shown'[b]
                        /\ runs'[b] = 0 /\ b \notin cancelled'
                        /\ \A r \in Procs : b \in DOMAIN store'[r] => r = q
                        /\ \A c \in Calls : Busy(c)' => call'[c].action # b
        BY DEF StoredInv
    <2>1. CASE b = a
        BY <2>1, <1>8, <1>9, <1>11 DEF Busy
    <2>2. CASE b # a
        <3>1. b \in DOMAIN store[q] /\ \A r \in Procs : b \in DOMAIN store'[r] => b \in DOMAIN store[r]
            BY <2>2, <1>9
        <3> QED BY <2>2, <3>1, <1>8, <1>9 DEF Inv, StoredInv, Busy
    <2> QED BY <2>1, <2>2
<1>13. HeldInv'
    BY <1>8 DEF Inv, HeldInv, Busy
<1>14. RunsInv'
    BY <1>8 DEF Inv, RunsInv
<1> QED
    BY <1>10, <1>12, <1>13, <1>14 DEF Inv

\* A claim moves an action from its store to the call.
LEMMA ClaimStep ==
    ASSUME Inv, NEW c \in Calls, NEW p \in Procs, NEW a \in Live(p),
           NEW person \in Persons, NEW tool, NEW asked \in Inputs,
           Claim(c, p, a, person, tool, asked),
           UNCHANGED <<now, shown, cancelled, runs>>
    PROVE  Inv'
<1> DEFINE held == [busy |-> TRUE, proc |-> p, action |-> a, by |-> person,
                    claimed |-> store[p][a], asked |-> asked, at |-> now]
<1>1. /\ call[c] = Idle /\ store[p][a].person = person
      /\ store' = Keep(p, Live(p) \ {a}) /\ call' = [call EXCEPT ![c] = held]
    BY DEF Claim, Claimable
<1>2. Live(p) \subseteq DOMAIN store[p] /\ a \in DOMAIN store[p]
    BY LiveStored
<1>3. /\ store' \in [Procs -> Proposals]
      /\ \A q \in Procs : DOMAIN store'[q] \subseteq DOMAIN store[q]
      /\ \A q \in Procs : \A b \in DOMAIN store'[q] : store'[q][b] = store[q][b]
      /\ DOMAIN store'[p] = Live(p) \ {a}
    BY <1>1, <1>2, KeepStored DEF Inv
<1>4. /\ a \in Actions /\ store[p][a] \in Proposal
    <2>1. store[p] \in Proposals
        BY DEF Inv, TypeOK
    <2> QED BY <1>2, <2>1, ProposalsElim
<1>5. held \in Call
    BY <1>4 DEF Call, Inv, TypeOK
<1>6. held # Idle /\ held.action = a /\ held.claimed = store[p][a]
      /\ held.by = person /\ held.at = now
    BY DEF Idle
<1>7. /\ call' \in [Calls -> Call \cup {Idle}] /\ call'[c] = held
      /\ \A d \in Calls : d # c => call'[d] = call[d]
    <2> HIDE DEF held
    <2> QED BY <1>1, <1>5 DEF Inv, TypeOK
<1>8. TypeOK'
    BY <1>3, <1>7 DEF Inv, TypeOK
<1>9. /\ a \in DOMAIN shown /\ store[p][a] = shown[a] /\ runs[a] = 0 /\ a \notin cancelled
      /\ \A q \in Procs : a \in DOMAIN store[q] => q = p
      /\ \A d \in Calls : Busy(d) => call[d].action # a
    BY <1>2 DEF Inv, StoredInv
<1>10. now <= shown[a].at + TTL
    <2>1. ~(shown[a].at < now - TTL)
        BY <1>9 DEF Live, Expired
    <2>2. shown[a].at \in Int /\ now \in Int /\ TTL \in Int
        BY <1>4, <1>9, TTLAssumption DEF Proposal, Inv, TypeOK
    <2> QED BY <2>1, <2>2
<1> HIDE DEF held
<1>11. StoredInv'
    <2>1. \A q \in Procs : a \notin DOMAIN store'[q]
        BY <1>3, <1>9
    <2> QED BY <2>1, <1>3, <1>6, <1>7 DEF Inv, StoredInv, Busy
<1>12. HeldInv'
    <2> SUFFICES ASSUME NEW d \in Calls, Busy(d)'
                 PROVE  LET b == call'[d].action IN
                        /\ b \in DOMAIN shown' /\ call'[d].claimed = shown'[b]
                        /\ call'[d].by = shown'[b].person /\ call'[d].at <= shown'[b].at + TTL
                        /\ runs'[b] = 0 /\ b \notin cancelled'
                        /\ \A e \in Calls : Busy(e)' /\ call'[e].action = b => e = d
        BY DEF HeldInv
    <2>1. CASE d = c
        BY <2>1, <1>1, <1>6, <1>7, <1>9, <1>10 DEF Busy
    <2>2. CASE d # c
        <3>1. Busy(d) /\ call'[d] = call[d] /\ call[d].action # a
            BY <2>2, <1>7, <1>9 DEF Busy
        <3> QED BY <2>2, <3>1, <1>6, <1>7 DEF Inv, HeldInv, Busy
    <2> QED BY <2>1, <2>2
<1>13. RunsInv'
    BY DEF Inv, RunsInv
<1> QED
    BY <1>8, <1>11, <1>12, <1>13 DEF Inv

\* Calls that end without running anything keep the invariant.
LEMMA EndStep ==
    ASSUME Inv, call' \in [Calls -> Call \cup {Idle}],
           \A c \in Calls : call'[c] \in {Idle, call[c]},
           UNCHANGED <<now, shown, cancelled, runs>>,
           store' \in [Procs -> Proposals],
           \A p \in Procs : store'[p] \in {Empty, store[p]}
    PROVE  Inv'
<1>1. \A p \in Procs : \A a \in DOMAIN store'[p] : a \in DOMAIN store[p] /\ store'[p] = store[p]
    BY DEF Empty
<1>2. \A c \in Calls : Busy(c)' => Busy(c) /\ call'[c] = call[c]
    BY DEF Busy
<1>3. TypeOK'
    BY DEF Inv, TypeOK
<1>4. StoredInv'
    BY <1>1, <1>2 DEF Inv, StoredInv
<1>5. HeldInv'
    BY <1>2 DEF Inv, HeldInv
<1>6. RunsInv'
    BY DEF Inv, RunsInv
<1> QED
    BY <1>3, <1>4, <1>5, <1>6 DEF Inv

\* A claimed action's commit is its first run.
LEMMA ExecuteStep ==
    ASSUME Inv, NEW c \in Calls, Execute(c)
    PROVE  Inv'
<1> DEFINE a == call[c].action
<1>1. /\ Busy(c) /\ runs' = [runs EXCEPT ![a] = @ + 1] /\ call' = [call EXCEPT ![c] = Idle]
      /\ UNCHANGED <<now, store, shown, cancelled>>
    BY DEF Execute, Busy
<1>2. /\ call \in [Calls -> Call \cup {Idle}] /\ runs \in [Actions -> Nat]
      /\ call[c] \in Call /\ a \in Actions
    BY <1>1 DEF Inv, TypeOK, Busy, Call
<1>3. /\ a \in DOMAIN shown /\ runs[a] = 0 /\ a \notin cancelled
      /\ \A d \in Calls : Busy(d) /\ call[d].action = a => d = c
    BY <1>1 DEF Inv, HeldInv
<1> HIDE DEF a
<1>4. /\ runs' \in [Actions -> Nat] /\ runs'[a] = 1
      /\ \A b \in Actions : b # a => runs'[b] = runs[b]
    BY <1>1, <1>2, <1>3
<1>5. /\ call' \in [Calls -> Call \cup {Idle}] /\ call'[c] = Idle
      /\ \A d \in Calls : d # c => call'[d] = call[d]
    BY <1>1, <1>2
<1>6. TypeOK'
    BY <1>1, <1>4, <1>5 DEF Inv, TypeOK
<1>7. \A d \in Calls : Busy(d)' => d # c /\ Busy(d) /\ call'[d] = call[d]
    BY <1>5 DEF Busy
<1>8. \A p \in Procs : \A b \in DOMAIN store[p] : b # a /\ b \in Actions
    <2>1. \A p \in Procs : \A b \in DOMAIN store[p] : b # a
        BY <1>1 DEF Inv, StoredInv, a
    <2>2. \A p \in Procs : store[p] \in Proposals
        BY DEF Inv, TypeOK
    <2> QED BY <2>1, <2>2, ProposalsElim
<1>9. StoredInv'
    BY <1>1, <1>4, <1>7, <1>8 DEF Inv, StoredInv
<1>10. HeldInv'
    <2>1. \A d \in Calls : Busy(d)' => call[d].action # a /\ call[d].action \in Actions
        BY <1>3, <1>7 DEF Inv, TypeOK, Busy, Call
    <2> QED BY <2>1, <1>1, <1>4, <1>7 DEF Inv, HeldInv
<1>11. RunsInv'
    BY <1>1, <1>3, <1>4 DEF Inv, RunsInv
<1> QED
    BY <1>6, <1>9, <1>10, <1>11 DEF Inv

\* An owner's cancel removes a pending action for good.
LEMMA CancelStep ==
    ASSUME Inv, Cancel
    PROVE  Inv'
<1>1. PICK a \in Live(Web) :
        /\ store' = Keep(Web, Live(Web) \ {a}) /\ cancelled' = cancelled \cup {a}
        /\ UNCHANGED <<now, shown, call, runs>>
    BY DEF Cancel
<1>2. Web \in Procs /\ Live(Web) \subseteq DOMAIN store[Web] /\ a \in DOMAIN store[Web]
    BY LiveStored DEF Procs
<1>3. /\ store' \in [Procs -> Proposals]
      /\ \A q \in Procs : DOMAIN store'[q] \subseteq DOMAIN store[q]
      /\ \A q \in Procs : \A b \in DOMAIN store'[q] : store'[q][b] = store[q][b]
      /\ DOMAIN store'[Web] = Live(Web) \ {a}
    BY <1>1, <1>2, KeepStored DEF Inv
<1>4. /\ a \in DOMAIN shown /\ runs[a] = 0
      /\ \A q \in Procs : a \in DOMAIN store[q] => q = Web
      /\ \A c \in Calls : Busy(c) => call[c].action # a
    BY <1>2 DEF Inv, StoredInv
<1>5. \A q \in Procs : a \notin DOMAIN store'[q]
    BY <1>3, <1>4
<1>6. TypeOK'
    BY <1>1, <1>3, <1>4 DEF Inv, TypeOK
<1>7. StoredInv'
    <2> SUFFICES ASSUME NEW q \in Procs, NEW b \in DOMAIN store'[q]
                 PROVE  /\ b \in DOMAIN shown' /\ store'[q][b] = shown'[b]
                        /\ runs'[b] = 0 /\ b \notin cancelled'
                        /\ \A r \in Procs : b \in DOMAIN store'[r] => r = q
                        /\ \A c \in Calls : Busy(c)' => call'[c].action # b
        BY DEF StoredInv
    <2>1. b # a /\ b \in DOMAIN store[q]
        BY <1>3, <1>5
    <2>2. b \in DOMAIN shown /\ store[q][b] = shown[b] /\ runs[b] = 0 /\ b \notin cancelled
        BY <2>1 DEF Inv, StoredInv
    <2>3. \A r \in Procs : b \in DOMAIN store'[r] => r = q
        BY <2>1, <1>3 DEF Inv, StoredInv
    <2>4. \A c \in Calls : Busy(c)' => call'[c].action # b
        BY <2>1, <1>1 DEF Inv, StoredInv, Busy
    <2> QED BY <2>1, <2>2, <2>3, <2>4, <1>1, <1>3
<1>8. HeldInv'
    BY <1>1, <1>4 DEF Inv, HeldInv, Busy
<1>9. RunsInv'
    BY <1>1, <1>4 DEF Inv, RunsInv
<1> QED
    BY <1>6, <1>7, <1>8, <1>9 DEF Inv

-----------------------------------------------------------------------------
\* No map of proposals is as good as the empty one.
LEMMA EmptyProposals == Empty \in Proposals
<1>1. {} \in SUBSET Actions /\ Empty \in [{} -> Proposal]
    BY DEF Empty
<1> QED
    BY <1>1, ProposalsIntro

\* Nothing is pending at first.
LEMMA InitInv == Init => Inv
<1> SUFFICES ASSUME Init PROVE Inv
    OBVIOUS
<1>1. TypeOK
    BY EmptyProposals, TTLAssumption DEF Init, TypeOK, Empty
<1>2. StoredInv
    BY DEF Init, StoredInv, Empty
<1>3. HeldInv
    BY DEF Init, HeldInv, Busy
<1>4. RunsInv
    <2>1. \A a \in Actions : runs[a] = 0
        BY DEF Init
    <2>2. \A n : n = 0 => n <= 1
        OBVIOUS
    <2> QED BY <2>1, <2>2, Zenon DEF RunsInv
<1> QED
    BY <1>1, <1>2, <1>3, <1>4 DEF Inv

\* Every step keeps the invariant.
LEMMA StepInv == Inv /\ [Next]_vars => Inv'
<1> SUFFICES ASSUME Inv, [Next]_vars PROVE Inv'
    OBVIOUS
<1>a. Web \in Procs /\ Mcp \in Procs
    BY DEF Procs
<1>1. ASSUME NEW p \in Procs, Propose(p) PROVE Inv'
    BY <1>1, CreateStep DEF Propose
<1>2. ASSUME NEW p \in Procs, Refuse(p) PROVE Inv'
    BY <1>2, EvictStep, LiveStored DEF Refuse
<1>3. ASSUME NEW p \in Procs, Restart(p) PROVE Inv'
    <2>1. /\ store' \in [Procs -> Proposals]
          /\ \A q \in Procs : store'[q] \in {Empty, store[q]}
        BY <1>3, EmptyProposals DEF Restart, Inv, TypeOK
    <2>2. /\ call' \in [Calls -> Call \cup {Idle}]
          /\ \A c \in Calls : call'[c] \in {Idle, call[c]}
        BY <1>3 DEF Restart, Inv, TypeOK
    <2> QED BY <1>3, <2>1, <2>2, EndStep DEF Restart
<1>4. ASSUME NEW c \in Calls, ConfirmChat(c) PROVE Inv'
    <2>1. PICK a \in Live(Web), person \in Persons :
            Claim(c, Web, a, person, AnyTool, store[Web][a].input)
        BY <1>4 DEF ConfirmChat
    <2>2. store[Web][a].input \in Inputs
        <3>1. store[Web] \in Proposals /\ a \in DOMAIN store[Web]
            BY <1>a, LiveStored DEF Inv, TypeOK
        <3>2. store[Web][a] \in Proposal
            BY <3>1, ProposalsElim
        <3> QED BY <3>2 DEF Proposal
    <2> QED BY <1>4, <1>a, <2>1, <2>2, ClaimStep DEF ConfirmChat
<1>5. ASSUME NEW c \in Calls, ConfirmMcp(c) PROVE Inv'
    BY <1>5, <1>a, ClaimStep DEF ConfirmMcp
<1>6. ASSUME NEW c \in Calls, Execute(c) PROVE Inv'
    BY <1>6, ExecuteStep
<1>7. ASSUME NEW c \in Calls, Fail(c) PROVE Inv'
    <2>1. /\ call' \in [Calls -> Call \cup {Idle}]
          /\ \A d \in Calls : call'[d] \in {Idle, call[d]}
        BY <1>7 DEF Fail, Inv, TypeOK
    <2> QED BY <1>7, <2>1, EndStep DEF Fail, Inv, TypeOK
<1>8. ASSUME ConfirmStale PROVE Inv'
    BY <1>8, <1>a, <1>1 DEF ConfirmStale
<1>9. ASSUME Cancel PROVE Inv'
    BY <1>9, CancelStep
<1>10. ASSUME Tick PROVE Inv'
    <2>1. now' \in 0..MaxTime
        BY <1>10, TTLAssumption DEF Tick, Inv, TypeOK
    <2>2. TypeOK'
        BY <1>10, <2>1 DEF Tick, Inv, TypeOK
    <2> QED BY <1>10, <2>2 DEF Tick, Inv, StoredInv, HeldInv, RunsInv, Busy
<1>11. ASSUME UNCHANGED vars PROVE Inv'
    BY <1>11 DEF vars, Inv, TypeOK, StoredInv, HeldInv, RunsInv, Busy
<1> QED
    BY <1>1, <1>2, <1>3, <1>4, <1>5, <1>6, <1>7, <1>8, <1>9, <1>10, <1>11 DEF Next

\* So it holds throughout.
LEMMA Invariance == Spec => []Inv
    BY InitInv, StepInv, PTL DEF Spec

\* However calls, retries, restarts and expiries interleave, one confirmed
\* action runs at most once.
THEOREM AtMostOneRun == Spec => []RunsAtMostOnce
<1>1. Inv => RunsAtMostOnce
    BY DEF Inv, RunsInv, RunsAtMostOnce
<1> QED
    BY <1>1, Invariance, PTL

\* What the owner cancelled while it was pending never runs.
THEOREM CancelIsFinal == Spec => []CancelledNeverRuns
<1>1. Inv => CancelledNeverRuns
    <2> SUFFICES ASSUME Inv, NEW a \in cancelled
                 PROVE  runs[a] = 0 /\ \A c \in Calls : call[c] # Idle => call[c].action # a
        BY DEF CancelledNeverRuns
    <2>1. a \in Actions
        BY ProposalsElim DEF Inv, TypeOK
    <2> QED BY <2>1 DEF Inv, RunsInv, HeldInv, Busy
<1> QED
    BY <1>1, Invariance, PTL

\* A use case commits only for what its owner was shown and confirmed in time.
THEOREM OnlyWhatWasShown == Spec => OnlyPreviewsRun
<1>1. Inv /\ [Next]_vars => [RunsAsPreviewed]_vars
    <2> SUFFICES ASSUME Inv, Next PROVE RunsAsPreviewed
        OBVIOUS
    <2>1. ASSUME NEW c \in Calls, Execute(c) PROVE RunsAsPreviewed
        <3>1. Busy(c) /\ call[c].asked = call[c].claimed.input
              /\ \A a \in Actions : runs'[a] # runs[a] => a = call[c].action
            BY <2>1 DEF Execute, Busy, Inv, TypeOK
        <3> QED BY <3>1 DEF Inv, HeldInv, Busy, RunsAsPreviewed
    <2>2. CASE UNCHANGED runs
        BY <2>2 DEF RunsAsPreviewed
    <2> QED
        BY <2>1, <2>2 DEF Next, Propose, Refuse, Restart, ConfirmChat, ConfirmMcp,
                          Fail, ConfirmStale, Cancel, Tick
<1> QED
    BY <1>1, Invariance, PTL DEF Spec, OnlyPreviewsRun

\* A step that only narrows one store to a set keeps what that set has.
LEMMA NarrowedKeeps ==
    ASSUME Inv, NEW p \in Procs, NEW S, S \subseteq DOMAIN store[p], store' = Keep(p, S),
           NEW q \in Procs, NEW a \in Live(q) \ DOMAIN store'[q]
    PROVE  q = p /\ a \notin S
<1>1. a \in DOMAIN store[q]
    BY LiveStored
<1>2. store \in [Procs -> Proposals] /\ DOMAIN store'[p] = S
    BY KeepStored DEF Inv, TypeOK
<1>3. q # p => store'[q] = store[q]
    BY <1>2 DEF Keep
<1> QED
    BY <1>1, <1>2, <1>3

\* A claim takes only the action it hands to its owner.
LEMMA ClaimTakesOne ==
    ASSUME Inv, NEW c \in Calls, NEW p \in Procs, NEW b \in Live(p), NEW person, NEW tool,
           NEW asked, Claim(c, p, b, person, tool, asked)
    PROVE  KeptUntilClaimed
<1> DEFINE held == [busy |-> TRUE, proc |-> p, action |-> b, by |-> person,
                    claimed |-> store[p][b], asked |-> asked, at |-> now]
<1>1. /\ call[c] = Idle /\ store[p][b].person = person
      /\ store' = Keep(p, Live(p) \ {b}) /\ call' = [call EXCEPT ![c] = held]
    BY DEF Claim, Claimable
<1>2. Live(p) \subseteq DOMAIN store[p] /\ b \in DOMAIN store[p]
    BY LiveStored
<1>3. held # Idle /\ held.action = b /\ held.by = person
    BY DEF Idle
<1>4. person = shown[b].person
    BY <1>1, <1>2 DEF Inv, StoredInv
<1> HIDE DEF held
<1>5. call'[c] = held
    BY <1>1 DEF Inv, TypeOK
<1>6. ConsumedBy(c, b) /\ call'[c].by = shown[b].person
    BY <1>1, <1>3, <1>4, <1>5 DEF ConsumedBy
<1>7. \A q \in Procs : \A a \in Live(q) \ DOMAIN store'[q] : a = b
    <2> TAKE q \in Procs
    <2> TAKE a \in Live(q) \ DOMAIN store'[q]
    <2>1. q = p /\ a \notin Live(p) \ {b}
        <3> DEFINE S == Live(p) \ {b}
        <3>1. S \subseteq DOMAIN store[p] /\ store' = Keep(p, S)
            BY <1>1, <1>2
        <3> HIDE DEF S
        <3>2. q = p /\ a \notin S
            BY <3>1, NarrowedKeeps
        <3> QED BY <3>2 DEF S
    <2> QED BY <2>1
<1> QED
    BY <1>6, <1>7 DEF KeptUntilClaimed

\* A proposal adds to a store and takes nothing live from any.
LEMMA ProposalTakesNothing ==
    ASSUME Inv, NEW p \in Procs, Propose(p)
    PROVE  KeptUntilClaimed
<1>1. PICK person \in Persons, tool \in Tools, input \in Inputs : Create(p, person, tool, input)
    BY DEF Propose
<1> DEFINE proposal == [person |-> person, tool |-> tool, input |-> input, at |-> now]
<1>2. PICK a \in Actions :
        store' = [store EXCEPT ![p] =
                    [b \in Live(p) \cup {a} |-> IF b = a THEN proposal ELSE store[p][b]]]
    BY <1>1 DEF Create
<1>3. \A q \in Procs : Live(q) \subseteq DOMAIN store'[q]
    <2> TAKE q \in Procs
    <2>1. store \in [Procs -> Proposals] /\ Live(q) \subseteq DOMAIN store[q]
        BY LiveStored DEF Inv, TypeOK
    <2>2. CASE q = p
        BY <2>1, <2>2, <1>2
    <2>3. CASE q # p
        <3>1. store'[q] = store[q]
            BY <2>1, <2>3, <1>2
        <3> QED BY <2>1, <3>1
    <2> QED BY <2>2, <2>3
<1> QED
    BY <1>3 DEF KeptUntilClaimed

\* A refused claim or cancel leaves the action to its owner: what is live goes
\* from a store only by its owner's claim or cancel, or with the process.
THEOREM RefusalsLeavePending == Spec => RefusalKeepsPending
<1>1. Inv /\ [Next]_vars => [KeptUntilClaimed]_vars
    <2> SUFFICES ASSUME Inv, Next PROVE KeptUntilClaimed
        OBVIOUS
    <2>a. Web \in Procs /\ Mcp \in Procs
        BY DEF Procs
    <2>1. ASSUME NEW p \in Procs, Propose(p) PROVE KeptUntilClaimed
        BY <2>1, ProposalTakesNothing
    <2>2. ASSUME NEW p \in Procs, Refuse(p) PROVE KeptUntilClaimed
        <3>1. store' = Keep(p, Live(p)) /\ Live(p) \subseteq DOMAIN store[p]
            BY <2>2, LiveStored DEF Refuse
        <3>2. \A q \in Procs : \A a \in Live(q) \ DOMAIN store'[q] : q = p /\ a \notin Live(p)
            BY <3>1, NarrowedKeeps
        <3> QED BY <3>2 DEF KeptUntilClaimed
    <2>3. ASSUME NEW p \in Procs, Restart(p) PROVE KeptUntilClaimed
        <3>1. store \in [Procs -> Proposals] /\ store' = [store EXCEPT ![p] = Empty]
            BY <2>3 DEF Restart, Inv, TypeOK
        <3>2. Restarting(p)
            BY <2>3, <3>1 DEF Restart, Restarting
        <3>3. \A q \in Procs : q # p => Live(q) \subseteq DOMAIN store'[q]
            BY <3>1, LiveStored
        <3> QED BY <3>2, <3>3 DEF KeptUntilClaimed
    <2>4. ASSUME NEW c \in Calls, ConfirmChat(c) PROVE KeptUntilClaimed
        BY <2>4, <2>a, ClaimTakesOne DEF ConfirmChat
    <2>5. ASSUME NEW c \in Calls, ConfirmMcp(c) PROVE KeptUntilClaimed
        BY <2>5, <2>a, ClaimTakesOne DEF ConfirmMcp
    <2>6. ASSUME ConfirmStale PROVE KeptUntilClaimed
        BY <2>6, <2>a, <2>1 DEF ConfirmStale
    <2>7. ASSUME Cancel PROVE KeptUntilClaimed
        <3>1. PICK b \in Live(Web) :
                store' = Keep(Web, Live(Web) \ {b}) /\ cancelled' = cancelled \cup {b}
            BY <2>7 DEF Cancel
        <3> DEFINE S == Live(Web) \ {b}
        <3>2. S \subseteq DOMAIN store[Web] /\ store' = Keep(Web, S)
            BY <3>1, LiveStored
        <3> HIDE DEF S
        <3>3. \A q \in Procs : \A a \in Live(q) \ DOMAIN store'[q] : q = Web /\ a \notin S
            BY <3>2, <2>a, NarrowedKeeps
        <3>4. \A q \in Procs : \A a \in Live(q) \ DOMAIN store'[q] : a = b
            BY <3>3 DEF S
        <3>5. b \in cancelled'
            BY <3>1
        <3> QED BY <3>4, <3>5 DEF KeptUntilClaimed
    <2>8. CASE UNCHANGED store
        BY <2>8, LiveStored DEF KeptUntilClaimed
    <2> QED
        BY <2>1, <2>2, <2>3, <2>4, <2>5, <2>6, <2>7, <2>8 DEF Next, Execute, Fail, Tick
<1> QED
    BY <1>1, Invariance, PTL DEF Spec, RefusalKeepsPending
=============================================================================
