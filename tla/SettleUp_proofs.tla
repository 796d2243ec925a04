--------------------------- MODULE SettleUp_proofs ---------------------------
(* Theorems of SettleUp, for every value of its constants. *)
EXTENDS SettleUp, TLAPS

-----------------------------------------------------------------------------
(* Snapshots: partial functions from row ids to row contents. *)

\* A snapshot is a function on some set of rows.
LEMMA SnapshotIntro ==
    ASSUME NEW R \in SUBSET Rows, NEW f \in [R -> Content]
    PROVE  f \in Snapshots
BY DEF Snapshots

\* What is known of any snapshot.
LEMMA SnapshotElim ==
    ASSUME NEW f \in Snapshots
    PROVE  /\ DOMAIN f \subseteq Rows
           /\ f \in [DOMAIN f -> Content]
           /\ \A r \in DOMAIN f : f[r] \in Content
BY DEF Snapshots

\* The empty function is a snapshot.
LEMMA NothingIsSnapshot == Nothing \in Snapshots /\ DOMAIN Nothing = {}
BY DEF Nothing, Snapshots

\* An idle session's request is well formed.
LEMMA IdleIsRequest == Idle \in Request
BY NothingIsSnapshot DEF Idle, Request, Ops

\* Fetching stored rows gives a snapshot of them.
LEMMA FetchedType ==
    ASSUME tx \in Snapshots, NEW R \in SUBSET DOMAIN tx
    PROVE  /\ Fetched(R) \in Snapshots
           /\ DOMAIN Fetched(R) = R
           /\ MonthsOf(Fetched(R)) \in SUBSET Months
<1>1. R \subseteq Rows /\ Fetched(R) \in [R -> Content]
  BY SnapshotElim DEF Fetched
<1> QED
  BY <1>1, SnapshotIntro DEF MonthsOf, Content, Fetched

\* Raising or clearing the settlement flag of a snapshot gives a snapshot.
LEMMA FlaggedType ==
    ASSUME NEW f \in Snapshots, NEW flag \in BOOLEAN
    PROVE  Flagged(f, flag) \in Snapshots /\ DOMAIN Flagged(f, flag) = DOMAIN f
<1>1. Flagged(f, flag) \in [DOMAIN f -> Content]
  BY SnapshotElim DEF Flagged, Content
<1> QED
  BY <1>1, SnapshotElim, SnapshotIntro DEF Flagged

\* Writing the in-app columns, or all of them, keeps the stored ids.
LEMMA WritesType ==
    ASSUME tx \in Snapshots, NEW q \in Request
    PROVE  /\ Changed(q) \subseteq DOMAIN q.new => 
                /\ MutableFields(q) \in Snapshots
                /\ AllFields(q) \in Snapshots
           /\ DOMAIN MutableFields(q) = DOMAIN tx
           /\ DOMAIN AllFields(q) = DOMAIN tx
<1>1. ASSUME Changed(q) \subseteq DOMAIN q.new
      PROVE  MutableFields(q) \in [DOMAIN tx -> Content]
  <2> SUFFICES ASSUME NEW r \in DOMAIN tx, r \in Changed(q)
               PROVE  Rewritten(tx[r], q.new[r]) \in Content
    BY SnapshotElim DEF MutableFields
  <2>1. tx[r] \in Content /\ q.new[r] \in Content
    BY <1>1, SnapshotElim DEF Request
  <2> QED
    BY <2>1 DEF Content, Rewritten
<1>2. ASSUME Changed(q) \subseteq DOMAIN q.new
      PROVE  AllFields(q) \in [DOMAIN tx -> Content]
  BY <1>2, SnapshotElim DEF AllFields, Request
<1> QED
  BY <1>1, <1>2, SnapshotElim, SnapshotIntro DEF MutableFields, AllFields
-----------------------------------------------------------------------------
(* Type correctness and the integrity of links, whatever the interleaving *)

\* The operations that remove rows they fetched.
RemovingOps == {"upload", "join"}

\* What a request in flight has, beyond its type: it writes the rows it
\* fetched (an upload adds and removes rows, marking an account as joint removes
\* twins), and it names its settlement.
Shape ==
    \A s \in Sessions :
        /\ req[s].op \notin RemovingOps => DOMAIN req[s].new = DOMAIN req[s].seen
        /\ req[s].op = "join" => DOMAIN req[s].new \subseteq DOMAIN req[s].seen
        /\ req[s].op \in {"unlink", "delete"} => req[s].sid \in Settlements

TypeInv == TypeOK /\ Shape

\* Starting a well-formed request keeps the type invariant.
LEMMA StartType ==
    ASSUME TypeInv, NEW s \in Sessions,
           NEW op \in Ops, NEW stage \in {"loaded", "checked"},
           NEW seen \in Snapshots, NEW new \in Snapshots,
           NEW sid \in Settlements \cup {NoId}, NEW months \in SUBSET Months,
           op \notin RemovingOps => DOMAIN new = DOMAIN seen,
           op = "join" => DOMAIN new \subseteq DOMAIN seen,
           op \in {"unlink", "delete"} => sid \in Settlements,
           Start(s, op, stage, seen, new, sid, months)
    PROVE  TypeInv'
<1> DEFINE q == [op |-> op, stage |-> stage, seen |-> seen,
                 new |-> new, sid |-> sid, months |-> months]
<1>1. q \in Request
  BY DEF Request
<1>2. req' = [req EXCEPT ![s] = q] /\ req \in [Sessions -> Request]
  BY DEF Start, TypeInv, TypeOK
<1>3. req' \in [Sessions -> Request]
  BY <1>1, <1>2
<1>4. TypeOK'
  BY <1>3 DEF TypeInv, TypeOK, Start
<1>5. Shape'
  BY <1>2 DEF TypeInv, Shape
<1> QED
  BY <1>4, <1>5 DEF TypeInv

\* So does starting one that fetches stored rows to set their flag.
LEMMA StartFlagging ==
    ASSUME TypeInv, NEW s \in Sessions, NEW op \in Ops,
           NEW R \in SUBSET DOMAIN tx, NEW flag \in BOOLEAN,
           NEW sid \in Settlements \cup {NoId},
           op \in {"unlink", "delete"} => sid \in Settlements,
           Start(s, op, "loaded", Fetched(R), Flagged(Fetched(R), flag), sid,
                 MonthsOf(Fetched(R)))
    PROVE  TypeInv'
<1>1. tx \in Snapshots
  BY DEF TypeInv, TypeOK
<1>2. /\ Fetched(R) \in Snapshots
      /\ MonthsOf(Fetched(R)) \in SUBSET Months
  BY <1>1, FetchedType
<1>3. /\ Flagged(Fetched(R), flag) \in Snapshots
      /\ DOMAIN Flagged(Fetched(R), flag) = DOMAIN Fetched(R)
  BY <1>2, FlaggedType
<1> QED
  BY <1>2, <1>3, StartType

\* What a file writes: the rows it adds as they are parsed, and of the stored
\* rows it changes the split.
Imported(added, changed, parsed, split) ==
    [r \in added \cup changed |->
        IF r \in added THEN parsed[r] ELSE [tx[r] EXCEPT !.split = split[r]]]

\* What marking an account as joint writes of the rows it keeps, and unmarking
\* it of the rows it returns.
Joined(R, kept) ==
    [r \in kept |-> [Fetched(R)[r] EXCEPT !.payer = Joint, !.settle = FALSE]]
Returned(R, home, split) ==
    [r \in R |-> [Fetched(R)[r] EXCEPT !.payer = home[r], !.split = split[r]]]

\* Every first step of a request keeps the type invariant.
LEMMA FetchType ==
    ASSUME TypeInv, NEW s \in Sessions, Fetch(s)
    PROVE  TypeInv'
<1> USE DEF Ops
<1>1. tx \in Snapshots /\ DOMAIN tx \subseteq Rows /\ DOMAIN settlement \subseteq Settlements
  BY SnapshotElim DEF TypeInv, TypeOK
<1>2. CASE FetchRecord(s)
  <2>1. PICK R \in SUBSET DOMAIN tx :
           Start(s, "record", "loaded", Fetched(R), Flagged(Fetched(R), TRUE),
                 NoId, MonthsOf(Fetched(R)))
    BY <1>2 DEF FetchRecord
  <2>2. "record" \in Ops
    OBVIOUS
  <2> QED
    BY <2>1, <2>2, <1>1, StartFlagging
<1>3. CASE FetchMark(s)
  <2>1. PICK r \in DOMAIN tx, k \in DOMAIN settlement \cup {NoId} :
           Start(s, "mark", "loaded", Fetched({r}), Flagged(Fetched({r}), TRUE),
                 k, MonthsOf(Fetched({r})))
    BY <1>3 DEF FetchMark
  <2>2. {r} \in SUBSET DOMAIN tx
    OBVIOUS
  <2> QED
    BY <2>1, <2>2, <1>1, StartFlagging
<1>4. CASE FetchUnmark(s)
  <2>1. PICK r \in DOMAIN tx :
           Start(s, "unmark", "loaded", Fetched({r}), Flagged(Fetched({r}), FALSE),
                 NoId, MonthsOf(Fetched({r})))
    BY <1>4 DEF FetchUnmark
  <2>2. {r} \in SUBSET DOMAIN tx
    OBVIOUS
  <2> QED
    BY <2>1, <2>2, <1>1, StartFlagging
<1>5. CASE FetchUnlink(s)
  <2>1. PICK r \in DOMAIN tx, k \in DOMAIN settlement :
           Start(s, "unlink", "loaded", Fetched({r}), Flagged(Fetched({r}), FALSE),
                 k, MonthsOf(Fetched({r})))
    BY <1>5 DEF FetchUnlink
  <2>2. {r} \in SUBSET DOMAIN tx
    OBVIOUS
  <2> QED
    BY <2>1, <2>2, <1>1, StartFlagging
<1>6. CASE FetchDelete(s)
  <2>1. PICK k \in DOMAIN settlement :
           Start(s, "delete", "loaded", Fetched(LegsOf(k) \cap DOMAIN tx),
                 Flagged(Fetched(LegsOf(k) \cap DOMAIN tx), FALSE), k,
                 MonthsOf(Fetched(LegsOf(k) \cap DOMAIN tx)))
    BY <1>6 DEF FetchDelete
  <2>2. (LegsOf(k) \cap DOMAIN tx) \in SUBSET DOMAIN tx
    OBVIOUS
  <2> QED
    BY <2>1, <2>2, <1>1, StartFlagging
<1>7. CASE FetchSplits(s)
  <2>0. PICK R \in SUBSET DOMAIN tx : \E split \in [R -> Splits] :
           Start(s, "edit", "loaded", Fetched(R),
                 [r \in R |-> [Fetched(R)[r] EXCEPT !.split = split[r]]],
                 NoId, MonthsOf(Fetched(R)))
    BY <1>7 DEF FetchSplits
  <2>1. PICK split \in [R -> Splits] :
           Start(s, "edit", "loaded", Fetched(R),
                 [r \in R |-> [Fetched(R)[r] EXCEPT !.split = split[r]]],
                 NoId, MonthsOf(Fetched(R)))
    BY <2>0
  <2>2. [r \in R |-> [Fetched(R)[r] EXCEPT !.split = split[r]]] \in [R -> Content]
    BY <1>1, SnapshotElim DEF Fetched, Content
  <2> QED
    BY <2>1, <2>2, <1>1, FetchedType, SnapshotIntro, StartType
<1>8. CASE FetchBulk(s)
  <2>1. PICK R \in SUBSET DOMAIN tx, v \in Splits :
           Start(s, "edit", "loaded", Fetched(R),
                 [r \in R |-> [Fetched(R)[r] EXCEPT !.split = v]],
                 NoId, MonthsOf(Fetched(R)))
    BY <1>8 DEF FetchBulk
  <2>2. [r \in R |-> [Fetched(R)[r] EXCEPT !.split = v]] \in [R -> Content]
    BY <1>1, SnapshotElim DEF Fetched, Content
  <2> QED
    BY <2>1, <2>2, <1>1, FetchedType, SnapshotIntro, StartType
<1>9. CASE FetchRewrite(s)
  <2>1. PICK r \in DOMAIN tx, c \in Content :
           Start(s, "editAll", "loaded", Fetched({r}), [x \in {r} |-> c], NoId,
                 MonthsOf(Fetched({r})) \cup MonthsOf([x \in {r} |-> c]))
    BY <1>9 DEF FetchRewrite
  <2>2. [x \in {r} |-> c] \in [{r} -> Content]
    OBVIOUS
  <2>3. MonthsOf([x \in {r} |-> c]) \subseteq Months
    BY DEF MonthsOf, Content
  <2>4. /\ Fetched({r}) \in Snapshots /\ DOMAIN Fetched({r}) = {r}
        /\ MonthsOf(Fetched({r})) \in SUBSET Months
    BY <1>1, FetchedType
  <2>5. [x \in {r} |-> c] \in Snapshots
    BY <2>2, <1>1, SnapshotIntro
  <2>6. (MonthsOf(Fetched({r})) \cup MonthsOf([x \in {r} |-> c])) \in SUBSET Months
    BY <2>3, <2>4
  <2>7. DOMAIN [x \in {r} |-> c] = DOMAIN Fetched({r})
    BY <2>4
  <2> QED
    BY <2>1, <2>4, <2>5, <2>6, <2>7, StartType
<1>10. CASE FetchUpload(s)
  <2>0. PICK p \in Persons, covered \in SUBSET Months, added \in SUBSET Rows,
             changed \in SUBSET DOMAIN tx, removed \in SUBSET DOMAIN tx :
           \E parsed \in [added -> Parsed(p, covered)], split \in [changed -> Splits] :
               Start(s, "upload", "loaded", Fetched(changed \cup removed),
                     Imported(added, changed, parsed, split), NoId,
                     covered \cup MonthsOf(Fetched(changed \cup removed)))
    BY <1>10 DEF FetchUpload, Imported
  <2>1. PICK parsed \in [added -> Parsed(p, covered)], split \in [changed -> Splits] :
           Start(s, "upload", "loaded", Fetched(changed \cup removed),
                 Imported(added, changed, parsed, split), NoId,
                 covered \cup MonthsOf(Fetched(changed \cup removed)))
    BY <2>0
  <2> DEFINE new == Imported(added, changed, parsed, split)
  <2>2. new \in Snapshots
    <3>1. \A r \in added : parsed[r] \in Content
      BY DEF Parsed, Content
    <3>2. \A r \in changed : [tx[r] EXCEPT !.split = split[r]] \in Content
      BY <1>1, SnapshotElim DEF Content
    <3>3. new \in [added \cup changed -> Content]
      BY <3>1, <3>2 DEF Imported
    <3>4. added \cup changed \subseteq Rows
      BY <1>1
    <3> QED
      BY <3>3, <3>4, SnapshotIntro
  <2> HIDE DEF new
  <2>3. /\ Fetched(changed \cup removed) \in Snapshots
        /\ MonthsOf(Fetched(changed \cup removed)) \in SUBSET Months
    BY <1>1, FetchedType
  <2>4. (covered \cup MonthsOf(Fetched(changed \cup removed))) \in SUBSET Months
    BY <2>3
  <2>5. Start(s, "upload", "loaded", Fetched(changed \cup removed), new, NoId,
              covered \cup MonthsOf(Fetched(changed \cup removed)))
    BY <2>1 DEF new
  <2> QED
    BY <2>2, <2>3, <2>4, <2>5, StartType DEF RemovingOps
<1>13. CASE FetchJoin(s)
  <2>1. PICK R \in SUBSET DOMAIN tx, kept \in SUBSET DOMAIN tx :
           /\ kept \subseteq R
           /\ Start(s, "join", "loaded", Fetched(R), Joined(R, kept), NoId,
                    MonthsOf(Fetched(R)))
    BY <1>13 DEF FetchJoin, Joined
  <2>2. Joined(R, kept) \in [kept -> Content]
    <3>1. \A r \in kept : Fetched(R)[r] \in Content
      BY <1>1, <2>1, SnapshotElim DEF Fetched
    <3> QED
      BY <3>1 DEF Joined, Content
  <2>3. kept \in SUBSET Rows
    BY <1>1
  <2>4. DOMAIN Joined(R, kept) = kept /\ Joined(R, kept) \in Snapshots
    BY <2>2, <2>3, SnapshotIntro
  <2>5. /\ Fetched(R) \in Snapshots /\ DOMAIN Fetched(R) = R
        /\ MonthsOf(Fetched(R)) \in SUBSET Months
    BY <1>1, FetchedType
  <2> QED
    BY <2>1, <2>4, <2>5, StartType DEF RemovingOps
<1>14. CASE FetchUnjoin(s)
  <2>1. PICK R \in SUBSET DOMAIN tx :
           \E home \in [R -> Persons], split \in [R -> Splits] :
               Start(s, "unjoin", "loaded", Fetched(R), Returned(R, home, split), NoId,
                     MonthsOf(Fetched(R)))
    BY <1>14 DEF FetchUnjoin, Returned
  <2>2. PICK home \in [R -> Persons], split \in [R -> Splits] :
           Start(s, "unjoin", "loaded", Fetched(R), Returned(R, home, split), NoId,
                 MonthsOf(Fetched(R)))
    BY <2>1
  <2>3. Returned(R, home, split) \in [R -> Content]
    <3>1. \A r \in R : /\ Fetched(R)[r] \in Content
                       /\ home[r] \in Persons /\ split[r] \in Splits
      BY <1>1, <2>2, SnapshotElim DEF Fetched
    <3> QED
      BY <3>1 DEF Returned, Content
  <2>4. DOMAIN Returned(R, home, split) = R /\ Returned(R, home, split) \in Snapshots
    BY <1>1, <2>3, SnapshotIntro
  <2>5. /\ Fetched(R) \in Snapshots /\ DOMAIN Fetched(R) = R
        /\ MonthsOf(Fetched(R)) \in SUBSET Months
    BY <1>1, FetchedType
  <2> QED
    BY <2>2, <2>4, <2>5, StartType
<1>11. CASE FetchFinalize(s)
  <2>1. PICK m \in Months :
           Start(s, IF period[m] = "absent" THEN "finalizeNew" ELSE "finalize",
                 "checked", Nothing, Nothing, NoId, {m})
    BY <1>11 DEF FetchFinalize
  <2> QED
    BY <2>1, NothingIsSnapshot, StartType
<1>12. CASE FetchUnfinalize(s)
  <2>1. PICK m \in Months :
           Start(s, "unfinalize", "checked", Nothing, Nothing, NoId, {m})
    BY <1>12 DEF FetchUnfinalize
  <2> QED
    BY <2>1, NothingIsSnapshot, StartType
<1> QED
  BY <1>2, <1>3, <1>4, <1>5, <1>6, <1>7, <1>8, <1>9, <1>10, <1>11, <1>12, <1>13,
     <1>14 DEF Fetch
\* A session that ends its request is idle, the others are unaffected.
LEMMA FinishType ==
    ASSUME TypeInv, NEW s \in Sessions, Finish(s)
    PROVE  req' \in [Sessions -> Request] /\ Shape'
<1>1. req \in [Sessions -> Request] /\ req' = [req EXCEPT ![s] = Idle]
  BY DEF Finish, TypeInv, TypeOK
<1>2. req' \in [Sessions -> Request]
  BY <1>1, IdleIsRequest
<1>3. Shape'
  BY <1>1 DEF Shape, TypeInv, Idle
<1> QED
  BY <1>2, <1>3

\* What the writes of a request that only updates rows leave behind.
LEMMA UpdateType ==
    ASSUME TypeInv, NEW s \in Sessions, req[s].op \notin RemovingOps
    PROVE  /\ req[s] \in Request
           /\ DOMAIN req[s].seen \subseteq Rows
           /\ MutableFields(req[s]) \in Snapshots
           /\ AllFields(req[s]) \in Snapshots
           /\ DOMAIN MutableFields(req[s]) = DOMAIN tx
           /\ DOMAIN AllFields(req[s]) = DOMAIN tx
<1>1. req[s] \in Request /\ tx \in Snapshots
  BY DEF TypeInv, TypeOK
<1>2. DOMAIN req[s].new = DOMAIN req[s].seen
  BY DEF TypeInv, Shape
<1>3. Changed(req[s]) \subseteq DOMAIN req[s].new
  BY <1>2 DEF Changed
<1>4. DOMAIN req[s].seen \subseteq Rows
  BY <1>1, SnapshotElim DEF Request
<1> QED
  BY <1>1, <1>3, <1>4, WritesType

\* The links are consistent with the tables and with each other.
LinkInv == OneSettlementPerRow /\ NoDanglingLinks

\* Recording a settlement: the new links are of a new settlement and of rows
\* that are stored and free.
LEMMA RecordStep ==
    ASSUME TypeInv, LinkInv, NEW s \in Sessions, CommitRecord(s)
    PROVE  TypeInv' /\ LinkInv'
<1> DEFINE q == req[s]
           legs == DOMAIN q.seen
<1>0. q.op = "record" /\ Finish(s) /\ tx' = MutableFields(q) /\ logged' = {}
      /\ legs \subseteq DOMAIN tx /\ legs \cap LinkedRows = {} /\ period' = period
  BY DEF CommitRecord, Ready
<1>1. PICK k \in Settlements \ issued, p \in Persons :
        /\ settlement' = [x \in DOMAIN settlement \cup {k} |->
                             IF x = k THEN p ELSE settlement[x]]
        /\ links' = links \cup ({k} \X legs)
        /\ issued' = issued \cup {k}
  BY DEF CommitRecord, ImpliedSenders
<1>2. /\ legs \subseteq Rows /\ tx' \in Snapshots /\ DOMAIN tx' = DOMAIN tx
  BY <1>0, UpdateType DEF RemovingOps
<1>3. req' \in [Sessions -> Request] /\ Shape'
  BY <1>0, FinishType
<1>4. TypeOK'
  BY <1>0, <1>1, <1>2, <1>3 DEF TypeInv, TypeOK
<1>5. OneSettlementPerRow'
  BY <1>0, <1>1 DEF LinkInv, OneSettlementPerRow, NoDanglingLinks, LinkedRows, TypeInv, TypeOK
<1>6. NoDanglingLinks'
  BY <1>0, <1>1, <1>2 DEF LinkInv, NoDanglingLinks
<1> QED
  BY <1>3, <1>4, <1>5, <1>6 DEF TypeInv, LinkInv

\* Marking a row, with or without a settlement to link it to.
LEMMA MarkStep ==
    ASSUME TypeInv, LinkInv, NEW s \in Sessions, CommitMark(s)
    PROVE  TypeInv' /\ LinkInv'
<1> DEFINE q == req[s]
<1>0. /\ q.op = "mark" /\ Finish(s) /\ tx' = MutableFields(q) /\ logged' = {}
      /\ UNCHANGED <<settlement, period, issued>>
      /\ q.sid # NoId => Linkable(q.sid, DOMAIN q.seen)
      /\ links' = IF q.sid = NoId THEN links ELSE links \cup ({q.sid} \X DOMAIN q.seen)
  BY DEF CommitMark, Ready
<1>1. /\ DOMAIN q.seen \subseteq Rows /\ tx' \in Snapshots /\ DOMAIN tx' = DOMAIN tx
  BY <1>0, UpdateType DEF RemovingOps
<1>2. req' \in [Sessions -> Request] /\ Shape'
  BY <1>0, FinishType
<1>3. q.sid # NoId => q.sid \in Settlements
  BY <1>0, UpdateType DEF Request, RemovingOps
<1>4. TypeOK'
  BY <1>0, <1>1, <1>2, <1>3 DEF TypeInv, TypeOK
<1>5. LinkInv'
  BY <1>0, <1>1, <1>3
     DEF LinkInv, OneSettlementPerRow, NoDanglingLinks, Linkable, LinkedRows
<1> QED
  BY <1>2, <1>4, <1>5 DEF TypeInv

\* Commits that only remove links and update rows: unmark, unlink.
LEMMA DetachStep ==
    ASSUME TypeInv, LinkInv, NEW s \in Sessions, CommitUnmark(s) \/ CommitUnlink(s)
    PROVE  TypeInv' /\ LinkInv'
<1> DEFINE q == req[s]
<1>0. /\ q.op \notin RemovingOps /\ Finish(s) /\ logged' = {}
      /\ tx' = MutableFields(q) \/ tx' = tx
      /\ links' \subseteq links
      /\ UNCHANGED <<settlement, period, issued>>
  BY DEF CommitUnmark, CommitUnlink, Ready, RemovingOps
<1>1. tx' \in Snapshots /\ DOMAIN tx' = DOMAIN tx
  BY <1>0, UpdateType DEF TypeInv, TypeOK
<1>2. req' \in [Sessions -> Request] /\ Shape'
  BY <1>0, FinishType
<1>3. TypeOK'
  BY <1>0, <1>1, <1>2 DEF TypeInv, TypeOK
<1>4. LinkInv'
  BY <1>0, <1>1 DEF LinkInv, OneSettlementPerRow, NoDanglingLinks
<1> QED
  BY <1>2, <1>3, <1>4 DEF TypeInv

\* Deleting a settlement drops every link of it, the ones made meanwhile too.
LEMMA DeleteStep ==
    ASSUME TypeInv, LinkInv, NEW s \in Sessions, CommitDelete(s)
    PROVE  TypeInv' /\ LinkInv'
<1> DEFINE q == req[s]
<1>0. /\ q.op = "delete" /\ Finish(s) /\ logged' = {} /\ tx' = MutableFields(q)
      /\ links' = {l \in links : l[1] # q.sid}
      /\ settlement' = [k \in DOMAIN settlement \ {q.sid} |-> settlement[k]]
      /\ UNCHANGED <<period, issued>>
  BY DEF CommitDelete, Ready
<1>1. tx' \in Snapshots /\ DOMAIN tx' = DOMAIN tx
  BY <1>0, UpdateType DEF RemovingOps
<1>2. req' \in [Sessions -> Request] /\ Shape'
  BY <1>0, FinishType
<1>3. TypeOK'
  BY <1>0, <1>1, <1>2 DEF TypeInv, TypeOK
<1>4. LinkInv'
  BY <1>0, <1>1 DEF LinkInv, OneSettlementPerRow, NoDanglingLinks
<1> QED
  BY <1>2, <1>3, <1>4 DEF TypeInv

\* An edit logs what it changed and leaves the links alone.
LEMMA EditStep ==
    ASSUME TypeInv, LinkInv, NEW s \in Sessions, CommitEdit(s)
    PROVE  TypeInv' /\ LinkInv'
<1> DEFINE q == req[s]
<1>0. /\ q.op \notin RemovingOps /\ Finish(s)
      /\ tx' = MutableFields(q) \/ tx' = AllFields(q)
      /\ logged' = {[row |-> r, old |-> q.seen[r], new |-> q.new[r]] : r \in Changed(q)}
      /\ UNCHANGED <<settlement, links, period, issued>>
  BY DEF CommitEdit, Ready, RemovingOps
<1>1. tx' \in Snapshots /\ DOMAIN tx' = DOMAIN tx
  BY <1>0, UpdateType DEF RemovingOps
<1>2. req' \in [Sessions -> Request] /\ Shape'
  BY <1>0, FinishType
<1>3. logged' \subseteq Edits
  <2>1. q \in Request /\ DOMAIN q.new = DOMAIN q.seen
    BY <1>0, UpdateType DEF TypeInv, Shape
  <2>2. \A r \in DOMAIN q.seen : r \in Rows /\ q.seen[r] \in Content /\ q.new[r] \in Content
    BY <2>1, SnapshotElim DEF Request
  <2> QED
    BY <1>0, <2>2 DEF Edits, Changed
<1>4. TypeOK'
  BY <1>0, <1>1, <1>2, <1>3 DEF TypeInv, TypeOK
<1>5. LinkInv'
  BY <1>0, <1>1 DEF LinkInv, OneSettlementPerRow, NoDanglingLinks
<1> QED
  BY <1>2, <1>4, <1>5 DEF TypeInv

\* An upload drops the links of the rows it removes.
LEMMA UploadStep ==
    ASSUME TypeInv, LinkInv, NEW s \in Sessions, CommitUpload(s)
    PROVE  TypeInv' /\ LinkInv'
<1> DEFINE q == req[s]
           added == DOMAIN q.new \ DOMAIN q.seen
           removed == DOMAIN q.seen \ DOMAIN q.new
<1>0. /\ Finish(s) /\ logged' = {}
      /\ tx' = [r \in (DOMAIN tx \cup added) \ removed |->
                   IF r \in added THEN q.new[r]
                   ELSE IF r \in DOMAIN q.new
                        THEN [tx[r] EXCEPT !.payer = q.new[r].payer,
                                           !.split = SplitAfter(tx[r], q.new[r])]
                        ELSE tx[r]]
      /\ links' = {l \in links : l[2] \notin removed}
      /\ issued' = issued \cup added
      /\ UNCHANGED <<settlement, period>>
  BY DEF CommitUpload
<1>1. req' \in [Sessions -> Request] /\ Shape'
  BY <1>0, FinishType
<1>2. /\ q.new \in Snapshots /\ DOMAIN q.new \subseteq Rows
      /\ \A r \in DOMAIN q.new : q.new[r] \in Content
      /\ DOMAIN tx \subseteq Rows /\ \A r \in DOMAIN tx : tx[r] \in Content
  BY SnapshotElim DEF TypeInv, TypeOK, Request
<1>3. tx' \in [(DOMAIN tx \cup added) \ removed -> Content]
  <2> SUFFICES ASSUME NEW r \in DOMAIN tx, r \in DOMAIN q.new
               PROVE  [tx[r] EXCEPT !.payer = q.new[r].payer,
                                    !.split = SplitAfter(tx[r], q.new[r])] \in Content
    BY <1>0, <1>2
  <2>1. SplitAfter(tx[r], q.new[r]) \in Splits
    BY <1>2, SplitsAssumption DEF SplitAfter, Content
  <2> QED
    BY <1>2, <2>1 DEF Content
<1>4. tx' \in Snapshots
  BY <1>2, <1>3, SnapshotIntro
<1>5. TypeOK'
  BY <1>0, <1>1, <1>2, <1>3, <1>4 DEF TypeInv, TypeOK
<1>6. LinkInv'
  BY <1>0, <1>3 DEF LinkInv, OneSettlementPerRow, NoDanglingLinks
<1> QED
  BY <1>1, <1>5, <1>6 DEF TypeInv

\* Marking an account as joint drops the links of the twins it removes.
LEMMA MoveStep ==
    ASSUME TypeInv, LinkInv, NEW s \in Sessions, CommitMove(s)
    PROVE  TypeInv' /\ LinkInv'
<1> DEFINE q == req[s]
           dropped == DOMAIN q.seen \ DOMAIN q.new
<1>0. /\ Finish(s) /\ logged' = {}
      /\ tx' = [r \in DOMAIN tx \ dropped |->
                   IF r \in DOMAIN q.new THEN Rewritten(tx[r], q.new[r]) ELSE tx[r]]
      /\ links' = {l \in links : l[2] \notin dropped}
      /\ UNCHANGED <<settlement, period, issued>>
  BY DEF CommitMove
<1>1. req' \in [Sessions -> Request] /\ Shape'
  BY <1>0, FinishType
<1>2. /\ \A r \in DOMAIN q.new : q.new[r] \in Content
      /\ DOMAIN tx \subseteq Rows /\ \A r \in DOMAIN tx : tx[r] \in Content
  BY SnapshotElim DEF TypeInv, TypeOK, Request
<1>3. tx' \in [DOMAIN tx \ dropped -> Content]
  <2> SUFFICES ASSUME NEW r \in DOMAIN tx, r \in DOMAIN q.new
               PROVE  Rewritten(tx[r], q.new[r]) \in Content
    BY <1>0, <1>2
  <2> QED
    BY <1>2 DEF Content, Rewritten
<1>4. tx' \in Snapshots
  BY <1>2, <1>3, SnapshotIntro
<1>5. TypeOK'
  BY <1>0, <1>1, <1>3, <1>4 DEF TypeInv, TypeOK
<1>6. LinkInv'
  BY <1>0, <1>3 DEF LinkInv, OneSettlementPerRow, NoDanglingLinks
<1> QED
  BY <1>1, <1>5, <1>6 DEF TypeInv

\* Locking and unlocking a month touches the periods only.
LEMMA PeriodStep ==
    ASSUME TypeInv, LinkInv, NEW s \in Sessions,
           CommitFinalize(s) \/ CommitUnfinalize(s)
    PROVE  TypeInv' /\ LinkInv'
<1>0. /\ Finish(s) /\ logged' = {}
      /\ period' \in [Months -> {"absent", "open", "locked"}]
      /\ UNCHANGED <<tx, settlement, links, issued>>
  BY DEF CommitFinalize, CommitUnfinalize, TypeInv, TypeOK
<1>1. req' \in [Sessions -> Request] /\ Shape'
  BY <1>0, FinishType
<1>2. TypeOK'
  BY <1>0, <1>1 DEF TypeInv, TypeOK
<1>3. LinkInv'
  BY <1>0 DEF LinkInv, OneSettlementPerRow, NoDanglingLinks
<1> QED
  BY <1>1, <1>2, <1>3 DEF TypeInv

\* Every step of every request keeps the types and the links consistent.
LEMMA DbStep ==
    ASSUME TypeInv, LinkInv, [Next]_vars
    PROVE  TypeInv' /\ LinkInv'
<1>1. CASE UNCHANGED vars
  BY <1>1 DEF vars, TypeInv, TypeOK, Shape, LinkInv, OneSettlementPerRow, NoDanglingLinks
<1>2. ASSUME NEW s \in Sessions, Fetch(s)
      PROVE  TypeInv' /\ LinkInv'
  <2>1. UNCHANGED <<tx, settlement, links, period, issued>>
    BY <1>2 DEF Fetch, FetchRecord, FetchMark, FetchUnmark, FetchUnlink, FetchDelete,
                FetchSplits, FetchBulk, FetchRewrite, FetchUpload, FetchJoin,
                FetchUnjoin, FetchFinalize, FetchUnfinalize, Start
  <2> QED
    BY <1>2, <2>1, FetchType DEF LinkInv, OneSettlementPerRow, NoDanglingLinks
<1>3. ASSUME NEW s \in Sessions, Check(s)
      PROVE  TypeInv' /\ LinkInv'
  <2>1. /\ UNCHANGED <<tx, settlement, links, period, issued>> /\ logged' = {}
        /\ req' = [req EXCEPT ![s].stage = "checked"]
    BY <1>3 DEF Check
  <2>2. req' \in [Sessions -> Request] /\ Shape'
    BY <2>1 DEF TypeInv, TypeOK, Request, Shape
  <2> QED
    BY <2>1, <2>2 DEF TypeInv, TypeOK, LinkInv, OneSettlementPerRow, NoDanglingLinks
<1>4. ASSUME NEW s \in Sessions, Abort(s)
      PROVE  TypeInv' /\ LinkInv'
  BY <1>4, FinishType
     DEF Abort, TypeInv, TypeOK, LinkInv, OneSettlementPerRow, NoDanglingLinks
<1>5. ASSUME NEW s \in Sessions, Commit(s)
      PROVE  TypeInv' /\ LinkInv'
  BY <1>5, RecordStep, MarkStep, DetachStep, DeleteStep, EditStep, UploadStep,
     MoveStep, PeriodStep DEF Commit
<1> QED
  BY <1>1, <1>2, <1>3, <1>4, <1>5 DEF Next

\* The empty database satisfies all of it.
LEMMA DbInit == Init => TypeInv /\ LinkInv
<1> SUFFICES ASSUME Init PROVE TypeInv /\ LinkInv
  OBVIOUS
<1>1. req \in [Sessions -> Request] /\ Shape
  BY IdleIsRequest DEF Init, Shape, Idle
<1>2. TypeOK
  BY <1>1, NothingIsSnapshot DEF Init, TypeOK
<1> QED
  BY <1>1, <1>2 DEF Init, TypeInv, LinkInv, OneSettlementPerRow, NoDanglingLinks

\* Every column and every request in flight keeps its type, for any number of
\* concurrent requests.
THEOREM TypeCorrect == Spec => []TypeOK
<1>1. TypeInv /\ LinkInv /\ [Next]_vars => (TypeInv /\ LinkInv)'
  BY DbStep
<1>2. TypeInv => TypeOK
  BY DEF TypeInv
<1> QED
  BY DbInit, <1>1, <1>2, PTL DEF Spec

\* A row never belongs to two settlements, for any number of concurrent
\* requests: record and mark may check the same free row, and one commits.
THEOREM LinksUnique == Spec => []OneSettlementPerRow
<1>1. TypeInv /\ LinkInv /\ [Next]_vars => (TypeInv /\ LinkInv)'
  BY DbStep
<1>2. LinkInv => OneSettlementPerRow
  BY DEF LinkInv
<1> QED
  BY DbInit, <1>1, <1>2, PTL DEF Spec

\* A link never outlives its settlement or its row, for any number of
\* concurrent requests, re-uploads and deletions included.
THEOREM LinksGrounded == Spec => []NoDanglingLinks
<1>1. TypeInv /\ LinkInv /\ [Next]_vars => (TypeInv /\ LinkInv)'
  BY DbStep
<1>2. LinkInv => NoDanglingLinks
  BY DEF LinkInv
<1> QED
  BY DbInit, <1>1, <1>2, PTL DEF Spec

-----------------------------------------------------------------------------
(* The database implements the abstract registry of links, for any number of *)
(* concurrent requests.                                                      *)
owners == [r \in Rows |-> OwnerOf(r)]

\* The refinement mapping says what the link table says.
OwnerMap ==
    \A r \in Rows :
        /\ OwnerOf(r) \in Settlements \cup {NoId}
        /\ \A k \in Settlements : <<k, r>> \in links <=> OwnerOf(r) = k

\* It does because a row has at most one link.
LEMMA OwnerMapping == LinkInv => OwnerMap
<1> SUFFICES ASSUME LinkInv, NEW r \in Rows
             PROVE  /\ OwnerOf(r) \in Settlements \cup {NoId}
                    /\ \A k \in Settlements : <<k, r>> \in links <=> OwnerOf(r) = k
  BY DEF OwnerMap
<1>1. CASE r \in LinkedRows
  <2>1. PICK k \in Settlements : <<k, r>> \in links
    BY <1>1 DEF LinkedRows
  <2>2. \A j \in Settlements : <<j, r>> \in links <=> j = k
    BY <2>1 DEF LinkInv, OneSettlementPerRow
  <2>3. OwnerOf(r) = k
    BY <1>1, <2>1, <2>2 DEF OwnerOf
  <2> QED
    BY <2>1, <2>2, <2>3
<1>2. CASE r \notin LinkedRows
  BY <1>2, NoIdAssumption DEF OwnerOf, LinkedRows
<1> QED
  BY <1>1, <1>2

\* The step links the rows of R to k only (to nothing if k is NoId) and leaves
\* the links of the other rows alone.
Moved(R, k) ==
    \A r \in Rows, j \in Settlements :
        <<j, r>> \in links' <=> IF r \in R THEN j = k ELSE <<j, r>> \in links

\* Such a step shows in the mapping: the rows of R get the owner k.
LEMMA OwnersGiven ==
    ASSUME OwnerMap, OwnerMap', NEW R, NEW k \in Settlements \cup {NoId},
           Moved(R, k)
    PROVE  owners' = [r \in Rows |-> IF r \in R THEN k ELSE owners[r]]
<1>1. ASSUME NEW r \in Rows
      PROVE  OwnerOf(r)' = IF r \in R THEN k ELSE OwnerOf(r)
  <2>1. \A j \in Settlements :
           OwnerOf(r)' = j <=> IF r \in R THEN j = k ELSE OwnerOf(r) = j
    BY DEF OwnerMap, Moved
  <2>2. /\ OwnerOf(r) \in Settlements \cup {NoId}
        /\ OwnerOf(r)' \in Settlements \cup {NoId}
    BY DEF OwnerMap
  <2> QED
    BY <2>1, <2>2, NoIdAssumption
<1> QED
  BY <1>1 DEF owners

\* A step that leaves the tables of the registry alone is a stutter of it.
LEMMA RegistryStutter ==
    ASSUME UNCHANGED <<tx, settlement, links>>
    PROVE  UNCHANGED Registry!vars
<1>1. owners' = owners
  BY DEF owners, OwnerOf, LinkedRows
<1> QED
  BY <1>1 DEF Registry!vars, owners

\* Every commit is a step of the registry or a stutter.
LEMMA RegistryCommit ==
    ASSUME TypeInv, LinkInv, TypeInv', LinkInv', NEW s \in Sessions, Commit(s)
    PROVE  [Registry!Next]_(Registry!vars)
<1> DEFINE q == req[s]
<1>1. OwnerMap /\ OwnerMap'
  <2>1. OwnerMap
    BY OwnerMapping
  <2>2. (LinkInv => OwnerMap)'
    BY OwnerMapping, PTL
  <2> QED
    BY <2>1, <2>2
<1>2. /\ DOMAIN tx \subseteq Rows /\ DOMAIN settlement \subseteq Settlements
      /\ DOMAIN settlement \subseteq issued /\ DOMAIN tx \subseteq issued
      /\ DOMAIN q.seen \subseteq Rows /\ DOMAIN q.new \subseteq Rows
      /\ q.sid \in Settlements \cup {NoId}
      /\ links \subseteq Settlements \X Rows
  BY SnapshotElim DEF TypeInv, TypeOK, Request
<1>3. \A r \in Rows : r \notin LinkedRows => owners[r] = NoId
  BY DEF owners, OwnerOf
<1>4. /\ DOMAIN MutableFields(q) = DOMAIN tx
      /\ DOMAIN AllFields(q) = DOMAIN tx
  BY DEF MutableFields, AllFields
<1>5. CASE CommitRecord(s)
  <2> DEFINE legs == DOMAIN q.seen
  <2>1. PICK k \in Settlements \ issued, p \in Persons :
          /\ settlement' = [x \in DOMAIN settlement \cup {k} |->
                               IF x = k THEN p ELSE settlement[x]]
          /\ links' = links \cup ({k} \X legs)
    BY <1>5 DEF CommitRecord, ImpliedSenders
  <2>2. legs \subseteq DOMAIN tx /\ legs \cap LinkedRows = {} /\ DOMAIN tx' = DOMAIN tx
    BY <1>4, <1>5 DEF CommitRecord
  <2>3. Moved(legs, k)
    BY <2>1, <2>2 DEF LinkedRows, Moved
  <2>4. owners' = [r \in Rows |-> IF r \in legs THEN k ELSE owners[r]]
    BY <1>1, <2>3, OwnersGiven
  <2>5. Registry!Open(k, legs)
    BY <1>2, <1>3, <2>1, <2>2, <2>4
       DEF Registry!Open, Registry!Unowned, Registry!Give, owners
  <2> QED
    BY <1>2, <2>5 DEF Registry!Next
<1>6. CASE CommitMark(s) /\ q.sid # NoId
  <2> DEFINE legs == DOMAIN q.seen
  <2>1. /\ links' = links \cup ({q.sid} \X legs) /\ Linkable(q.sid, legs)
        /\ DOMAIN tx' = DOMAIN tx /\ settlement' = settlement
    BY <1>4, <1>6 DEF CommitMark
  <2>2. Moved(legs, q.sid)
    BY <2>1 DEF LinkedRows, Linkable, Moved
  <2>3. owners' = [r \in Rows |-> IF r \in legs THEN q.sid ELSE owners[r]]
    BY <1>1, <1>2, <2>2, OwnersGiven
  <2>4. Registry!Attach(q.sid, legs)
    BY <1>2, <1>3, <2>1, <2>3
       DEF Linkable, Registry!Attach, Registry!Unowned, Registry!Give, owners
  <2> QED
    BY <1>2, <1>6, <2>4 DEF Registry!Next
<1>7. ASSUME NEW R \in SUBSET Rows,
             DOMAIN tx' = DOMAIN tx, settlement' = settlement,
             Moved(R, NoId)
      PROVE  Registry!Next
  <2>1. owners' = [r \in Rows |-> IF r \in R THEN NoId ELSE owners[r]]
    BY <1>1, <1>7, OwnersGiven, NoIdAssumption
  <2>2. Registry!Detach(R)
    BY <1>7, <2>1 DEF Registry!Detach, Registry!Give, owners
  <2> QED
    BY <2>2 DEF Registry!Next
<1>8. CASE CommitUnmark(s)
  <2>1. DOMAIN tx' = DOMAIN tx /\ settlement' = settlement
    BY <1>4, <1>8 DEF CommitUnmark
  <2>2. Moved(DOMAIN q.seen, NoId)
    BY <1>8, NoIdAssumption DEF CommitUnmark, Moved
  <2> QED
    BY <1>2, <1>7, <2>1, <2>2
<1>9. CASE CommitUnlink(s)
  <2> DEFINE R == {r \in DOMAIN q.seen : <<q.sid, r>> \in links}
  <2>1. DOMAIN tx' = DOMAIN tx /\ settlement' = settlement
    BY <1>4, <1>9 DEF CommitUnlink
  <2>2. links' = links \ ({q.sid} \X DOMAIN q.seen)
    BY <1>9 DEF CommitUnlink
  <2>3. q.sid \in Settlements
    BY <1>9 DEF CommitUnlink, Ready, TypeInv, Shape
  <2>4. Moved(R, NoId)
    BY <2>2, <2>3, NoIdAssumption DEF LinkInv, OneSettlementPerRow, Moved
  <2>5. R \in SUBSET Rows
    BY <1>2
  <2> QED
    BY <1>7, <2>1, <2>4, <2>5
<1>10. CASE CommitDelete(s)
  <2> DEFINE R == {r \in Rows : owners[r] = q.sid}
  <2>1. /\ links' = {l \in links : l[1] # q.sid}
        /\ DOMAIN settlement' = DOMAIN settlement \ {q.sid}
        /\ DOMAIN tx' = DOMAIN tx
    BY <1>4, <1>10 DEF CommitDelete
  <2>2. q.sid \in Settlements
    BY <1>10 DEF CommitDelete, Ready, TypeInv, Shape
  <2>3. Moved(R, NoId)
    BY <1>1, <2>1, <2>2, NoIdAssumption DEF OwnerMap, owners, Moved
  <2>4. owners' = [r \in Rows |-> IF r \in R THEN NoId ELSE owners[r]]
    BY <1>1, <2>3, OwnersGiven
  <2>5. Registry!Close(q.sid)
    BY <2>1, <2>4 DEF Registry!Close, Registry!Give, owners
  <2> QED
    BY <2>2, <2>5 DEF Registry!Next
<1>11. CASE CommitUpload(s)
  <2> DEFINE added == DOMAIN q.new \ DOMAIN q.seen
             removed == DOMAIN q.seen \ DOMAIN q.new
  <2>1. /\ links' = {l \in links : l[2] \notin removed}
        /\ DOMAIN tx' = (DOMAIN tx \cup added) \ removed
        /\ settlement' = settlement
    BY <1>11 DEF CommitUpload
  <2>2. Moved(removed, NoId)
    BY <2>1, NoIdAssumption DEF Moved
  <2>3. owners' = [r \in Rows |-> IF r \in removed THEN NoId ELSE owners[r]]
    BY <1>1, <2>2, OwnersGiven
  <2>4. Registry!Replace(added, removed)
    BY <2>1, <2>3 DEF Registry!Replace, Registry!Give, owners
  <2> QED
    BY <1>2, <2>4 DEF Registry!Next
<1>13. CASE CommitMove(s)
  <2> DEFINE dropped == DOMAIN q.seen \ DOMAIN q.new
  <2>1. /\ links' = {l \in links : l[2] \notin dropped}
        /\ DOMAIN tx' = (DOMAIN tx \cup {}) \ dropped
        /\ settlement' = settlement
    BY <1>13 DEF CommitMove
  <2>2. Moved(dropped, NoId)
    BY <2>1, NoIdAssumption DEF Moved
  <2>3. owners' = [r \in Rows |-> IF r \in dropped THEN NoId ELSE owners[r]]
    BY <1>1, <2>2, OwnersGiven
  <2>4. Registry!Replace({}, dropped)
    BY <2>1, <2>3 DEF Registry!Replace, Registry!Give, owners
  <2> QED
    BY <1>2, <2>4 DEF Registry!Next
<1>12. CASE \/ CommitMark(s) /\ q.sid = NoId
            \/ CommitEdit(s) \/ CommitFinalize(s) \/ CommitUnfinalize(s)
  <2>1. DOMAIN tx' = DOMAIN tx /\ UNCHANGED <<settlement, links>>
    BY <1>4, <1>12 DEF CommitMark, CommitEdit, CommitFinalize, CommitUnfinalize
  <2>2. owners' = owners
    BY <2>1 DEF owners, OwnerOf, LinkedRows
  <2> QED
    BY <2>1, <2>2 DEF Registry!vars, owners
<1> QED
  BY <1>5, <1>6, <1>8, <1>9, <1>10, <1>11, <1>12, <1>13 DEF Commit

\* However many requests interleave, the settlements and links of the database
\* behave as the registry: a row is owned by one open settlement or free, it is
\* freed before another settlement takes it, closing a settlement frees its
\* rows, and a removed row has no owner.
THEOREM RegistryImplemented == Spec => ImplementsRegistry
<1>1. Init => Registry!Init
  <2> SUFFICES ASSUME Init PROVE Registry!Init
    OBVIOUS
  <2>1. \A r \in Rows : OwnerOf(r) = NoId
    BY DEF Init, OwnerOf, LinkedRows
  <2> QED
    BY <2>1, NothingIsSnapshot DEF Init, Registry!Init
<1>2. TypeInv /\ LinkInv /\ [Next]_vars => (TypeInv /\ LinkInv)'
  BY DbStep
<1>3. TypeInv /\ LinkInv /\ (TypeInv /\ LinkInv)' /\ [Next]_vars
        => [Registry!Next]_(Registry!vars)
  <2> SUFFICES ASSUME TypeInv, LinkInv, TypeInv', LinkInv', [Next]_vars
               PROVE  [Registry!Next]_(Registry!vars)
    OBVIOUS
  <2>1. CASE UNCHANGED vars
    BY <2>1, RegistryStutter DEF vars
  <2>2. ASSUME NEW s \in Sessions, Fetch(s) \/ Check(s) \/ Abort(s)
        PROVE  UNCHANGED Registry!vars
    <3>1. UNCHANGED <<tx, settlement, links>>
      BY <2>2 DEF Fetch, FetchRecord, FetchMark, FetchUnmark, FetchUnlink,
                  FetchDelete, FetchSplits, FetchBulk, FetchRewrite, FetchUpload,
                  FetchJoin, FetchUnjoin, FetchFinalize, FetchUnfinalize, Start, Check, Abort
    <3> QED
      BY <3>1, RegistryStutter
  <2>3. CASE \E s \in Sessions : Commit(s)
    BY <2>3, RegistryCommit
  <2> QED
    BY <2>1, <2>2, <2>3 DEF Next
<1> QED
  BY DbInit, <1>1, <1>2, <1>3, PTL DEF Spec, ImplementsRegistry, Registry!Spec

=============================================================================
