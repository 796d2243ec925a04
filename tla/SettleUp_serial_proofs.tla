----------------------- MODULE SettleUp_serial_proofs -----------------------
(***************************************************************************)
(* What SettleUp guarantees when requests run one after the other.  With a *)
(* second request in flight none of it is promised: in the run stale_flag  *)
(* an edit that fetched a row before it was linked writes the old flag     *)
(* back, and the linked leg counts in the split math again.                *)
(***************************************************************************)
EXTENDS SettleUp_proofs

\* At most one request is in flight.
OneAtATime == \A s, t \in Sessions : s = t

PeriodOps == {"finalize", "finalizeNew", "unfinalize"}
EditOps == {"edit", "editAll"}
MoveOps == {"join", "unjoin"}

\* What the database still is when a request that nobody interrupts commits:
\* the rows it fetched are as it fetched them, the months it checked are
\* unlocked, and it writes what its operation is about.
Fresh(s) ==
    LET q == req[s] IN
    /\ \A r \in DOMAIN q.seen : r \in DOMAIN tx /\ tx[r] = q.seen[r]
    /\ q.op \notin PeriodOps =>
          /\ \A r \in DOMAIN q.seen : q.seen[r].month \in q.months
          /\ \A r \in DOMAIN q.new : q.new[r].month \in q.months
    /\ q.stage = "checked" /\ q.op \notin PeriodOps =>
          \A m \in q.months : period[m] # "locked"
    /\ q.op \in {"record", "mark"} => \A r \in DOMAIN q.new : q.new[r].settle
    /\ q.op \in EditOps =>
          \A r \in DOMAIN q.seen : q.new[r].settle = q.seen[r].settle
    /\ q.op \notin EditOps \cup MoveOps \cup {"upload"} =>
          \A r \in DOMAIN q.seen : q.new[r].split = q.seen[r].split
    /\ q.op \in MoveOps =>
          \A r \in DOMAIN q.new : /\ r \in DOMAIN q.seen
                                  /\ q.new[r].split \in Shares(q.seen[r].split)
    /\ q.op = "unjoin" => \A r \in DOMAIN q.seen : q.new[r].settle = q.seen[r].settle
    /\ q.op = "join" /\ q.stage = "checked" => DOMAIN q.seen \cap LinkedRows = {}
    /\ q.op = "delete" => DOMAIN q.seen \subseteq LegsOf(q.sid)

AllFresh == \A s \in Sessions : Fresh(s)

SerialInv == TypeInv /\ LinkInv /\ AllFresh /\ LinkedLegsExcluded

\* A session at rest has nothing that could be stale.
LEMMA IdleFresh ==
    ASSUME NEW s \in Sessions, req[s] = Idle
    PROVE  Fresh(s)
BY DEF Fresh, Idle, Nothing, PeriodOps, EditOps, MoveOps

\* Flagging fetched rows keeps their months and splits.
LEMMA FlaggingFresh ==
    ASSUME TypeInv, NEW R \in SUBSET DOMAIN tx, NEW flag \in BOOLEAN
    PROVE  LET seen == Fetched(R)
               new == Flagged(seen, flag)
           IN  /\ DOMAIN seen = R /\ DOMAIN new = R
               /\ \A r \in R : /\ seen[r] = tx[r]
                               /\ seen[r].month \in MonthsOf(seen)
                               /\ new[r].month \in MonthsOf(seen)
                               /\ new[r].settle = flag
                               /\ new[r].split = seen[r].split
<1>1. \A r \in R : tx[r] \in Content
  BY SnapshotElim DEF TypeInv, TypeOK
<1> QED
  BY <1>1 DEF Fetched, Flagged, MonthsOf, Content

\* What makes a request that starts fresh.
LEMMA StartFresh ==
    ASSUME TypeInv, NEW s \in Sessions, NEW op, NEW stage, NEW seen, NEW new,
           NEW sid, NEW months, Start(s, op, stage, seen, new, sid, months),
           \A r \in DOMAIN seen : r \in DOMAIN tx /\ tx[r] = seen[r],
           op \in PeriodOps \/ stage = "loaded",
           op \notin PeriodOps =>
               /\ \A r \in DOMAIN seen : seen[r].month \in months
               /\ \A r \in DOMAIN new : new[r].month \in months,
           op \in {"record", "mark"} => \A r \in DOMAIN new : new[r].settle,
           op \in EditOps => \A r \in DOMAIN seen : new[r].settle = seen[r].settle,
           op \notin EditOps \cup MoveOps \cup {"upload"} =>
               \A r \in DOMAIN seen : new[r].split = seen[r].split,
           op \in MoveOps =>
               \A r \in DOMAIN new : /\ r \in DOMAIN seen
                                     /\ new[r].split \in Shares(seen[r].split),
           op = "unjoin" => \A r \in DOMAIN seen : new[r].settle = seen[r].settle,
           op = "delete" => DOMAIN seen \subseteq LegsOf(sid)
    PROVE  Fresh(s)'
<1>1. UNCHANGED <<tx, links, period>>
  BY DEF Start
<1>2. /\ req'[s].op = op /\ req'[s].stage = stage /\ req'[s].seen = seen
      /\ req'[s].new = new /\ req'[s].sid = sid /\ req'[s].months = months
  BY DEF Start, TypeInv, TypeOK
<1>3. op = "delete" => DOMAIN seen \subseteq LegsOf(sid)'
  BY <1>1 DEF LegsOf
<1>4. stage = "checked" => op \in PeriodOps
  OBVIOUS
<1>5. op = "join" => op \notin PeriodOps
  BY DEF PeriodOps
<1> QED
  BY <1>1, <1>2, <1>3, <1>4, <1>5 DEF Fresh

\* A request that starts by flagging the rows it fetches is fresh.
LEMMA FlaggingStart ==
    ASSUME TypeInv, NEW s \in Sessions,
           NEW op \in {"record", "mark", "unmark", "unlink", "delete"},
           NEW R \in SUBSET DOMAIN tx, NEW flag \in BOOLEAN, NEW sid,
           op \in {"record", "mark"} => flag,
           op = "delete" => R \subseteq LegsOf(sid),
           Start(s, op, "loaded", Fetched(R), Flagged(Fetched(R), flag), sid,
                 MonthsOf(Fetched(R)))
    PROVE  Fresh(s)'
<1> DEFINE seen == Fetched(R)
           new == Flagged(seen, flag)
<1>1. /\ DOMAIN seen = R /\ DOMAIN new = R
      /\ \A r \in R : /\ seen[r] = tx[r]
                      /\ seen[r].month \in MonthsOf(seen)
                      /\ new[r].month \in MonthsOf(seen)
                      /\ new[r].settle = flag
                      /\ new[r].split = seen[r].split
  BY FlaggingFresh
<1>2. op \notin PeriodOps /\ op \notin EditOps /\ op \notin MoveOps /\ op # "unjoin"
  BY DEF PeriodOps, EditOps, MoveOps
<1> HIDE DEF seen, new
<1>3. Start(s, op, "loaded", seen, new, sid, MonthsOf(seen))
  BY DEF seen, new
<1> QED
  BY <1>1, <1>2, <1>3, StartFresh

\* A request that starts is fresh.
LEMMA FetchFresh ==
    ASSUME TypeInv, NEW s \in Sessions, Fetch(s)
    PROVE  Fresh(s)'
<1>1. \A r \in DOMAIN tx : tx[r] \in Content
  BY SnapshotElim DEF TypeInv, TypeOK
<1>2. ASSUME NEW R \in SUBSET DOMAIN tx
      PROVE  /\ DOMAIN Fetched(R) = R
             /\ \A r \in R : /\ Fetched(R)[r] = tx[r]
                             /\ tx[r].month \in MonthsOf(Fetched(R))
  BY DEF Fetched, MonthsOf
<1>3. CASE FetchRecord(s)
  <2>1. PICK R \in SUBSET DOMAIN tx :
           Start(s, "record", "loaded", Fetched(R), Flagged(Fetched(R), TRUE),
                 NoId, MonthsOf(Fetched(R)))
    BY <1>3 DEF FetchRecord
  <2> QED
    BY <2>1, FlaggingStart
<1>4. CASE FetchMark(s)
  <2>1. PICK r \in DOMAIN tx, k \in DOMAIN settlement \cup {NoId} :
           Start(s, "mark", "loaded", Fetched({r}), Flagged(Fetched({r}), TRUE),
                 k, MonthsOf(Fetched({r})))
    BY <1>4 DEF FetchMark
  <2>2. {r} \in SUBSET DOMAIN tx
    OBVIOUS
  <2> QED
    BY <2>1, <2>2, FlaggingStart
<1>12. CASE FetchUnmark(s)
  <2>1. PICK r \in DOMAIN tx :
           Start(s, "unmark", "loaded", Fetched({r}), Flagged(Fetched({r}), FALSE),
                 NoId, MonthsOf(Fetched({r})))
    BY <1>12 DEF FetchUnmark
  <2>2. {r} \in SUBSET DOMAIN tx
    OBVIOUS
  <2> QED
    BY <2>1, <2>2, FlaggingStart
<1>13. CASE FetchUnlink(s)
  <2>1. PICK r \in DOMAIN tx, k \in DOMAIN settlement :
           Start(s, "unlink", "loaded", Fetched({r}), Flagged(Fetched({r}), FALSE),
                 k, MonthsOf(Fetched({r})))
    BY <1>13 DEF FetchUnlink
  <2>2. {r} \in SUBSET DOMAIN tx
    OBVIOUS
  <2> QED
    BY <2>1, <2>2, FlaggingStart
<1>5. CASE FetchDelete(s)
  <2>1. PICK k \in DOMAIN settlement :
           Start(s, "delete", "loaded", Fetched(LegsOf(k) \cap DOMAIN tx),
                 Flagged(Fetched(LegsOf(k) \cap DOMAIN tx), FALSE), k,
                 MonthsOf(Fetched(LegsOf(k) \cap DOMAIN tx)))
    BY <1>5 DEF FetchDelete
  <2>2. (LegsOf(k) \cap DOMAIN tx) \in SUBSET DOMAIN tx
    OBVIOUS
  <2> QED
    BY <2>1, <2>2, FlaggingStart
<1>6. ASSUME NEW R \in SUBSET DOMAIN tx, NEW split,
             Start(s, "edit", "loaded", Fetched(R),
                   [r \in R |-> [Fetched(R)[r] EXCEPT !.split = split[r]]],
                   NoId, MonthsOf(Fetched(R)))
      PROVE  Fresh(s)'
  <2> DEFINE new == [r \in R |-> [Fetched(R)[r] EXCEPT !.split = split[r]]]
  <2>1. /\ DOMAIN new = R
        /\ \A r \in R : new[r].month = tx[r].month /\ new[r].settle = tx[r].settle
    BY <1>1, <1>2 DEF Content
  <2> HIDE DEF new
  <2>2. Start(s, "edit", "loaded", Fetched(R), new, NoId, MonthsOf(Fetched(R)))
    BY <1>6 DEF new
  <2> QED
    BY <1>2, <2>1, <2>2, StartFresh DEF PeriodOps, EditOps, MoveOps
<1>7. CASE FetchSplits(s)
  <2>1. PICK R \in SUBSET DOMAIN tx : \E split \in [R -> Splits] :
           Start(s, "edit", "loaded", Fetched(R),
                 [r \in R |-> [Fetched(R)[r] EXCEPT !.split = split[r]]],
                 NoId, MonthsOf(Fetched(R)))
    BY <1>7 DEF FetchSplits
  <2> QED
    BY <2>1, <1>6
<1>8. CASE FetchBulk(s)
  <2>1. PICK R \in SUBSET DOMAIN tx, v \in Splits :
           Start(s, "edit", "loaded", Fetched(R),
                 [r \in R |-> [Fetched(R)[r] EXCEPT !.split = v]],
                 NoId, MonthsOf(Fetched(R)))
    BY <1>8 DEF FetchBulk
  <2>2. [r \in R |-> [Fetched(R)[r] EXCEPT !.split = v]]
          = [r \in R |-> [Fetched(R)[r] EXCEPT !.split = [x \in R |-> v][r]]]
    OBVIOUS
  <2> QED
    BY <2>1, <2>2, <1>6
<1>9. CASE FetchRewrite(s)
  <2>1. PICK r \in DOMAIN tx, c \in Content :
           /\ c.settle = tx[r].settle
           /\ Start(s, "editAll", "loaded", Fetched({r}), [x \in {r} |-> c], NoId,
                    MonthsOf(Fetched({r})) \cup MonthsOf([x \in {r} |-> c]))
    BY <1>9 DEF FetchRewrite
  <2> DEFINE new == [x \in {r} |-> c]
             months == MonthsOf(Fetched({r})) \cup MonthsOf(new)
  <2>2. /\ DOMAIN new = {r} /\ new[r].settle = tx[r].settle
        /\ new[r].month \in months
    BY <2>1 DEF MonthsOf
  <2>3. /\ DOMAIN Fetched({r}) = {r} /\ Fetched({r})[r] = tx[r]
        /\ tx[r].month \in months
    BY <1>2
  <2>4. Start(s, "editAll", "loaded", Fetched({r}), new, NoId, months)
    BY <2>1
  <2> HIDE DEF new, months
  <2> QED
    BY <2>2, <2>3, <2>4, StartFresh DEF PeriodOps, EditOps, MoveOps
<1>10. CASE FetchUpload(s)
  <2>1. PICK p \in Persons, covered \in SUBSET Months, added \in SUBSET (Rows \ issued),
             changed \in SUBSET DOMAIN tx, removed \in SUBSET DOMAIN tx :
           \E parsed \in [added -> Parsed(p, covered)], split \in [changed -> Splits] :
               Start(s, "upload", "loaded", Fetched(changed \cup removed),
                     Imported(added, changed, parsed, split), NoId,
                     covered \cup MonthsOf(Fetched(changed \cup removed)))
    BY <1>10 DEF FetchUpload, Imported
  <2>2. PICK parsed \in [added -> Parsed(p, covered)], split \in [changed -> Splits] :
           Start(s, "upload", "loaded", Fetched(changed \cup removed),
                 Imported(added, changed, parsed, split), NoId,
                 covered \cup MonthsOf(Fetched(changed \cup removed)))
    BY <2>1
  <2> DEFINE stored == changed \cup removed
             months == covered \cup MonthsOf(Fetched(stored))
             new == Imported(added, changed, parsed, split)
  <2>3. /\ DOMAIN Fetched(stored) = stored
        /\ \A r \in stored : Fetched(stored)[r] = tx[r] /\ tx[r].month \in months
    BY <1>2
  <2>4. /\ DOMAIN new = added \cup changed
        /\ \A r \in added : new[r].month \in covered
        /\ \A r \in changed \ added : new[r].month = tx[r].month
    BY <1>1 DEF Imported, Parsed, Content
  <2>5. \A r \in DOMAIN new : new[r].month \in months
    BY <2>3, <2>4
  <2>6. Start(s, "upload", "loaded", Fetched(stored), new, NoId, months)
    BY <2>2
  <2> HIDE DEF months, new
  <2> QED
    BY <2>3, <2>5, <2>6, StartFresh DEF PeriodOps, EditOps, MoveOps
<1>14. CASE FetchJoin(s)
  <2>1. PICK R \in SUBSET DOMAIN tx, kept \in SUBSET DOMAIN tx :
           /\ kept \subseteq R
           /\ Start(s, "join", "loaded", Fetched(R), Joined(R, kept), NoId,
                    MonthsOf(Fetched(R)))
    BY <1>14 DEF FetchJoin, Joined
  <2>2. \A r \in kept : tx[r].split \in Shares(tx[r].split)
    BY <1>1 DEF Shares, Content
  <2>3. /\ DOMAIN Joined(R, kept) = kept
        /\ \A r \in kept : /\ Joined(R, kept)[r].month = tx[r].month
                           /\ Joined(R, kept)[r].split = tx[r].split
    BY <1>1, <1>2, <2>1 DEF Joined, Content
  <2> QED
    BY <1>2, <2>1, <2>2, <2>3, StartFresh DEF PeriodOps, EditOps, MoveOps
<1>15. CASE FetchUnjoin(s)
  <2>1. PICK R \in SUBSET DOMAIN tx :
           \E home \in [R -> Persons], split \in [R -> Splits] :
               /\ \A r \in R : split[r] \in Shares(tx[r].split)
               /\ Start(s, "unjoin", "loaded", Fetched(R), Returned(R, home, split),
                        NoId, MonthsOf(Fetched(R)))
    BY <1>15 DEF FetchUnjoin, Returned
  <2>2. PICK home \in [R -> Persons], split \in [R -> Splits] :
           /\ \A r \in R : split[r] \in Shares(tx[r].split)
           /\ Start(s, "unjoin", "loaded", Fetched(R), Returned(R, home, split),
                    NoId, MonthsOf(Fetched(R)))
    BY <2>1
  <2>3. /\ DOMAIN Returned(R, home, split) = R
        /\ \A r \in R : /\ Returned(R, home, split)[r].month = tx[r].month
                        /\ Returned(R, home, split)[r].settle = tx[r].settle
                        /\ Returned(R, home, split)[r].split = split[r]
    BY <1>1, <1>2 DEF Returned, Content
  <2> QED
    BY <1>2, <2>2, <2>3, StartFresh DEF PeriodOps, EditOps, MoveOps
<1>11. CASE FetchFinalize(s) \/ FetchUnfinalize(s)
  <2>1. PICK m \in Months, op \in PeriodOps :
           Start(s, op, "checked", Nothing, Nothing, NoId, {m})
    BY <1>11 DEF FetchFinalize, FetchUnfinalize, PeriodOps
  <2>2. DOMAIN Nothing = {}
    BY DEF Nothing
  <2> QED
    BY <2>1, <2>2, StartFresh DEF PeriodOps, EditOps, MoveOps
<1> QED
  BY <1>3, <1>4, <1>5, <1>7, <1>8, <1>9, <1>10, <1>11, <1>12, <1>13,
     <1>14, <1>15 DEF Fetch
\* Commits end the only request in flight, so nothing is stale afterwards.
LEMMA FinishFresh ==
    ASSUME OneAtATime, TypeInv, NEW s \in Sessions, Finish(s)
    PROVE  AllFresh'
<1>1. \A t \in Sessions : req'[t] = Idle
  BY DEF OneAtATime, Finish, TypeInv, TypeOK
<1>2. ASSUME NEW t \in Sessions PROVE Fresh(t)'
  BY <1>1 DEF Fresh, Idle, Nothing, PeriodOps, EditOps, MoveOps
<1> QED
  BY <1>2 DEF AllFresh

\* What a commit of fresh writes does to a row it does or does not change.
LEMMA FreshWrites ==
    ASSUME TypeInv, AllFresh, NEW s \in Sessions, NEW r \in DOMAIN tx
    PROVE  LET q == req[s] IN
           /\ r \in Changed(q) => r \in DOMAIN q.seen /\ tx[r] = q.seen[r]
           /\ r \notin Changed(q) => MutableFields(q)[r] = tx[r] /\ AllFields(q)[r] = tx[r]
           /\ r \in Changed(q) =>
                /\ AllFields(q)[r] = q.new[r]
                /\ MutableFields(q)[r].split = q.new[r].split
                /\ MutableFields(q)[r].settle = q.new[r].settle
                /\ MutableFields(q)[r].month = tx[r].month
                /\ MutableFields(q)[r].amount = tx[r].amount
<1>1. Fresh(s)
  BY DEF AllFresh
<1>2. \A x \in Changed(req[s]) : x \in DOMAIN tx /\ tx[x] = req[s].seen[x]
  BY <1>1 DEF Fresh, Changed
<1>3. tx[r] \in Content
  BY SnapshotElim DEF TypeInv, TypeOK
<1> QED
  BY <1>2, <1>3 DEF Changed, MutableFields, AllFields, Rewritten, Content

\* Legs stay out of the split math when no other request interferes.
LEMMA LegsStep ==
    ASSUME TypeInv, LinkInv, AllFresh, LinkedLegsExcluded,
           NEW s \in Sessions, Commit(s)
    PROVE  LinkedLegsExcluded'
<1> DEFINE q == req[s]
<1>1. SUFFICES ASSUME NEW r \in Rows, NEW k \in Settlements,
                      <<k, r>> \in links', r \in DOMAIN tx'
               PROVE  tx'[r].settle
  BY DEF LinkedLegsExcluded, LinkedRows
<1>2. Fresh(s)
  BY DEF AllFresh
<1>3. r \in DOMAIN tx /\ <<k, r>> \in links => tx[r].settle
  BY DEF LinkedLegsExcluded, LinkedRows
<1>4. q \in Request /\ (q.op \notin RemovingOps => DOMAIN q.new = DOMAIN q.seen)
  BY DEF TypeInv, TypeOK, Shape
<1>5. CASE CommitRecord(s) \/ CommitMark(s)
  <2>1. /\ q.op \in {"record", "mark"} /\ tx' = MutableFields(q) /\ DOMAIN tx' = DOMAIN tx
        /\ <<k, r>> \in links \/ r \in DOMAIN q.seen
    <3>1. DOMAIN MutableFields(q) = DOMAIN tx
      BY DEF MutableFields
    <3>2. CASE CommitRecord(s)
      <4>1. PICK j \in Settlements : links' = links \cup ({j} \X DOMAIN q.seen)
        BY <3>2 DEF CommitRecord
      <4>2. q.op = "record" /\ tx' = MutableFields(q)
        BY <3>2 DEF CommitRecord, Ready
      <4> QED
        BY <1>1, <3>1, <4>1, <4>2
    <3>3. CASE CommitMark(s)
      <4>1. q.op = "mark" /\ tx' = MutableFields(q)
        BY <3>3 DEF CommitMark, Ready
      <4>2. links' = links \/ links' = links \cup ({q.sid} \X DOMAIN q.seen)
        BY <3>3 DEF CommitMark
      <4> QED
        BY <1>1, <3>1, <4>1, <4>2
    <3> QED
      BY <1>5, <3>2, <3>3
  <2>2. r \in DOMAIN q.seen => tx[r] = q.seen[r] /\ q.new[r].settle
    BY <1>2, <1>4, <2>1 DEF Fresh, RemovingOps
  <2>3. CASE r \in Changed(q)
    BY <1>1, <2>1, <2>2, <2>3, FreshWrites
  <2>4. CASE r \notin Changed(q)
    <3>1. tx'[r] = tx[r]
      BY <1>1, <2>1, <2>4, FreshWrites
    <3>2. r \in DOMAIN q.seen => q.new[r] = q.seen[r]
      BY <2>4 DEF Changed
    <3> QED
      BY <1>1, <1>3, <2>1, <2>2, <3>1, <3>2
  <2> QED
    BY <2>3, <2>4
<1>6. CASE CommitUnmark(s) \/ CommitUnlink(s)
  <2>1. /\ DOMAIN tx' = DOMAIN tx /\ <<k, r>> \in links
        /\ tx' = tx \/ (tx' = MutableFields(q) /\ r \notin DOMAIN q.seen)
    <3>1. DOMAIN MutableFields(q) = DOMAIN tx
      BY DEF MutableFields
    <3>2. CASE CommitUnmark(s)
      BY <1>1, <3>1, <3>2 DEF CommitUnmark
    <3>3. CASE CommitUnlink(s)
      <4>1. <<k, r>> \in links \ ({q.sid} \X DOMAIN q.seen)
        BY <1>1, <3>3 DEF CommitUnlink
      <4>2. (\A l \in links \ ({q.sid} \X DOMAIN q.seen) : l[2] \notin DOMAIN q.seen)
               => r \notin DOMAIN q.seen
        BY <4>1
      <4> QED
        BY <4>1, <4>2, <3>1, <3>3 DEF CommitUnlink
    <3> QED
      BY <1>6, <3>2, <3>3
  <2>2. r \notin DOMAIN q.seen => r \notin Changed(q)
    BY DEF Changed
  <2> QED
    BY <1>1, <1>3, <2>1, <2>2, FreshWrites
<1>7. CASE CommitDelete(s)
  <2>1. /\ DOMAIN tx' = DOMAIN tx /\ <<k, r>> \in links /\ k # q.sid
        /\ tx' = MutableFields(q) /\ q.op = "delete"
    BY <1>1, <1>7 DEF CommitDelete, Ready, MutableFields
  <2>2. r \notin DOMAIN q.seen
    <3>1. q.sid \in Settlements
      BY <2>1 DEF TypeInv, Shape
    <3> QED
      BY <1>2, <2>1, <3>1 DEF Fresh, LegsOf, LinkInv, OneSettlementPerRow
  <2>3. r \notin Changed(q)
    BY <2>2 DEF Changed
  <2> QED
    BY <1>1, <1>3, <2>1, <2>3, FreshWrites
<1>8. CASE CommitEdit(s)
  <2>1. /\ DOMAIN tx' = DOMAIN tx /\ links' = links /\ q.op \in EditOps
        /\ tx' = MutableFields(q) \/ tx' = AllFields(q)
    BY <1>8 DEF CommitEdit, Ready, MutableFields, AllFields, EditOps
  <2>2. r \in Changed(q) => q.new[r].settle = tx[r].settle
    BY <1>1, <1>2, <2>1, FreshWrites DEF Fresh
  <2> QED
    BY <1>1, <1>3, <2>1, <2>2, FreshWrites
<1>9. CASE CommitUpload(s)
  <2>1. <<k, r>> \in links /\ r \in DOMAIN tx
    BY <1>1, <1>9 DEF CommitUpload, LinkInv, NoDanglingLinks
  <2>2. tx[r] \in Content /\ DOMAIN tx \subseteq issued
    BY <2>1, SnapshotElim DEF TypeInv, TypeOK
  <2>3. tx'[r].settle = tx[r].settle
    BY <1>1, <1>9, <2>1, <2>2 DEF CommitUpload, Content
  <2> QED
    BY <1>3, <2>1, <2>3
<1>10. CASE CommitFinalize(s) \/ CommitUnfinalize(s)
  BY <1>1, <1>3, <1>10 DEF CommitFinalize, CommitUnfinalize
<1>11. CASE CommitMove(s)
  <2>1. /\ q.op \in MoveOps /\ q.stage = "checked"
        /\ <<k, r>> \in links /\ r \in DOMAIN tx
        /\ tx'[r] = IF r \in DOMAIN q.new THEN Rewritten(tx[r], q.new[r]) ELSE tx[r]
    BY <1>1, <1>11 DEF CommitMove, Ready, MoveOps
  <2>2. r \in LinkedRows
    BY <2>1 DEF LinkedRows
  <2>3. CASE r \in DOMAIN q.new
    <3>1. r \in DOMAIN q.seen /\ tx[r] = q.seen[r]
      BY <1>2, <2>1, <2>3 DEF Fresh
    <3>2. q.op = "unjoin"
      BY <1>2, <2>1, <2>2, <3>1 DEF Fresh, MoveOps
    <3>3. q.new[r].settle = tx[r].settle
      BY <1>2, <3>1, <3>2 DEF Fresh
    <3>4. tx[r] \in Content
      BY <2>1, SnapshotElim DEF TypeInv, TypeOK
    <3> QED
      BY <1>3, <2>1, <2>3, <3>3, <3>4 DEF Rewritten, Content
  <2> QED
    BY <1>3, <2>1, <2>3
<1> QED
  BY <1>5, <1>6, <1>7, <1>8, <1>9, <1>10, <1>11 DEF Commit

\* The inductive step of the serial invariant.
LEMMA SerialStep ==
    ASSUME OneAtATime, SerialInv, [Next]_vars
    PROVE  SerialInv'
<1>1. TypeInv' /\ LinkInv'
  BY DbStep DEF SerialInv
<1>2. CASE UNCHANGED vars
  <2>1. AllFresh'
    BY <1>2 DEF vars, SerialInv, AllFresh, Fresh, LegsOf, LinkedRows
  <2>2. LinkedLegsExcluded'
    BY <1>2 DEF vars, SerialInv, LinkedLegsExcluded, LinkedRows
  <2> QED
    BY <1>1, <2>1, <2>2 DEF SerialInv
<1>3. ASSUME NEW s \in Sessions, Fetch(s)
      PROVE  AllFresh' /\ LinkedLegsExcluded'
  <2>1. AllFresh'
    BY <1>3, FetchFresh DEF SerialInv, OneAtATime, AllFresh
  <2>2. UNCHANGED <<tx, links>>
    BY <1>3 DEF Fetch, FetchRecord, FetchMark, FetchUnmark, FetchUnlink, FetchDelete,
                FetchSplits, FetchBulk, FetchRewrite, FetchUpload, FetchJoin,
                FetchUnjoin, FetchFinalize, FetchUnfinalize, Start
  <2> QED
    BY <2>1, <2>2 DEF SerialInv, LinkedLegsExcluded, LinkedRows
<1>4. ASSUME NEW s \in Sessions, Check(s)
      PROVE  AllFresh' /\ LinkedLegsExcluded'
  <2>1. /\ UNCHANGED <<tx, settlement, links, period, issued>>
        /\ req' = [req EXCEPT ![s].stage = "checked"]
        /\ \A m \in req[s].months : period[m] # "locked"
        /\ req[s].op = "join" => DOMAIN req[s].seen \cap LinkedRows = {}
        /\ req \in [Sessions -> Request]
    BY <1>4 DEF Check, SerialInv, TypeInv, TypeOK
  <2>2. Fresh(s)
    BY DEF SerialInv, AllFresh
  <2>3. /\ req'[s].op = req[s].op /\ req'[s].seen = req[s].seen
        /\ req'[s].new = req[s].new /\ req'[s].sid = req[s].sid
        /\ req'[s].months = req[s].months
    <3>1. req'[s] = [req[s] EXCEPT !.stage = "checked"] /\ req[s] \in Request
      BY <2>1
    <3> QED
      BY <3>1 DEF Request
  <2>4. LegsOf(req[s].sid)' = LegsOf(req[s].sid) /\ LinkedRows' = LinkedRows
    BY <2>1, <2>3 DEF LegsOf, LinkedRows
  <2>5. Fresh(s)'
    BY <2>1, <2>2, <2>3, <2>4 DEF Fresh, LegsOf
  <2>6. AllFresh'
    BY <2>5 DEF OneAtATime, AllFresh
  <2> QED
    BY <2>1, <2>6 DEF SerialInv, LinkedLegsExcluded, LinkedRows
<1>5. ASSUME NEW s \in Sessions, Abort(s)
      PROVE  AllFresh' /\ LinkedLegsExcluded'
  BY <1>5, FinishFresh DEF Abort, SerialInv, LinkedLegsExcluded, LinkedRows
<1>6. ASSUME NEW s \in Sessions, Commit(s)
      PROVE  AllFresh' /\ LinkedLegsExcluded'
  <2>1. CASE CommitRecord(s) \/ CommitMark(s) \/ CommitUnmark(s) \/ CommitUnlink(s)
    BY <1>6, <2>1, FinishFresh, LegsStep
       DEF SerialInv, CommitRecord, CommitMark, CommitUnmark, CommitUnlink
  <2>2. CASE CommitDelete(s) \/ CommitEdit(s) \/ CommitUpload(s) \/ CommitMove(s)
    BY <1>6, <2>2, FinishFresh, LegsStep
       DEF SerialInv, CommitDelete, CommitEdit, CommitUpload, CommitMove
  <2>3. CASE CommitFinalize(s) \/ CommitUnfinalize(s)
    BY <1>6, <2>3, FinishFresh, LegsStep DEF SerialInv, CommitFinalize, CommitUnfinalize
  <2> QED
    BY <1>6, <2>1, <2>2, <2>3 DEF Commit
<1> QED
  BY <1>1, <1>2, <1>3, <1>4, <1>5, <1>6 DEF Next, SerialInv

\* The empty database satisfies the serial invariant.
LEMMA SerialInit == Init => SerialInv
<1> SUFFICES ASSUME Init PROVE SerialInv
  OBVIOUS
<1>1. AllFresh
  BY IdleFresh DEF Init, AllFresh
<1>2. LinkedLegsExcluded
  BY DEF Init, LinkedLegsExcluded, LinkedRows
<1> QED
  BY <1>1, <1>2, DbInit DEF SerialInv

\* When requests run one at a time, a leg of a recorded payment never counts
\* as an outstanding split, whatever is recorded, marked, unmarked, unlinked,
\* deleted, edited or re-uploaded and in which order.
THEOREM LegsExcludedSerially ==
    ASSUME OneAtATime
    PROVE  Spec => []LinkedLegsExcluded
<1>1. SerialInv /\ [Next]_vars => SerialInv'
  BY SerialStep
<1>2. SerialInv => LinkedLegsExcluded
  BY DEF SerialInv
<1> QED
  BY SerialInit, <1>1, <1>2, PTL DEF Spec
\* A commit that serves fresh data leaves the locked months alone.
LEMMA LockStep ==
    ASSUME SerialInv, [Next]_vars
    PROVE  [LocksHold]_vars
<1> SUFFICES ASSUME Next, NEW r \in Rows
             PROVE  /\ r \in DOMAIN tx /\ Locked(tx[r].month)
                          => r \in DOMAIN tx' /\ tx'[r] = tx[r]
                    /\ r \in DOMAIN tx' /\ Locked(tx'[r].month)
                          => r \in DOMAIN tx /\ tx'[r] = tx[r]
  BY DEF LocksHold
<1>1. PICK s \in Sessions : Fetch(s) \/ Check(s) \/ Abort(s) \/ Commit(s)
  BY DEF Next
<1> DEFINE q == req[s]
<1>2. Fresh(s) /\ TypeInv /\ AllFresh
  BY DEF SerialInv, AllFresh
<1>3. r \in DOMAIN tx => tx[r] \in Content
  BY <1>2, SnapshotElim DEF TypeInv, TypeOK
<1>4. CASE tx' = tx
  BY <1>4
<1>5. CASE q.op \notin RemovingOps /\ q.stage = "checked" /\ q.op \notin PeriodOps
           /\ (tx' = MutableFields(q) \/ tx' = AllFields(q))
  <2>1. DOMAIN tx' = DOMAIN tx
    BY <1>5 DEF MutableFields, AllFields
  <2>2. ASSUME r \in Changed(q), r \in DOMAIN tx
        PROVE  ~Locked(tx[r].month) /\ ~Locked(tx'[r].month)
    <3>1. r \in DOMAIN q.seen /\ tx[r] = q.seen[r]
      BY <1>2, <2>2, FreshWrites
    <3>2. r \in DOMAIN q.new
      BY <1>2, <1>5, <3>1 DEF TypeInv, Shape
    <3>3. q.seen[r].month \in q.months /\ q.new[r].month \in q.months
      BY <1>2, <1>5, <3>1, <3>2 DEF Fresh
    <3>4. tx'[r].month = tx[r].month \/ tx'[r].month = q.new[r].month
      BY <1>2, <1>5, <2>2, FreshWrites
    <3> QED
      BY <1>2, <1>5, <3>1, <3>3, <3>4 DEF Fresh, Locked
  <2>3. r \notin Changed(q) /\ r \in DOMAIN tx => tx'[r] = tx[r]
    BY <1>2, <1>5, FreshWrites
  <2> QED
    BY <2>1, <2>2, <2>3
<1>6. CASE CommitUpload(s)
  <2> DEFINE added == DOMAIN q.new \ DOMAIN q.seen
             removed == DOMAIN q.seen \ DOMAIN q.new
  <2>1. /\ q.op = "upload" /\ q.stage = "checked" /\ added \cap issued = {}
        /\ tx' = [x \in (DOMAIN tx \cup added) \ removed |->
                     IF x \in added THEN q.new[x]
                     ELSE IF x \in DOMAIN q.new
                          THEN [tx[x] EXCEPT !.payer = q.new[x].payer,
                                             !.split = SplitAfter(tx[x], q.new[x])]
                          ELSE tx[x]]
    BY <1>6 DEF CommitUpload, Ready
  <2>2. /\ \A m \in q.months : ~Locked(m)
        /\ \A x \in DOMAIN q.seen : tx[x] = q.seen[x] /\ tx[x].month \in q.months
        /\ \A x \in DOMAIN q.new : q.new[x].month \in q.months
    BY <1>2, <2>1 DEF Fresh, PeriodOps, Locked
  <2>3. CASE r \in DOMAIN q.seen
    <3>1. ~Locked(tx[r].month)
      BY <2>2, <2>3
    <3>2. r \in DOMAIN tx
      BY <1>2, <2>3 DEF Fresh
    <3>3. r \in DOMAIN tx' => tx'[r].month = tx[r].month
      BY <1>3, <2>1, <2>3, <3>2 DEF Content
    <3> QED
      BY <3>1, <3>3
  <2>4. CASE r \in added
    <3>1. r \notin DOMAIN tx
      BY <1>2, <2>1, <2>4 DEF TypeInv, TypeOK
    <3>2. r \in DOMAIN tx' /\ ~Locked(tx'[r].month)
      BY <2>1, <2>2, <2>4
    <3> QED
      BY <3>1, <3>2
  <2>5. CASE r \notin DOMAIN q.seen /\ r \notin DOMAIN q.new
    BY <2>1, <2>5
  <2> QED
    BY <2>3, <2>4, <2>5
<1>8. CASE CommitMove(s)
  <2>1. /\ q.op \in MoveOps /\ q.stage = "checked"
        /\ tx' = [x \in DOMAIN tx \ (DOMAIN q.seen \ DOMAIN q.new) |->
                     IF x \in DOMAIN q.new THEN Rewritten(tx[x], q.new[x]) ELSE tx[x]]
    BY <1>8 DEF CommitMove, Ready, MoveOps
  <2>2. /\ \A x \in DOMAIN q.seen : tx[x] = q.seen[x] /\ ~Locked(tx[x].month)
        /\ DOMAIN q.new \subseteq DOMAIN q.seen
    BY <1>2, <2>1 DEF Fresh, PeriodOps, MoveOps, Locked
  <2>3. CASE r \in DOMAIN q.seen
    <3>1. r \in DOMAIN tx
      BY <1>2, <2>3 DEF Fresh
    <3>2. r \in DOMAIN tx' => tx'[r].month = tx[r].month
      BY <1>3, <2>1, <3>1 DEF Rewritten, Content
    <3> QED
      BY <2>2, <2>3, <3>1, <3>2
  <2>4. CASE r \notin DOMAIN q.seen
    BY <2>1, <2>2, <2>4
  <2> QED
    BY <2>3, <2>4
<1>7. \/ tx' = tx
      \/ CommitUpload(s) \/ CommitMove(s)
      \/ /\ q.op \notin RemovingOps /\ q.stage = "checked" /\ q.op \notin PeriodOps
         /\ tx' = MutableFields(q) \/ tx' = AllFields(q)
  BY <1>1 DEF Fetch, FetchRecord, FetchMark, FetchUnmark, FetchUnlink, FetchDelete,
              FetchSplits, FetchBulk, FetchRewrite, FetchUpload, FetchJoin,
              FetchUnjoin, FetchFinalize, FetchUnfinalize, Start, Check, Abort, Commit, CommitRecord, CommitMark,
              CommitUnmark, CommitUnlink, CommitDelete, CommitEdit, CommitFinalize,
              CommitUnfinalize, Ready, PeriodOps, RemovingOps
<1> QED
  BY <1>4, <1>5, <1>6, <1>7, <1>8

\* When requests run one at a time, a locked month is frozen: whatever is
\* uploaded, edited, linked or unlinked, no row enters it, leaves it or changes.
THEOREM LocksHoldSerially ==
    ASSUME OneAtATime
    PROVE  Spec => LockedMonthFrozen
<1>1. SerialInv /\ [Next]_vars => SerialInv'
  BY SerialStep
<1>2. SerialInv /\ [Next]_vars => [LocksHold]_vars
  BY LockStep
<1> QED
  BY SerialInit, <1>1, <1>2, PTL DEF Spec, LockedMonthFrozen

\* A commit of fresh data logs what it really changes, or is of a request that
\* logs no split.
LEMMA LogStep ==
    ASSUME SerialInv, [Next]_vars
    PROVE  [EditsLogged]_vars
<1> SUFFICES ASSUME Next, NEW r \in DOMAIN tx, r \in DOMAIN tx'
             PROVE  /\ LoggedField(r, "month") /\ LoggedField(r, "amount")
                    /\ \/ LoggedField(r, "split")
                       \/ Ending({"upload"})
                       \/ Ending(MoveOps) /\ tx'[r].split \in Shares(tx[r].split)
  BY DEF EditsLogged, MoveOps
<1>1. PICK s \in Sessions : Fetch(s) \/ Check(s) \/ Abort(s) \/ Commit(s)
  BY DEF Next
<1> DEFINE q == req[s]
<1>2. Fresh(s) /\ TypeInv /\ AllFresh
  BY DEF SerialInv, AllFresh
<1>3. Finish(s) => req'[s].op = "none"
  BY <1>2 DEF Finish, Idle, TypeInv, TypeOK
<1>4. tx[r] \in Content
  BY <1>2, SnapshotElim DEF TypeInv, TypeOK
<1>5. CASE tx' = tx
  BY <1>5 DEF LoggedField, Shares
<1>6. CASE q.op \notin EditOps \cup MoveOps \cup {"upload"} /\ tx' = MutableFields(q)
  <2>1. /\ tx'[r].month = tx[r].month /\ tx'[r].amount = tx[r].amount
        /\ tx'[r].split = tx[r].split
    <3>1. CASE r \in Changed(q)
      <4>1. q.new[r].split = tx[r].split
        BY <1>2, <1>6, <3>1, FreshWrites DEF Fresh
      <4> QED
        BY <1>2, <1>6, <3>1, <4>1, FreshWrites
    <3>2. CASE r \notin Changed(q)
      BY <1>2, <1>6, <3>2, FreshWrites
    <3> QED
      BY <3>1, <3>2
  <2> QED
    BY <2>1 DEF LoggedField
<1>7. CASE CommitEdit(s)
  <2>1. /\ tx' = MutableFields(q) \/ tx' = AllFields(q)
        /\ logged' = {[row |-> x, old |-> q.seen[x], new |-> q.new[x]] : x \in Changed(q)}
    BY <1>7 DEF CommitEdit
  <2>2. ASSUME NEW f \in {"month", "amount", "split"}, tx'[r][f] # tx[r][f]
        PROVE  \E e \in logged' : /\ e.row = r /\ e.old[f] = tx[r][f]
                                  /\ e.new[f] = tx'[r][f]
    <3>1. r \in Changed(q)
      BY <1>2, <2>1, <2>2, FreshWrites
    <3>2. tx[r] = q.seen[r] /\ tx'[r][f] = q.new[r][f]
      BY <1>2, <2>1, <2>2, <3>1, FreshWrites
    <3>3. [row |-> r, old |-> q.seen[r], new |-> q.new[r]] \in logged'
      BY <2>1, <3>1
    <3> QED
      BY <3>2, <3>3
  <2> QED
    BY <2>2 DEF LoggedField
<1>8. CASE CommitUpload(s)
  <2>1. Ending({"upload"})
    BY <1>3, <1>8 DEF CommitUpload, Ready, Ending
  <2>2. tx'[r].month = tx[r].month /\ tx'[r].amount = tx[r].amount
    <3>1. r \notin DOMAIN q.new \ DOMAIN q.seen
      BY <1>2, <1>8 DEF CommitUpload, TypeInv, TypeOK
    <3> QED
      BY <1>4, <1>8, <3>1 DEF CommitUpload, Content
  <2> QED
    BY <2>1, <2>2 DEF LoggedField
<1>9. CASE CommitMove(s)
  <2>1. /\ q.op \in MoveOps
        /\ tx'[r] = IF r \in DOMAIN q.new THEN Rewritten(tx[r], q.new[r]) ELSE tx[r]
    BY <1>9 DEF CommitMove, Ready, MoveOps
  <2>2. Ending(MoveOps)
    BY <1>3, <1>9, <2>1 DEF CommitMove, Ending
  <2>3. /\ tx'[r].month = tx[r].month /\ tx'[r].amount = tx[r].amount
        /\ r \in DOMAIN q.new => tx'[r].split = q.new[r].split
        /\ r \notin DOMAIN q.new => tx'[r].split = tx[r].split
    BY <1>4, <2>1 DEF Rewritten, Content
  <2>4. r \in DOMAIN q.new => q.new[r].split \in Shares(tx[r].split)
    BY <1>2, <2>1 DEF Fresh
  <2>5. tx[r].split \in Shares(tx[r].split)
    BY <1>4 DEF Shares, Content
  <2>6. tx'[r].split \in Shares(tx[r].split)
    BY <2>3, <2>4, <2>5
  <2> QED
    BY <2>2, <2>3, <2>6 DEF LoggedField
<1>10. \/ tx' = tx \/ CommitEdit(s) \/ CommitUpload(s) \/ CommitMove(s)
       \/ q.op \notin EditOps \cup MoveOps \cup {"upload"} /\ tx' = MutableFields(q)
  BY <1>1
     DEF Fetch, FetchRecord, FetchMark, FetchUnmark, FetchUnlink, FetchDelete,
         FetchSplits, FetchBulk, FetchRewrite, FetchUpload, FetchJoin, FetchUnjoin,
         FetchFinalize, FetchUnfinalize, Start, Check, Abort, Commit, CommitRecord,
         CommitMark, CommitUnmark, CommitUnlink, CommitDelete, CommitFinalize,
         CommitUnfinalize, Ready, EditOps, MoveOps
<1> QED
  BY <1>5, <1>6, <1>7, <1>8, <1>9, <1>10

\* When requests run one at a time, the audit log tells the truth: every change
\* of a stored row's date or amount is logged with the value it replaced and the
\* value it wrote, and so is every change of a split, but for a re-upload's and
\* for the marking of an account as joint or back, which carries the split over.
THEOREM EditsLoggedSerially ==
    ASSUME OneAtATime
    PROVE  Spec => NoSilentEdit
<1>1. SerialInv /\ [Next]_vars => SerialInv'
  BY SerialStep
<1>2. SerialInv /\ [Next]_vars => [EditsLogged]_vars
  BY LogStep
<1> QED
  BY SerialInit, <1>1, <1>2, PTL DEF Spec, NoSilentEdit
=============================================================================
