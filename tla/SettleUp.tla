------------------------------ MODULE SettleUp ------------------------------
(***************************************************************************)
(* The couple's database under concurrent requests: transaction rows,      *)
(* settlements, the links between them, period locks and the audit log.    *)
(*                                                                         *)
(* Every request runs in one database transaction (READ COMMITTED, no row  *)
(* locks taken by its reads) and has three steps that other requests can   *)
(* interleave with:                                                        *)
(*   Fetch*   it reads the rows it is about and rejects what is wrong;     *)
(*   Check    it reads the period locks and the link table;                *)
(*   Commit*  it writes from the snapshot it fetched, the indexes and      *)
(*            foreign keys are enforced, and the transaction commits.      *)
(* A request may also be rolled back at any time (Abort).                  *)
(***************************************************************************)
EXTENDS Integers

CONSTANTS
    Rows,         \* transaction ids that may ever be issued
    Settlements,  \* settlement ids that may ever be issued
    Months,       \* reconciliation periods
    Sessions,     \* requests that can be in flight at once
    Persons,      \* the couple
    Joint,        \* the "payer" of a joint account's row: it has none
    Amounts,      \* signed amounts: negative is money out
    Splits,       \* what an edit can set the split to; 100 is unsplit
    NoId          \* no settlement named by the request

ASSUME JointAssumption == Joint \notin Persons
ASSUME AmountsAssumption == Amounts \subseteq Int
ASSUME SplitsAssumption == Splits \subseteq 0..100 /\ 100 \in Splits
ASSUME NoIdAssumption == NoId \notin Settlements

VARIABLES
    tx,          \* stored transaction rows: a function on the stored ids
    settlement,  \* stored settlements: id -> the sender
    links,       \* settlement_transaction_links: <<settlement, row>> pairs
    period,      \* reconciliation_periods: absent, open or locked
    issued,      \* ids ever inserted (uuids are not reused)
    logged,      \* transaction_edits the last step inserted
    req          \* the request each session is running

db == <<tx, settlement, links, period, issued, logged>>
vars == <<tx, settlement, links, period, issued, logged, req>>

-----------------------------------------------------------------------------
(* Types *)

Content == [month : Months, amount : Amounts, split : Splits, settle : BOOLEAN,
            payer : Persons \cup {Joint}]
Snapshots == UNION {[R -> Content] : R \in SUBSET Rows}
Edits == [row : Rows, old : Content, new : Content]
Ops == {"none", "record", "mark", "unmark", "unlink", "delete", "edit",
        "editAll", "upload", "join", "unjoin", "finalize", "finalizeNew",
        "unfinalize"}

\* seen is what the request fetched, new what it is going to write.
Request == [op : Ops, stage : {"loaded", "checked"}, seen : Snapshots,
            new : Snapshots, sid : Settlements \cup {NoId},
            months : SUBSET Months]

Nothing == [r \in {} |-> r]
Idle == [op |-> "none", stage |-> "loaded", seen |-> Nothing,
         new |-> Nothing, sid |-> NoId, months |-> {}]

-----------------------------------------------------------------------------
(* What the handlers share *)

Fetched(R) == [r \in R |-> tx[r]]
MonthsOf(f) == {f[r].month : r \in DOMAIN f}
HasJoint(R) == \E r \in R : tx[r].payer = Joint
LinkedRows == {r \in Rows : \E k \in Settlements : <<k, r>> \in links}
LegsOf(k) == {r \in Rows : <<k, r>> \in links}
Flagged(f, flag) == [r \in DOMAIN f |-> [f[r] EXCEPT !.settle = flag]]
Changed(q) == {r \in DOMAIN q.seen : q.new[r] # q.seen[r]}

\* The senders the legs agree on: the payer of every leg of money out, and of
\* no leg of money in. None when they contradict each other or carry no sign.
ImpliedSenders(f) ==
    LET senders == {f[r].payer : r \in {q \in DOMAIN f : f[q].amount < 0}}
        recipients == {f[r].payer : r \in {q \in DOMAIN f : f[q].amount > 0}}
    IN  {p \in Persons : /\ senders \cup recipients # {}
                         /\ senders \subseteq {p}
                         /\ p \notin recipients}

AgreesWith(c, sender) ==
    /\ c.amount < 0 => c.payer = sender
    /\ c.amount > 0 => c.payer # sender

\* A split as one of the two owners reads it: the share, or what is left of it.
Shares(v) == {w \in Splits : w = v \/ (v < 100 /\ w = 100 - v)}

\* What update_mutable_fields and rekey_batch have in common: all but the date
\* and the amount from the fetched entity.
Rewritten(c, new) ==
    [c EXCEPT !.split = new.split, !.settle = new.settle, !.payer = new.payer]

\* update_mutable_fields; a row that is gone is skipped without an error.
MutableFields(q) ==
    [r \in DOMAIN tx |->
        IF r \in Changed(q) THEN Rewritten(tx[r], q.new[r]) ELSE tx[r]]

\* update_all_fields: the date and the amount too.
AllFields(q) ==
    [r \in DOMAIN tx |-> IF r \in Changed(q) THEN q.new[r] ELSE tx[r]]

\* Mutant of Linkable: no unique index.
LinkableTwice(k, R) ==
    /\ k \in DOMAIN settlement
    /\ R \subseteq DOMAIN tx

\* The unique index on transaction_id and the two foreign keys of a link.
Linkable(k, R) ==
    /\ k \in DOMAIN settlement
    /\ R \subseteq DOMAIN tx
    /\ R \cap LinkedRows = {}

Start(s, op, stage, seen, new, sid, months) ==
    /\ req[s].op = "none"
    /\ req' = [req EXCEPT ![s] = [op |-> op, stage |-> stage, seen |-> seen,
                                  new |-> new, sid |-> sid, months |-> months]]
    /\ logged' = {}
    /\ UNCHANGED <<tx, settlement, links, period, issued>>

Ready(s, op) == req[s].op = op /\ req[s].stage = "checked"
Finish(s) == req' = [req EXCEPT ![s] = Idle]

-----------------------------------------------------------------------------
(* The first step of each request *)

FetchRecord(s) ==
    \E R \in SUBSET DOMAIN tx :
        LET seen == Fetched(R) IN
        /\ ~HasJoint(R)
        /\ (\A q, r \in R : tx[q].payer = tx[r].payer) => \A q, r \in R : q = r
        /\ R # {} => ImpliedSenders(seen) # {}
        /\ Start(s, "record", "loaded", seen, Flagged(seen, TRUE), NoId,
                 MonthsOf(seen))

FetchMark(s) ==
    \E r \in DOMAIN tx, k \in DOMAIN settlement \cup {NoId} :
        LET seen == Fetched({r}) IN
        /\ ~HasJoint({r})
        /\ k # NoId => AgreesWith(tx[r], settlement[k])
        /\ Start(s, "mark", "loaded", seen, Flagged(seen, TRUE), k,
                 MonthsOf(seen))

FetchUnmark(s) ==
    \E r \in DOMAIN tx :
        LET seen == Fetched({r}) IN
        Start(s, "unmark", "loaded", seen, Flagged(seen, FALSE), NoId,
              MonthsOf(seen))

FetchUnlink(s) ==
    \E r \in DOMAIN tx, k \in DOMAIN settlement :
        LET seen == Fetched({r}) IN
        Start(s, "unlink", "loaded", seen, Flagged(seen, FALSE), k,
              MonthsOf(seen))

FetchDelete(s) ==
    \E k \in DOMAIN settlement :
        LET seen == Fetched(LegsOf(k) \cap DOMAIN tx) IN
        Start(s, "delete", "loaded", seen, Flagged(seen, FALSE), k,
              MonthsOf(seen))

\* UpdateTransactionSplits: a split for each of some personal rows.
FetchSplits(s) ==
    \E R \in (SUBSET DOMAIN tx) \ {{}} : \E split \in [R -> Splits] :
        LET seen == Fetched(R) IN
        /\ ~HasJoint(R)
        /\ Start(s, "edit", "loaded", seen,
                 [r \in R |-> [seen[r] EXCEPT !.split = split[r]]], NoId,
                 MonthsOf(seen))

\* BulkUpdateTransactions without a date or an amount: one split for rows that
\* are all personal (payer_percentage) or all joint (owner_shares).
FetchBulk(s) ==
    \E R \in (SUBSET DOMAIN tx) \ {{}}, v \in Splits :
        LET seen == Fetched(R) IN
        /\ HasJoint(R) => \A r \in R : tx[r].payer = Joint
        /\ Start(s, "edit", "loaded", seen,
                 [r \in R |-> [seen[r] EXCEPT !.split = v]], NoId,
                 MonthsOf(seen))

\* Mutant of FetchRewrite: guards the month the row leaves only.
FetchRewriteOldMonth(s) ==
    \E r \in DOMAIN tx, c \in Content :
        LET seen == Fetched({r}) IN
        /\ c.settle = tx[r].settle /\ c.payer = tx[r].payer
        /\ Start(s, "editAll", "loaded", seen, [q \in {r} |-> c], NoId, MonthsOf(seen))

\* BulkUpdateTransactions with a date or an amount: a single row, and the
\* month it moves into is guarded as well.
FetchRewrite(s) ==
    \E r \in DOMAIN tx, c \in Content :
        LET seen == Fetched({r})
            new == [q \in {r} |-> c] IN
        /\ c.settle = tx[r].settle /\ c.payer = tx[r].payer
        /\ Start(s, "editAll", "loaded", seen, new, NoId,
                 MonthsOf(seen) \cup MonthsOf(new))

\* What a row of p's CSV parses to, in the months the file covers: a row tagged
\* as a settlement is unsplit, a joint row is unsplit and never a settlement.
Parsed(p, covered) ==
    {c \in [month : covered, amount : Amounts, split : Splits, settle : BOOLEAN,
            payer : {p, Joint}] :
        /\ c.settle \/ c.payer = Joint => c.split = 100
        /\ c.payer = Joint => ~c.settle}

\* One person's file adds rows, changes the split of rows and, by leaving them
\* out, removes rows; months holds what the file covers and what its stored rows
\* are in. Who imported a joint row is not kept: a file of either person may
\* remove it.
FetchUpload(s) ==
    \E p \in Persons, covered \in (SUBSET Months) \ {{}} :
    LET own == {r \in DOMAIN tx : tx[r].payer \in {p, Joint}} IN
    \E added \in SUBSET (Rows \ issued), changed \in SUBSET own :
    \E removed \in SUBSET (own \ changed) :
    \E parsed \in [added -> Parsed(p, covered)], split \in [changed -> Splits] :
    LET new == [r \in added \cup changed |->
                   IF r \in added THEN parsed[r]
                   ELSE [tx[r] EXCEPT !.split = split[r]]] IN
        Start(s, "upload", "loaded", Fetched(changed \cup removed), new, NoId,
              covered \cup MonthsOf(Fetched(changed \cup removed)))

\* MarkAccountJoint: the personal rows of a label become the joint account's,
\* out of settlement, with their split carried into the owner shares; of both
\* partners' copies of a row one is kept.
FetchJoin(s) ==
    \E R \in (SUBSET DOMAIN tx) \ {{}} : \E kept \in (SUBSET R) \ {{}} :
        LET seen == Fetched(R) IN
        /\ ~HasJoint(R)
        /\ Start(s, "join", "loaded", seen,
                 [r \in kept |-> [seen[r] EXCEPT !.payer = Joint, !.settle = FALSE]],
                 NoId, MonthsOf(seen))

\* UnmarkAccountJoint: each row goes to whoever imported it, who is not kept
\* here, with the split seen from that side.
FetchUnjoin(s) ==
    \E R \in (SUBSET DOMAIN tx) \ {{}} : \E home \in [R -> Persons], split \in [R -> Splits] :
        LET seen == Fetched(R) IN
        /\ \A r \in R : tx[r].payer = Joint /\ split[r] \in Shares(tx[r].split)
        /\ Start(s, "unjoin", "loaded", seen,
                 [r \in R |-> [seen[r] EXCEPT !.payer = home[r], !.split = split[r]]],
                 NoId, MonthsOf(seen))

FetchFinalize(s) ==
    \E m \in Months :
        /\ period[m] # "locked"
        /\ Start(s, IF period[m] = "absent" THEN "finalizeNew" ELSE "finalize",
                 "checked", Nothing, Nothing, NoId, {m})

FetchUnfinalize(s) ==
    \E m \in Months :
        /\ period[m] = "locked"
        /\ Start(s, "unfinalize", "checked", Nothing, Nothing, NoId, {m})

-----------------------------------------------------------------------------
(* The second step: locked months, and rows that already have a settlement *)

Check(s) ==
    LET q == req[s] IN
    /\ q.op # "none" /\ q.stage = "loaded"
    /\ \A m \in q.months : period[m] # "locked"
    /\ q.op \in {"record", "join"} \/ (q.op = "mark" /\ q.sid # NoId)
           => DOMAIN q.seen \cap LinkedRows = {}
    /\ req' = [req EXCEPT ![s].stage = "checked"]
    /\ logged' = {}
    /\ UNCHANGED <<tx, settlement, links, period, issued>>

Abort(s) ==
    /\ req[s].op # "none"
    /\ Finish(s)
    /\ logged' = {}
    /\ UNCHANGED <<tx, settlement, links, period, issued>>

-----------------------------------------------------------------------------
(* The last step: the writes and the commit *)

CommitRecord(s) ==
    LET q == req[s]
        legs == DOMAIN q.seen IN
    /\ Ready(s, "record")
    /\ legs \subseteq DOMAIN tx
    /\ legs \cap LinkedRows = {}
    /\ \E k \in Settlements \ issued,
          p \in IF legs = {} THEN Persons ELSE ImpliedSenders(q.seen) :
        /\ settlement' = [x \in DOMAIN settlement \cup {k} |->
                             IF x = k THEN p ELSE settlement[x]]
        /\ links' = links \cup ({k} \X legs)
        /\ issued' = issued \cup {k}
    /\ tx' = MutableFields(q)
    /\ logged' = {}
    /\ Finish(s)
    /\ UNCHANGED period

\* Mutant of CommitMark: links even when no settlement was named.
CommitMarkAlwaysLinks(s) ==
    LET q == req[s] IN
    /\ Ready(s, "mark")
    /\ q.sid # NoId => Linkable(q.sid, DOMAIN q.seen)
    /\ links' = links \cup ({q.sid} \X DOMAIN q.seen)
    /\ tx' = MutableFields(q)
    /\ logged' = {}
    /\ Finish(s)
    /\ UNCHANGED <<settlement, period, issued>>

\* Mutant of CommitMark: an upsert that takes the row from its settlement.
CommitMarkMoves(s) ==
    LET q == req[s] IN
    /\ Ready(s, "mark")
    /\ q.sid \in DOMAIN settlement /\ DOMAIN q.seen \subseteq DOMAIN tx
    /\ links' = {l \in links : l[2] \notin DOMAIN q.seen} \cup ({q.sid} \X DOMAIN q.seen)
    /\ tx' = MutableFields(q)
    /\ logged' = {}
    /\ Finish(s)
    /\ UNCHANGED <<settlement, period, issued>>

CommitMark(s) ==
    LET q == req[s] IN
    /\ Ready(s, "mark")
    /\ q.sid # NoId => Linkable(q.sid, DOMAIN q.seen)
    /\ links' = IF q.sid = NoId THEN links ELSE links \cup ({q.sid} \X DOMAIN q.seen)
    /\ tx' = MutableFields(q)
    /\ logged' = {}
    /\ Finish(s)
    /\ UNCHANGED <<settlement, period, issued>>

\* Mutant of CommitUnmark: the links stay.
CommitUnmarkKeepsLinks(s) ==
    /\ Ready(s, "unmark")
    /\ tx' = MutableFields(req[s])
    /\ logged' = {}
    /\ Finish(s)
    /\ UNCHANGED <<settlement, links, period, issued>>

CommitUnmark(s) ==
    LET q == req[s] IN
    /\ Ready(s, "unmark")
    /\ links' = {l \in links : l[2] \notin DOMAIN q.seen}
    /\ tx' = MutableFields(q)
    /\ logged' = {}
    /\ Finish(s)
    /\ UNCHANGED <<settlement, period, issued>>

\* The flag is reset only if this request's delete removed a link and the row
\* has none left.
CommitUnlink(s) ==
    LET q == req[s]
        dropped == {q.sid} \X DOMAIN q.seen IN
    /\ Ready(s, "unlink")
    /\ links' = links \ dropped
    /\ tx' = IF /\ links \cap dropped # {}
                /\ \A l \in links \ dropped : l[2] \notin DOMAIN q.seen
             THEN MutableFields(q) ELSE tx
    /\ logged' = {}
    /\ Finish(s)
    /\ UNCHANGED <<settlement, period, issued>>

CommitDelete(s) ==
    LET q == req[s] IN
    /\ Ready(s, "delete")
    /\ tx' = MutableFields(q)
    /\ links' = {l \in links : l[1] # q.sid}
    /\ settlement' = [k \in DOMAIN settlement \ {q.sid} |-> settlement[k]]
    /\ logged' = {}
    /\ Finish(s)
    /\ UNCHANGED <<period, issued>>

\* Mutant of CommitEdit: logs from the row after it was evolved.
CommitEditLogsNew(s) ==
    LET q == req[s] IN
    /\ Ready(s, "edit") \/ Ready(s, "editAll")
    /\ Changed(q) \subseteq DOMAIN tx
    /\ tx' = IF q.op = "editAll" THEN AllFields(q) ELSE MutableFields(q)
    /\ logged' = {[row |-> r, old |-> q.new[r], new |-> q.new[r]] : r \in Changed(q)}
    /\ Finish(s)
    /\ UNCHANGED <<settlement, links, period, issued>>

\* One audit entry for each row the edit changes, whose foreign key needs the
\* row to be there still.
CommitEdit(s) ==
    LET q == req[s] IN
    /\ Ready(s, "edit") \/ Ready(s, "editAll")
    /\ Changed(q) \subseteq DOMAIN tx
    /\ tx' = IF q.op = "editAll" THEN AllFields(q) ELSE MutableFields(q)
    /\ logged' = {[row |-> r, old |-> q.seen[r], new |-> q.new[r]] : r \in Changed(q)}
    /\ Finish(s)
    /\ UNCHANGED <<settlement, links, period, issued>>

\* The batch writes the payer and payer_percentage of a file's row; a row that
\* is joint before and after keeps its owner shares.
SplitAfter(c, new) ==
    IF new.payer # Joint THEN new.split
    ELSE IF c.payer = Joint THEN c.split ELSE 100

\* Mutant of CommitUpload: removes rows without their links.
CommitUploadKeepsLinks(s) ==
    LET q == req[s]
        added == DOMAIN q.new \ DOMAIN q.seen IN
    /\ Ready(s, "upload")
    /\ added \cap issued = {}
    /\ tx' = [r \in (DOMAIN tx \ DOMAIN q.seen) \cup DOMAIN q.new |->
                IF r \in added THEN q.new[r] ELSE tx[r]]
    /\ issued' = issued \cup added
    /\ logged' = {}
    /\ Finish(s)
    /\ UNCHANGED <<settlement, links, period>>

\* save_batch, update_mutable_fields_batch (which leaves the settlement flag
\* and the owner shares alone), then delete_transactions_with_links.
CommitUpload(s) ==
    LET q == req[s]
        added == DOMAIN q.new \ DOMAIN q.seen
        removed == DOMAIN q.seen \ DOMAIN q.new IN
    /\ Ready(s, "upload")
    /\ added \cap issued = {}
    /\ tx' = [r \in (DOMAIN tx \cup added) \ removed |->
                IF r \in added THEN q.new[r]
                ELSE IF r \in DOMAIN q.new
                     THEN [tx[r] EXCEPT !.payer = q.new[r].payer,
                                        !.split = SplitAfter(tx[r], q.new[r])]
                     ELSE tx[r]]
    /\ links' = {l \in links : l[2] \notin removed}
    /\ issued' = issued \cup added
    /\ logged' = {}
    /\ Finish(s)
    /\ UNCHANGED <<settlement, period>>

\* The twins that were dropped are deleted with their links, and rekey_batch
\* writes the others by id. No transaction_edits entry is made.
CommitMove(s) ==
    LET q == req[s]
        dropped == DOMAIN q.seen \ DOMAIN q.new IN
    /\ Ready(s, "join") \/ Ready(s, "unjoin")
    /\ tx' = [r \in DOMAIN tx \ dropped |->
                IF r \in DOMAIN q.new THEN Rewritten(tx[r], q.new[r]) ELSE tx[r]]
    /\ links' = {l \in links : l[2] \notin dropped}
    /\ logged' = {}
    /\ Finish(s)
    /\ UNCHANGED <<settlement, period, issued>>

\* A period that was absent is inserted, and the unique index on the year and
\* the month refuses a second one.
CommitFinalize(s) ==
    LET q == req[s] IN
    /\ Ready(s, "finalize") \/ Ready(s, "finalizeNew")
    /\ q.op = "finalizeNew" => \A m \in q.months : period[m] = "absent"
    /\ period' = [m \in Months |-> IF m \in q.months THEN "locked" ELSE period[m]]
    /\ logged' = {}
    /\ Finish(s)
    /\ UNCHANGED <<tx, settlement, links, issued>>

CommitUnfinalize(s) ==
    LET q == req[s] IN
    /\ Ready(s, "unfinalize")
    /\ period' = [m \in Months |-> IF m \in q.months THEN "open" ELSE period[m]]
    /\ logged' = {}
    /\ Finish(s)
    /\ UNCHANGED <<tx, settlement, links, issued>>

-----------------------------------------------------------------------------
Init ==
    /\ tx = Nothing
    /\ settlement = Nothing
    /\ links = {}
    /\ period = [m \in Months |-> "absent"]
    /\ issued = {}
    /\ logged = {}
    /\ req = [s \in Sessions |-> Idle]

Fetch(s) ==
    \/ FetchRecord(s) \/ FetchMark(s) \/ FetchUnmark(s) \/ FetchUnlink(s)
    \/ FetchDelete(s) \/ FetchSplits(s) \/ FetchBulk(s) \/ FetchRewrite(s)
    \/ FetchUpload(s) \/ FetchJoin(s) \/ FetchUnjoin(s)
    \/ FetchFinalize(s) \/ FetchUnfinalize(s)

Commit(s) ==
    \/ CommitRecord(s) \/ CommitMark(s) \/ CommitUnmark(s) \/ CommitUnlink(s)
    \/ CommitDelete(s) \/ CommitEdit(s) \/ CommitUpload(s) \/ CommitMove(s)
    \/ CommitFinalize(s) \/ CommitUnfinalize(s)

Next == \E s \in Sessions : Fetch(s) \/ Check(s) \/ Abort(s) \/ Commit(s)

Spec == Init /\ [][Next]_vars

-----------------------------------------------------------------------------
(* Properties *)

\* The tables and the requests hold what their columns and entities can hold:
\* the settlement transaction ids, the settlement directions, the pairs.
TypeOK ==
    /\ tx \in Snapshots /\ DOMAIN tx \subseteq issued
    /\ DOMAIN settlement \subseteq Settlements \cap issued
    /\ \A k \in DOMAIN settlement : settlement[k] \in Persons
    /\ links \subseteq Settlements \X Rows
    /\ period \in [Months -> {"absent", "open", "locked"}]
    /\ issued \subseteq Rows \cup Settlements
    /\ logged \subseteq Edits
    /\ req \in [Sessions -> Request]

\* However requests interleave, a payment leg belongs to at most one
\* settlement: the handlers check the link table and write later, so this
\* rests on the unique index at the commit of record and mark.
OneSettlementPerRow ==
    \A k, j \in Settlements, r \in Rows :
        <<k, r>> \in links /\ <<j, r>> \in links => k = j

\* However requests interleave, a link's settlement and row are both stored:
\* deleting a settlement and re-uploading without a row drop the links too.
NoDanglingLinks ==
    \A k \in Settlements, r \in Rows :
        <<k, r>> \in links => k \in DOMAIN settlement /\ r \in DOMAIN tx

\* A row that is a leg of a recorded payment is out of the split math, so no
\* transfer is counted both as a payment and as an outstanding split.
LinkedLegsExcluded ==
    \A r \in LinkedRows \cap DOMAIN tx : tx[r].settle

Locked(m) == period[m] = "locked"

\* While a month is locked, no step adds a row to it, removes a row from it or
\* changes anything of a row in it.
LocksHold ==
    \A r \in Rows :
        /\ r \in DOMAIN tx /\ Locked(tx[r].month)
               => r \in DOMAIN tx' /\ tx'[r] = tx[r]
        /\ r \in DOMAIN tx' /\ Locked(tx'[r].month)
               => r \in DOMAIN tx /\ tx'[r] = tx[r]
LockedMonthFrozen == [][LocksHold]_vars

Ending(ops) == \E s \in Sessions : req[s].op \in ops /\ req'[s].op = "none"

\* The step leaves field f of row r alone or logs what it was and what it is.
LoggedField(r, f) ==
    tx'[r][f] # tx[r][f] =>
        \E e \in logged' : e.row = r /\ e.old[f] = tx[r][f] /\ e.new[f] = tx'[r][f]

\* A change of a stored row's date, amount or split is in the audit log with the
\* value the row really had before and has after it. Two kinds of request write
\* splits and log nothing: a re-upload, and the marking of an account as joint
\* or back, which may only carry a split over, as either owner reads it.
EditsLogged ==
    \A r \in DOMAIN tx \cap DOMAIN tx' :
        /\ LoggedField(r, "month") /\ LoggedField(r, "amount")
        /\ \/ LoggedField(r, "split")
           \/ Ending({"upload"})
           \/ Ending({"join", "unjoin"}) /\ tx'[r].split \in Shares(tx[r].split)
NoSilentEdit == [][EditsLogged]_vars

\* The abstract registry of links: the owner of a row is the settlement of its
\* link, and the open settlements are the stored ones.
OwnerOf(r) ==
    IF r \in LinkedRows THEN CHOOSE k \in Settlements : <<k, r>> \in links ELSE NoId

Registry == INSTANCE LinkRegistry WITH
    Free <- NoId, stored <- DOMAIN tx, open <- DOMAIN settlement,
    owner <- [r \in Rows |-> OwnerOf(r)]

\* However requests interleave, every step of the database is a step of the
\* registry: rows move between settlements only through being free.
ImplementsRegistry == Registry!Spec

=============================================================================
