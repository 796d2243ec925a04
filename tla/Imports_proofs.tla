--------------------------- MODULE Imports_proofs ---------------------------
(***************************************************************************)
(* What repeated imports of a label guarantee while uploads and moves run  *)
(* one after the other, with in-app edits and hand-entered rows in         *)
(* between: for any files, days, texts, splits and number of uploads.      *)
(***************************************************************************)
EXTENDS Imports, TLAPS

\* One upload or move is in flight at most.
OneAtATime == \A s, t \in Sessions : s = t

-----------------------------------------------------------------------------
(* The invariant *)

\* A stored row: who pays it, whose upload it is and where it lives go together.
StoredRow(row) ==
    /\ row \in [acct : Accounts, payer : Accounts, day : Days, original : 0..LastDay,
                occ : Occurrences, text : Texts, split : 0..100,
                shares : Shares \cup {NoShares}, by : Persons \cup {Manual}, at : 0..uploads]
    /\ row.payer = row.acct /\ row.acct \in accounts
    /\ row.shares # NoShares => row.acct = Joint
    /\ row.acct # Joint => row.by = row.acct
    /\ row.acct = Joint => (byHand <=> row.by = Manual)

\* Rows of one upload are one person's.
OneUploader ==
    \A q, r \in {t \in DOMAIN tx : tx[t].by # Manual} : tx[q].at = tx[r].at => tx[q].by = tx[r].by

Rows ==
    /\ accounts \subseteq Accounts /\ byHand \in BOOLEAN /\ uploads \in Nat
    /\ DOMAIN tx \subseteq Ids /\ \A r \in DOMAIN tx : StoredRow(tx[r])
    /\ OneUploader /\ StoredOnce /\ OneHome

\* The rows an upload's file stands for: the uploader's, in its accounts and days.
Replaced(q, row) ==
    /\ row.by = q.by /\ row.acct \in Scope(q.by, q.file, q.acct)
    /\ InWindow(q.days, FirstDay(row))

\* What an upload found out is still so when it writes: its account is the one
\* its label resolves to, its new lines are not stored, the others are, and the
\* rows it removes are all of the uploader's that no line has the key of.
UploadReady(q) ==
    /\ q.op = "upload" /\ q.by \in Persons /\ q.file \in Files /\ q.acct \in {Joint, q.by}
    /\ q.acct = Joint <=> Joint \in accounts /\ ~byHand
    /\ q.new \subseteq q.file
    /\ \A f \in q.new, r \in DOMAIN tx : NaturalKey(tx[r]) # LineKey(q.acct, f)
    /\ \A f \in q.file \ q.new : \E r \in DOMAIN tx \ q.removed :
           NaturalKey(tx[r]) = LineKey(q.acct, f)
    /\ \A r \in DOMAIN q.changes :
           /\ r \in DOMAIN tx /\ q.changes[r] \in q.file
           /\ NaturalKey(tx[r]) = LineKey(q.acct, q.changes[r])
    /\ \A r \in q.removed : r \in DOMAIN tx /\ tx[r].by = q.by
    /\ \A r \in DOMAIN tx : Replaced(q, tx[r]) =>
           r \in q.removed \/ \E f \in q.file : NaturalKey(tx[r]) = LineKey(q.acct, f)

\* The rows to move into the joint account are personal, and no two of them
\* would be the same bank row there.
MarkReady(q) ==
    /\ q.op = "mark" /\ accounts # {} /\ ~byHand
    /\ \A r \in DOMAIN q.moved :
           /\ r \in DOMAIN tx /\ tx[r].acct # Joint
           /\ q.moved[r].acct = Joint /\ q.moved[r].payer = Joint
           /\ q.moved[r].split \in 0..100 /\ q.moved[r].shares \in Shares \cup {NoShares}
    /\ \A t, r \in DOMAIN q.moved :
           FirstDay(tx[t]) = FirstDay(tx[r]) /\ tx[t].occ = tx[r].occ => t = r

\* The rows to move out of it go to their importer.
UnmarkReady(q) ==
    /\ q.op = "unmark" /\ q.dropped = {} /\ Joint \in accounts /\ ~byHand
    /\ \A r \in DOMAIN q.moved :
           /\ r \in DOMAIN tx
           /\ q.moved[r].acct = tx[r].by /\ q.moved[r].payer = tx[r].by
           /\ q.moved[r].split \in 0..100 /\ q.moved[r].shares = NoShares

Ready(q) == q = Idle \/ UploadReady(q) \/ MarkReady(q) \/ UnmarkReady(q)

Inv == Rows /\ DOMAIN req = Sessions /\ \A s \in Sessions : Ready(req[s])

-----------------------------------------------------------------------------
(* Moving a row between the accounts *)

\* A split is a share of the household, between its two people.
LEMMA SplitFacts ==
    /\ \A p \in Persons, n \in 0..100 : /\ Split(p, n) \in Shares /\ Split(p, n) # NoShares
                                        /\ Split(p, n)[p] = n
    /\ \A shares \in Shares, p \in Persons : shares[p] \in 0..100
    /\ Joint \notin Persons /\ Manual \notin Persons
<1>1. ASSUME NEW p \in Persons, NEW n \in 0..100
      PROVE  Split(p, n) \in Shares /\ Split(p, n) # NoShares /\ Split(p, n)[p] = n
    <2>1. DOMAIN Split(p, n) = Persons /\ DOMAIN NoShares = {}
        BY DEF Split, NoShares
    <2>2. Split(p, n) \in Shares
        BY DEF Shares
    <2>3. Split(p, n)[p] = n
        BY DEF Split
    <2> QED BY <2>1, <2>2, <2>3
<1>2. ASSUME NEW shares \in Shares, NEW p \in Persons PROVE shares[p] \in 0..100
    BY DEF Shares, Split
<1>3. Joint \notin Persons /\ Manual \notin Persons
    BY PersonsAssumption
<1> QED BY <1>1, <1>2, <1>3

\* A personal row becomes the joint account's and comes back as it was.
LEMMA ThereAndBack ==
    ASSUME NEW row, StoredRow(row), row.acct # Joint
    PROVE  InPersonal(AsJoint(row)) = row
<1>1. /\ row.acct \in Persons /\ row.payer = row.acct /\ row.by = row.acct
      /\ row.shares = NoShares /\ row.split \in 0..100
    BY DEF StoredRow, Accounts
<1>2. /\ row = [k \in DOMAIN row |-> row[k]]
      /\ {"acct", "payer", "split", "shares", "by"} \subseteq DOMAIN row
    <2> DEFINE S == Shares \cup {NoShares}
    <2>1. row \in [acct : Accounts, payer : Accounts, day : Days, original : 0..LastDay,
                   occ : Occurrences, text : Texts, split : 0..100,
                   shares : S, by : Persons \cup {Manual}, at : 0..uploads]
        BY DEF StoredRow
    <2> HIDE DEF S
    <2> QED BY <2>1
<1> DEFINE j == AsJoint(row)
           h == InPersonal(j)
           own == {"acct", "payer", "split", "shares"}
<1>3. /\ DOMAIN j = DOMAIN row /\ \A k \in DOMAIN row \ own : j[k] = row[k]
      /\ j.shares = IF row.split < 100 THEN Split(row.payer, row.split) ELSE NoShares
    BY <1>2 DEF AsJoint
<1> HIDE DEF j
<1>4. (IF j.shares = NoShares THEN 100 ELSE j.shares[j.by]) = row.split
    <2>1. j.by = row.by
        BY <1>2, <1>3
    <2> QED BY <1>1, <1>3, <2>1, SplitFacts
<1>5. /\ h = [k \in DOMAIN j |-> h[k]] /\ DOMAIN h = DOMAIN j
      /\ \A k \in DOMAIN j \ own : h[k] = j[k]
      /\ h.acct = j.by /\ h.payer = j.by /\ h.shares = NoShares
      /\ h.split = IF j.shares = NoShares THEN 100 ELSE j.shares[j.by]
    BY <1>2, <1>3 DEF InPersonal
<1> HIDE DEF h
<1>6. h.acct = row.acct /\ h.payer = row.payer /\ h.split = row.split /\ h.shares = row.shares
    BY <1>1, <1>2, <1>3, <1>4, <1>5
<1>7. \A k \in DOMAIN row : h[k] = row[k]
    BY <1>3, <1>5, <1>6
<1>8. h = row
    BY <1>2, <1>3, <1>5, <1>7
<1> QED BY <1>8 DEF h, j

-----------------------------------------------------------------------------
(* In-app edits and hand-entered rows *)

\* The steps that keep every imported row's identity leave what a request found
\* out as it is.
Harmless ==
    /\ UNCHANGED <<uploads, req>>
    /\ \/ UNCHANGED <<accounts, byHand>>
       \/ byHand' = TRUE /\ accounts' = {Joint} /\ (accounts = {} \/ byHand)
    /\ \A r \in DOMAIN tx \ DOMAIN tx' : tx[r].by = Manual
    /\ \A r \in DOMAIN tx' \ DOMAIN tx : tx'[r].by = Manual /\ tx'[r].acct = Joint /\ byHand'
    /\ \A r \in DOMAIN tx \cap DOMAIN tx' :
           /\ tx'[r].acct = tx[r].acct /\ tx'[r].by = tx[r].by /\ tx'[r].at = tx[r].at
           /\ FirstDay(tx'[r]) = FirstDay(tx[r]) /\ tx'[r].occ = tx[r].occ

\* What was read for a request stays fit to write while another
\* request's write is harmless.
LEMMA StillReady ==
    ASSUME Rows, NEW q, Ready(q), Harmless
    PROVE  Ready(q)'
<1>1. \A r \in DOMAIN tx \cap DOMAIN tx' : NaturalKey(tx'[r]) = NaturalKey(tx[r])
    BY DEF Harmless, NaturalKey
<1>2. CASE UploadReady(q)
    <2>1. \A r \in DOMAIN tx : tx[r].by = Manual => tx[r].acct = Joint /\ byHand
        BY SplitFacts DEF Rows, StoredRow, Accounts
    <2>2. \A f : \A r \in DOMAIN tx : NaturalKey(tx[r]) = LineKey(q.acct, f) => tx[r].by # Manual
        BY <1>2, <2>1 DEF UploadReady, NaturalKey, LineKey
    <2>3. \A f : \A r \in DOMAIN tx' : r \notin DOMAIN tx => NaturalKey(tx'[r]) # LineKey(q.acct, f)
        BY <1>2, SplitFacts DEF UploadReady, NaturalKey, LineKey, Harmless
    <2>4. \A r \in DOMAIN tx' : r \notin DOMAIN tx => tx'[r].by # q.by
        BY <1>2, SplitFacts DEF UploadReady, Harmless
    <2>5. q.acct = Joint <=> Joint \in accounts' /\ ~byHand'
        BY <1>2, SplitFacts DEF UploadReady, Harmless
    <2>6. \A f \in q.new, r \in DOMAIN tx' : NaturalKey(tx'[r]) # LineKey(q.acct, f)
        BY <1>1, <1>2, <2>3 DEF UploadReady
    <2>7. ASSUME NEW f \in q.file \ q.new
          PROVE  \E r \in DOMAIN tx' \ q.removed : NaturalKey(tx'[r]) = LineKey(q.acct, f)
        <3>1. PICK r \in DOMAIN tx \ q.removed : NaturalKey(tx[r]) = LineKey(q.acct, f)
            BY <1>2 DEF UploadReady
        <3>2. r \in DOMAIN tx'
            BY <2>2, <3>1 DEF Harmless
        <3> QED BY <1>1, <3>1, <3>2
    <2>8. ASSUME NEW r \in DOMAIN q.changes
          PROVE  /\ r \in DOMAIN tx' /\ q.changes[r] \in q.file
                 /\ NaturalKey(tx'[r]) = LineKey(q.acct, q.changes[r])
        <3>1. /\ r \in DOMAIN tx /\ q.changes[r] \in q.file
              /\ NaturalKey(tx[r]) = LineKey(q.acct, q.changes[r])
            BY <1>2 DEF UploadReady
        <3>2. r \in DOMAIN tx'
            BY <2>2, <3>1 DEF Harmless
        <3> QED BY <1>1, <3>1, <3>2
    <2>9. \A r \in q.removed : r \in DOMAIN tx' /\ tx'[r].by = q.by
        BY <1>2, SplitFacts DEF UploadReady, Harmless
    <2>10. ASSUME NEW r \in DOMAIN tx', Replaced(q, tx'[r])
           PROVE  r \in q.removed \/ \E f \in q.file : NaturalKey(tx'[r]) = LineKey(q.acct, f)
        <3>1. r \in DOMAIN tx
            BY <2>4, <2>10 DEF Replaced
        <3>2. FirstDay(tx'[r]) = FirstDay(tx[r]) /\ tx[r].by = tx'[r].by /\ tx[r].acct = tx'[r].acct
            BY <2>10, <3>1 DEF Harmless
        <3>3. Replaced(q, tx[r])
            BY <2>10, <3>2 DEF Replaced
        <3> QED BY <1>1, <1>2, <3>1, <3>2, <3>3 DEF UploadReady
    <2>11. UploadReady(q)'
        BY <1>2, <2>5, <2>6, <2>7, <2>8, <2>9, <2>10 DEF UploadReady
    <2> QED BY <2>11 DEF Ready
<1>3. CASE MarkReady(q)
    <2>1. UNCHANGED <<accounts, byHand>>
        BY <1>3 DEF MarkReady, Harmless
    <2>2. \A r \in DOMAIN q.moved : r \in DOMAIN tx'
        BY <1>3, SplitFacts DEF MarkReady, Harmless, Rows, StoredRow, Accounts
    <2>3. MarkReady(q)'
        BY <1>3, <2>1, <2>2 DEF MarkReady, Harmless
    <2> QED BY <2>3 DEF Ready
<1>4. CASE UnmarkReady(q)
    <2>1. UNCHANGED <<accounts, byHand>>
        BY <1>4 DEF UnmarkReady, Harmless
    <2>2. \A r \in DOMAIN q.moved : r \in DOMAIN tx'
        BY <1>4, SplitFacts DEF UnmarkReady, Harmless, Rows, StoredRow, Accounts
    <2>3. UnmarkReady(q)'
        BY <1>4, <2>1, <2>2 DEF UnmarkReady, Harmless
    <2> QED BY <2>3 DEF Ready
<1>5. CASE q = Idle
    BY <1>5 DEF Ready
<1> QED BY <1>2, <1>3, <1>4, <1>5 DEF Ready

\* Rows that keep what identifies them keep the rows' invariant.
LEMMA HarmlessRows ==
    ASSUME Rows, Harmless, DOMAIN tx' \subseteq Ids, (\A r \in DOMAIN tx : StoredRow(tx[r]))'
    PROVE  Rows'
<1>1. \A r \in DOMAIN tx' : tx'[r].by # Manual =>
          /\ r \in DOMAIN tx /\ tx[r].by = tx'[r].by /\ tx[r].at = tx'[r].at
          /\ NaturalKey(tx'[r]) = NaturalKey(tx[r])
    BY DEF Harmless, NaturalKey
<1>2. OneUploader'
    BY <1>1 DEF Rows, OneUploader
<1>3. StoredOnce'
    BY <1>1 DEF Rows, StoredOnce
<1>4. OneHome' /\ accounts' \subseteq Accounts /\ byHand' \in BOOLEAN /\ uploads' \in Nat
    <2>1. uploads' = uploads
        BY DEF Harmless
    <2>2. CASE accounts' = accounts /\ byHand' = byHand
        BY <2>1, <2>2 DEF Rows, OneHome
    <2>3. CASE byHand' = TRUE /\ accounts' = {Joint}
        BY <2>1, <2>3 DEF Rows, OneHome, Accounts
    <2> QED BY <2>2, <2>3 DEF Harmless
<1> QED BY <1>2, <1>3, <1>4 DEF Rows

\* An edit by hand of a stored row keeps its place and identity, so
\* it harms no request that waits.
LEMMA EditKeeps ==
    ASSUME Rows, NEW r \in DOMAIN tx, NEW row, Edit(r, row), StoredRow(row),
           row.acct = tx[r].acct, row.by = tx[r].by, row.at = tx[r].at,
           FirstDay(row) = FirstDay(tx[r]), row.occ = tx[r].occ
    PROVE  Rows' /\ Harmless
<1>1. /\ UNCHANGED <<accounts, byHand, uploads, req>> /\ DOMAIN tx' = DOMAIN tx
      /\ \A t \in DOMAIN tx : tx'[t] = IF t = r THEN row ELSE tx[t]
    BY DEF Edit
<1>2. Harmless
    BY <1>1 DEF Harmless
<1>3. (\A t \in DOMAIN tx : StoredRow(tx[t]))'
    BY <1>1 DEF Rows, StoredRow
<1> QED BY <1>1, <1>2, <1>3, HarmlessRows DEF Rows

\* An edit in the app.
LEMMA EditStep ==
    ASSUME Rows, NEW r \in DOMAIN tx,
           EditDay(r) \/ EditText(r) \/ EditSplit(r) \/ EditShares(r)
    PROVE  Rows' /\ Harmless
<1> DEFINE row == tx[r]
           S == Shares \cup {NoShares}
           RowType == [acct : Accounts, payer : Accounts, day : Days, original : 0..LastDay,
                       occ : Occurrences, text : Texts, split : 0..100,
                       shares : S, by : Persons \cup {Manual}, at : 0..uploads]
           Placed(x) == /\ x.payer = x.acct /\ x.acct \in accounts
                        /\ x.shares # NoShares => x.acct = Joint
                        /\ x.acct # Joint => x.by = x.acct
                        /\ x.acct = Joint => (byHand <=> x.by = Manual)
<1>1. /\ row \in RowType /\ Placed(row)
      /\ \A x : x \in RowType /\ Placed(x) => StoredRow(x)
    BY DEF Rows, StoredRow
<1> HIDE DEF S, row
<1>2. CASE EditDay(r)
    <2> PICK day \in Days \ {row.day} : Edit(r, [row EXCEPT !.day = day, !.original = FirstDay(row)])
        BY <1>2 DEF EditDay, row
    <2> DEFINE x == [row EXCEPT !.day = day, !.original = FirstDay(row)]
    <2>1. FirstDay(row) \in Days /\ FirstDay(row) \in 0..LastDay /\ FirstDay(row) # 0
        BY <1>1, DaysAssumption DEF FirstDay, Days
    <2>2. x \in RowType /\ Placed(x) /\ x.acct = row.acct /\ x.by = row.by /\ x.at = row.at
          /\ x.occ = row.occ /\ FirstDay(x) = FirstDay(row)
        BY <1>1, <2>1 DEF FirstDay
    <2> HIDE DEF x, RowType, Placed
    <2>3. StoredRow(x)
        BY <1>1, <2>2
    <2> QED BY <2>2, <2>3, EditKeeps DEF x, row
<1>3. CASE EditText(r)
    <2> PICK text \in Texts : Edit(r, [row EXCEPT !.text = text])
        BY <1>3 DEF EditText, row
    <2> DEFINE x == [row EXCEPT !.text = text]
    <2>2. x \in RowType /\ Placed(x) /\ x.acct = row.acct /\ x.by = row.by /\ x.at = row.at
          /\ x.occ = row.occ /\ FirstDay(x) = FirstDay(row)
        BY <1>1 DEF FirstDay
    <2> HIDE DEF x, RowType, Placed
    <2>3. StoredRow(x)
        BY <1>1, <2>2
    <2> QED BY <2>2, <2>3, EditKeeps DEF x, row
<1>4. CASE EditSplit(r)
    <2> PICK percent \in HandSplits : Edit(r, [row EXCEPT !.split = percent])
        BY <1>4 DEF EditSplit, row
    <2> DEFINE x == [row EXCEPT !.split = percent]
    <2>2. x \in RowType /\ Placed(x) /\ x.acct = row.acct /\ x.by = row.by /\ x.at = row.at
          /\ x.occ = row.occ /\ FirstDay(x) = FirstDay(row)
        BY <1>1, SplitsAssumption DEF FirstDay
    <2> HIDE DEF x, RowType, Placed
    <2>3. StoredRow(x)
        BY <1>1, <2>2
    <2> QED BY <2>2, <2>3, EditKeeps DEF x, row
<1>5. CASE EditShares(r)
    <2>1. PICK shares \in {Split(p, n) : p \in Persons, n \in HandSplits} \cup {NoShares} :
              row.payer = Joint /\ Edit(r, [row EXCEPT !.shares = shares])
        BY <1>5 DEF EditShares, row
    <2> DEFINE x == [row EXCEPT !.shares = shares]
    <2>2. shares \in S
        <3>1. CASE shares = NoShares
            BY <3>1 DEF S
        <3>2. CASE shares \in {Split(p, n) : p \in Persons, n \in HandSplits}
            <4>1. PICK p \in Persons, n \in HandSplits : shares = Split(p, n)
                BY <3>2
            <4>2. n \in 0..100
                BY SplitsAssumption
            <4> QED BY <4>1, <4>2, SplitFacts DEF S
        <3> QED BY <2>1, <3>1, <3>2
    <2>3. row.payer = Joint /\ Edit(r, x)
        BY <2>1
    <2>4. x \in RowType /\ Placed(x) /\ x.acct = row.acct /\ x.by = row.by /\ x.at = row.at
          /\ x.occ = row.occ /\ FirstDay(x) = FirstDay(row)
        <3>1. x \in RowType
            BY <1>1, <2>2
        <3>2. x.shares = shares /\ x.acct = row.acct /\ x.by = row.by /\ x.at = row.at
              /\ x.occ = row.occ /\ x.payer = row.payer
            BY <1>1
        <3>3. FirstDay(x) = FirstDay(row)
            BY <1>1 DEF FirstDay
        <3>4. Placed(x)
            BY <1>1, <2>3, <3>2
        <3> QED BY <3>1, <3>2, <3>3, <3>4
    <2> HIDE DEF x, RowType, Placed
    <2>5. StoredRow(x)
        BY <1>1, <2>4
    <2> QED BY <2>3, <2>4, <2>5, EditKeeps DEF row
<1> QED BY <1>2, <1>3, <1>4, <1>5

\* A hand-entered row comes and goes.
LEMMA ManualStep ==
    ASSUME Rows, RecordManual \/ \E r \in DOMAIN tx : DeleteManual(r)
    PROVE  Rows' /\ Harmless
<1>1. ASSUME NEW r \in DOMAIN tx, DeleteManual(r) PROVE Rows' /\ Harmless
    <2>1. /\ UNCHANGED <<accounts, byHand, uploads, req>> /\ DOMAIN tx' = DOMAIN tx \ {r}
          /\ tx[r].by = Manual /\ \A t \in DOMAIN tx' : tx'[t] = tx[t]
        BY <1>1 DEF DeleteManual, Restrict
    <2>2. Harmless
        BY <2>1 DEF Harmless
    <2>3. (\A t \in DOMAIN tx : StoredRow(tx[t]))'
        BY <2>1 DEF Rows, StoredRow
    <2> QED BY <2>1, <2>2, <2>3, HarmlessRows DEF Rows
<1>2. ASSUME RecordManual PROVE Rows' /\ Harmless
    <2>1. PICK r \in Ids \ DOMAIN tx, day \in Days, text \in Texts, p \in Persons, n \in HandSplits :
              /\ accounts = {} \/ (accounts = {Joint} /\ byHand)
              /\ NextOccurrence(day) \in Occurrences
              /\ accounts' = {Joint} /\ byHand' = TRUE
              /\ tx' = [t \in DOMAIN tx \cup {r} |->
                          IF t # r THEN tx[t]
                          ELSE [acct |-> Joint, payer |-> Joint, day |-> day, original |-> 0,
                                occ |-> NextOccurrence(day), text |-> text, split |-> 100,
                                shares |-> Split(p, n), by |-> Manual, at |-> 0]]
              /\ UNCHANGED <<uploads, req>>
        BY <1>2 DEF RecordManual
    <2> DEFINE occ == NextOccurrence(day)
    <2> HIDE DEF occ
    <2>2. /\ tx'[r].acct = Joint /\ tx'[r].payer = Joint /\ tx'[r].by = Manual
          /\ tx'[r] = [acct |-> Joint, payer |-> Joint, day |-> day, original |-> 0,
                       occ |-> occ, text |-> text, split |-> 100,
                       shares |-> Split(p, n), by |-> Manual, at |-> 0]
          /\ DOMAIN tx' = DOMAIN tx \cup {r} /\ \A t \in DOMAIN tx : tx'[t] = tx[t]
        BY <2>1 DEF occ
    <2>3. Harmless
        BY <2>1, <2>2 DEF Harmless
    <2>4. Split(p, n) \in Shares /\ occ \in Occurrences
        BY <2>1, SplitFacts, SplitsAssumption DEF occ
    <2> DEFINE S == Shares \cup {NoShares}
               x == tx'[r]
    <2> HIDE DEF S, x
    <2>5. x \in [acct : Accounts, payer : Accounts, day : Days, original : 0..LastDay,
                 occ : Occurrences, text : Texts, split : 0..100,
                 shares : S, by : Persons \cup {Manual}, at : 0..uploads]
        <3>1. Joint \in Accounts /\ 0 \in 0..LastDay /\ 0 \in 0..uploads /\ Split(p, n) \in S
            BY <2>4, DaysAssumption DEF Rows, Accounts, S
        <3> QED BY <2>2, <2>4, <3>1 DEF x
    <2>6. ASSUME NEW t \in DOMAIN tx' PROVE StoredRow(tx[t])'
        <3>1. CASE t = r
            BY <2>1, <2>2, <2>5, <3>1 DEF StoredRow, S, x
        <3>2. CASE t # r
            <4>1. t \in DOMAIN tx /\ tx'[t] = tx[t] /\ StoredRow(tx[t])
                BY <2>2, <3>2 DEF Rows
            <4>2. tx[t].acct = Joint /\ byHand /\ accounts' = accounts
                BY <2>1, <4>1 DEF StoredRow
            <4>3. byHand' = byHand /\ uploads' = uploads
                BY <2>1, <4>2 DEF Rows
            <4> QED BY <4>1, <4>2, <4>3 DEF StoredRow
        <3> QED BY <3>1, <3>2
    <2> QED BY <2>2, <2>3, <2>6, HarmlessRows DEF Rows
<1> QED BY <1>1, <1>2

-----------------------------------------------------------------------------
(* What a request reads *)

\* A request that begins with what it read fit to write keeps the
\* invariant.
LEMMA BeginKeeps ==
    ASSUME Inv, NEW s \in Sessions, NEW q, Begin(s, q), UNCHANGED db, Ready(q)
    PROVE  Inv'
<1>1. /\ DOMAIN req' = Sessions /\ req'[s] = q
      /\ \A t \in Sessions : t # s => req'[t] = req[t]
    BY DEF Inv, Begin
<1>2. UNCHANGED <<accounts, byHand, tx, uploads>>
    BY DEF db
<1>3. Rows'
    BY <1>2 DEF Inv, Rows, StoredRow, OneUploader, StoredOnce, OneHome
<1>4. \A x : Ready(x) => Ready(x)'
    <2> TAKE x
    <2>1. UploadReady(x) => UploadReady(x)'
        BY <1>2 DEF UploadReady
    <2>2. MarkReady(x) => MarkReady(x)'
        BY <1>2 DEF MarkReady
    <2>3. UnmarkReady(x) => UnmarkReady(x)'
        BY <1>2 DEF UnmarkReady
    <2> QED BY <2>1, <2>2, <2>3 DEF Ready
<1> QED BY <1>1, <1>3, <1>4 DEF Inv

\* What an upload compares its file with is what is stored.
LEMMA UploadFinds ==
    ASSUME Rows, NEW p \in Persons, NEW F \in Files, NEW w \in Windows(F), NEW accepted,
           accepted \subseteq UNION {TwinsOf(f, Existing(p, F, w, Target(p)), Target(p)) : f \in F}
    PROVE  LET acct == Target(p)
               R == Existing(p, F, w, acct)
               lineOf == [r \in UNION {TwinsOf(f, R, acct) : f \in F} |->
                             CHOOSE f \in F : r \in TwinsOf(f, R, acct)] IN
           UploadReady([op |-> "upload", by |-> p, file |-> F, days |-> w, acct |-> acct,
                        new |-> {f \in F : TwinsOf(f, R, acct) = {}},
                        changes |-> [r \in accepted |-> lineOf[r]],
                        removed |-> Gone(p, F, R, acct)])
<1> DEFINE acct == Target(p)
           R == Existing(p, F, w, acct)
           lineOf == [r \in UNION {TwinsOf(f, R, acct) : f \in F} |->
                         CHOOSE f \in F : r \in TwinsOf(f, R, acct)]
           new == {f \in F : TwinsOf(f, R, acct) = {}}
           changes == [r \in accepted |-> lineOf[r]]
           removed == Gone(p, F, R, acct)
<1>1. acct \in {Joint, p} /\ p # Joint /\ p # Manual /\ (acct = Joint <=> Joint \in accounts /\ ~byHand)
    BY SplitFacts DEF Target
<1> HIDE DEF acct
<1>2. \A f \in F : InWindow(w, f.day) /\ acct \in Scope(p, F, acct)
    BY DEF Windows, InWindow, Scope
<1>3. \A r : r \in R <=> r \in DOMAIN tx /\ tx[r].acct \in Scope(p, F, acct) /\ InWindow(w, FirstDay(tx[r]))
    BY DEF Existing
<1>4. \A r \in DOMAIN tx, f \in F : NaturalKey(tx[r]) = LineKey(acct, f) => r \in TwinsOf(f, R, acct)
    <2> SUFFICES ASSUME NEW r \in DOMAIN tx, NEW f \in F, NaturalKey(tx[r]) = LineKey(acct, f)
                 PROVE  r \in TwinsOf(f, R, acct)
        OBVIOUS
    <2>1. tx[r].acct = acct /\ FirstDay(tx[r]) = f.day
        BY DEF NaturalKey, LineKey
    <2> QED BY <1>2, <1>3, <2>1 DEF TwinsOf
<1>5. \A r, f : r \in TwinsOf(f, R, acct) <=> r \in R /\ NaturalKey(tx[r]) = LineKey(acct, f)
    BY DEF TwinsOf
<1>6. \A r : r \in removed <=>
          /\ r \in R /\ Owns(p, tx[r])
          /\ \A f \in F : NaturalKey(tx[r]) # LineKey(acct, f)
    BY DEF Gone
<1>7. \A r \in DOMAIN tx : Owns(p, tx[r]) => tx[r].by = p
    BY <1>1 DEF Rows, StoredRow, Owns
<1>8. \A r \in DOMAIN tx : tx[r].by = p => Owns(p, tx[r])
    BY <1>1 DEF Rows, StoredRow, Owns
<1> HIDE DEF R, removed
<1>9. ASSUME NEW r \in accepted
      PROVE  r \in DOMAIN tx /\ changes[r] \in F /\ NaturalKey(tx[r]) = LineKey(acct, changes[r])
    <2>1. r \in UNION {TwinsOf(f, R, acct) : f \in F}
        BY DEF R, acct
    <2>2. PICK f \in F : r \in TwinsOf(f, R, acct)
        BY <2>1
    <2>3. lineOf[r] \in F /\ r \in TwinsOf(lineOf[r], R, acct)
        BY <2>1, <2>2
    <2>4. changes[r] = lineOf[r]
        OBVIOUS
    <2> HIDE DEF changes, lineOf
    <2> QED BY <1>3, <1>5, <2>3, <2>4
<1>10. \A f \in new, r \in DOMAIN tx : NaturalKey(tx[r]) # LineKey(acct, f)
    BY <1>4
<1>11. \A f \in F \ new : \E r \in DOMAIN tx \ removed : NaturalKey(tx[r]) = LineKey(acct, f)
    BY <1>3, <1>5, <1>6
<1>12. \A r \in removed : r \in DOMAIN tx /\ tx[r].by = p
    BY <1>3, <1>6, <1>7
<1>13. \A r \in DOMAIN tx :
           tx[r].by = p /\ tx[r].acct \in Scope(p, F, acct) /\ InWindow(w, FirstDay(tx[r])) =>
           r \in removed \/ \E f \in F : NaturalKey(tx[r]) = LineKey(acct, f)
    BY <1>3, <1>6, <1>8
<1>14. DOMAIN changes = accepted /\ new \subseteq F
    OBVIOUS
<1> HIDE DEF new, changes
<1>15. UploadReady([op |-> "upload", by |-> p, file |-> F, days |-> w, acct |-> acct, new |-> new,
                    changes |-> changes, removed |-> removed])
    <2> DEFINE q == [op |-> "upload", by |-> p, file |-> F, days |-> w, acct |-> acct, new |-> new,
                     changes |-> changes, removed |-> removed]
    <2>1. /\ q.op = "upload" /\ q.by = p /\ q.file = F /\ q.days = w /\ q.acct = acct
          /\ q.new = new /\ q.changes = changes /\ q.removed = removed
        OBVIOUS
    <2> HIDE DEF q
    <2>2. \A r \in DOMAIN tx : Replaced(q, tx[r]) =>
              r \in q.removed \/ \E f \in q.file : NaturalKey(tx[r]) = LineKey(q.acct, f)
        BY <1>13, <2>1 DEF Replaced
    <2>3. UploadReady(q)
        BY <1>1, <1>9, <1>10, <1>11, <1>12, <1>14, <2>1, <2>2 DEF UploadReady
    <2> QED BY <2>3 DEF q
<1> QED BY <1>15 DEF acct, R, lineOf, new, changes, removed

\* The reads of an upload: what it finds new, changed and gone agrees
\* with the table.
LEMMA FetchUploadStep == ASSUME Inv, NEW s \in Sessions, FetchUpload(s) PROVE Inv'
<1>0. PICK p \in Persons, F \in Files : \E w \in Windows(F) : FetchFile(s, p, F, w)
    BY DEF FetchUpload
<1>1. PICK w \in Windows(F) : FetchFile(s, p, F, w)
    BY <1>0
<1> DEFINE acct == Target(p)
           R == Existing(p, F, w, acct)
           lineOf == [r \in UNION {TwinsOf(f, R, acct) : f \in F} |->
                         CHOOSE f \in F : r \in TwinsOf(f, R, acct)]
           request(accepted) ==
               [op |-> "upload", by |-> p, file |-> F, days |-> w, acct |-> acct,
                new |-> {f \in F : TwinsOf(f, R, acct) = {}},
                changes |-> [r \in accepted |-> lineOf[r]],
                removed |-> Gone(p, F, R, acct)]
<1>2. PICK accepted \in SUBSET {r \in DOMAIN lineOf : Differs(lineOf[r], acct, tx[r])} :
          Begin(s, request(accepted))
    BY <1>1 DEF FetchFile
<1>3. accepted \subseteq UNION {TwinsOf(f, R, acct) : f \in F}
    <2>1. DOMAIN lineOf = UNION {TwinsOf(f, R, acct) : f \in F}
        OBVIOUS
    <2> HIDE DEF lineOf, R, acct
    <2> QED BY <2>1
<1>4. UploadReady(request(accepted))
    BY <1>3, UploadFinds DEF Inv
<1>5. UNCHANGED db
    BY DEF FetchUpload
<1> HIDE DEF request
<1> QED BY <1>2, <1>4, <1>5, BeginKeeps DEF Ready

\* Of the twins a mark would join, one is kept: the partners' older one, since
\* twins of one person in one account there are none.
LEMMA FetchMarkStep == ASSUME Inv, NEW s \in Sessions, FetchMark(s) PROVE Inv'
<1> DEFINE moved == [r \in RowsIn(Persons) |-> AsJoint(tx[r])]
           kept == Restrict(moved, DOMAIN moved \ Dropped(moved))
           q == [op |-> "mark", dropped |-> Dropped(moved), moved |-> kept]
<1>1. accounts # {} /\ ~byHand /\ Begin(s, q) /\ UNCHANGED db
    BY DEF FetchMark
<1>2. /\ DOMAIN kept = DOMAIN moved \ Dropped(moved)
      /\ \A r \in DOMAIN kept : kept[r] = moved[r]
    BY DEF Restrict
<1>3. ASSUME NEW r \in DOMAIN moved
      PROVE  /\ r \in DOMAIN tx /\ tx[r].acct \in Persons /\ tx[r].by = tx[r].acct /\ tx[r].at \in Nat
             /\ moved[r].acct = Joint /\ moved[r].payer = Joint
             /\ moved[r].split \in 0..100 /\ moved[r].shares \in Shares \cup {NoShares}
             /\ moved[r].at = tx[r].at
             /\ NaturalKey(moved[r]) = <<Joint, FirstDay(tx[r]), tx[r].occ>>
    <2> DEFINE row == tx[r]
    <2>1. r \in DOMAIN tx /\ row.acct \in Persons /\ moved[r] = AsJoint(row)
        BY DEF RowsIn
    <2>2. /\ StoredRow(row) /\ row.by = row.acct /\ row.payer \in Persons /\ row.split \in 0..100
          /\ row.at \in 0..uploads /\ uploads \in Nat
          /\ {"acct", "payer", "day", "original", "occ", "split", "shares", "at"} \subseteq DOMAIN row
        BY <2>1, SplitFacts DEF Inv, Rows, StoredRow
    <2> HIDE DEF row, moved
    <2> DEFINE j == AsJoint(row)
    <2>3. /\ j.acct = Joint /\ j.payer = Joint /\ j.split = 100 /\ j.at = row.at
          /\ j.shares = IF row.split < 100 THEN Split(row.payer, row.split) ELSE NoShares
          /\ j.day = row.day /\ j.original = row.original /\ j.occ = row.occ
        BY <2>2 DEF AsJoint
    <2> HIDE DEF j
    <2>4. j.shares \in Shares \cup {NoShares}
        BY <2>2, <2>3, SplitFacts
    <2>5. NaturalKey(j) = <<Joint, FirstDay(row), row.occ>>
        BY <2>3 DEF NaturalKey, FirstDay
    <2> QED BY <2>1, <2>2, <2>3, <2>4, <2>5 DEF row, j
<1>4. \A r \in DOMAIN moved : r \notin Dropped(moved) => \A k \in DOMAIN moved :
          NaturalKey(moved[k]) = NaturalKey(moved[r]) => ~(moved[k].at < moved[r].at)
    BY DEF Dropped
<1> HIDE DEF moved, kept
<1>5. ASSUME NEW t \in DOMAIN kept, NEW r \in DOMAIN kept,
             FirstDay(tx[t]) = FirstDay(tx[r]), tx[t].occ = tx[r].occ
      PROVE  t = r
    <2>1. tx[t].at = tx[r].at
        BY <1>2, <1>3, <1>4, <1>5
    <2>2. /\ t \in DOMAIN tx /\ r \in DOMAIN tx /\ tx[t].by = tx[t].acct /\ tx[r].by = tx[r].acct
          /\ tx[t].by # Manual /\ tx[r].by # Manual
        BY <1>2, <1>3, SplitFacts
    <2>3. tx[t].acct = tx[r].acct
        BY <2>1, <2>2 DEF Inv, Rows, OneUploader
    <2>4. NaturalKey(tx[t]) = NaturalKey(tx[r])
        BY <1>5, <2>3 DEF NaturalKey
    <2> QED BY <2>2, <2>4 DEF Inv, Rows, StoredOnce
<1>6. \A r \in DOMAIN kept : tx[r].acct # Joint
    BY <1>2, <1>3, SplitFacts
<1>7. MarkReady(q)
    BY <1>1, <1>2, <1>3, <1>5, <1>6 DEF MarkReady
<1> HIDE DEF q
<1> QED BY <1>1, <1>7, BeginKeeps DEF Ready

\* The reads of an unmarking name rows of the joint account only.
LEMMA FetchUnmarkStep == ASSUME Inv, NEW s \in Sessions, FetchUnmark(s) PROVE Inv'
<1> DEFINE moved == [r \in RowsIn({Joint}) |-> InPersonal(tx[r])]
           q == [op |-> "unmark", dropped |-> {}, moved |-> moved]
<1>1. Joint \in accounts /\ ~byHand /\ Begin(s, q) /\ UNCHANGED db
    BY DEF FetchUnmark
<1>2. ASSUME NEW r \in DOMAIN moved
      PROVE  /\ r \in DOMAIN tx
             /\ moved[r].acct = tx[r].by /\ moved[r].payer = tx[r].by
             /\ moved[r].split \in 0..100 /\ moved[r].shares = NoShares
    <2> DEFINE row == tx[r]
    <2>1. r \in DOMAIN tx /\ row.acct = Joint /\ moved[r] = InPersonal(row)
        BY DEF RowsIn
    <2>2. /\ row.by \in Persons /\ row.shares \in Shares \cup {NoShares}
          /\ {"acct", "payer", "split", "shares"} \subseteq DOMAIN row
        BY <1>1, <2>1, SplitFacts DEF Inv, Rows, StoredRow
    <2> HIDE DEF row, moved
    <2> DEFINE h == InPersonal(row)
    <2>3. /\ h.acct = row.by /\ h.payer = row.by /\ h.shares = NoShares
          /\ h.split = IF row.shares = NoShares THEN 100 ELSE row.shares[row.by]
        BY <2>2 DEF InPersonal
    <2> HIDE DEF h
    <2>4. h.split \in 0..100
        BY <2>2, <2>3, SplitFacts
    <2> QED BY <2>1, <2>3, <2>4 DEF row, h
<1> HIDE DEF moved
<1>3. UnmarkReady(q)
    BY <1>1, <1>2 DEF UnmarkReady
<1> HIDE DEF q
<1> QED BY <1>1, <1>3, BeginKeeps DEF Ready

-----------------------------------------------------------------------------
(* The moves *)

\* The write of the only request that runs leaves no other to check.
LEMMA FinishKeeps ==
    ASSUME OneAtATime, Inv, NEW s \in Sessions, Finish(s), Rows'
    PROVE  Inv'
<1>1. DOMAIN req' = Sessions /\ \A t \in Sessions : req'[t] = Idle
    BY DEF OneAtATime, Inv, Finish
<1> QED BY <1>1 DEF Inv, Ready

\* A request's operation says what it found out.
LEMMA WhatIsReady ==
    ASSUME Inv, NEW s \in Sessions
    PROVE  /\ req[s].op = "upload" => UploadReady(req[s])
           /\ req[s].op = "mark" => MarkReady(req[s])
           /\ req[s].op = "unmark" => UnmarkReady(req[s])
<1>1. Ready(req[s]) /\ Idle.op = "none"
    BY DEF Inv, Idle
<1> QED BY <1>1 DEF Ready, UploadReady, MarkReady, UnmarkReady

\* A moved row keeps its day, its occurrence, its importer and its upload.
MovedTo(row, A, percent, shares) ==
    [row EXCEPT !.acct = A, !.payer = A, !.split = percent, !.shares = shares]
OwnerShares == Shares \cup {NoShares}
RowType ==
    [acct : Accounts, payer : Accounts, day : Days, original : 0..LastDay,
     occ : Occurrences, text : Texts, split : 0..100,
     shares : OwnerShares, by : Persons \cup {Manual}, at : 0..uploads]

Moved(x, row, A, shares) ==
    /\ x \in RowType /\ x.acct = A /\ x.payer = A /\ x.shares = shares
    /\ x.by = row.by /\ x.at = row.at
    /\ NaturalKey(x) = <<A, FirstDay(row), row.occ>>

\* A row moved to another account changes its account, split and
\* shares alone.
LEMMA MovedRow ==
    ASSUME NEW row \in RowType, NEW A \in Accounts, NEW percent \in 0..100,
           NEW shares \in OwnerShares
    PROVE  Moved(MovedTo(row, A, percent, shares), row, A, shares)
<1> DEFINE S == OwnerShares
           x == MovedTo(row, A, percent, shares)
<1>1. row \in [acct : Accounts, payer : Accounts, day : Days, original : 0..LastDay,
               occ : Occurrences, text : Texts, split : 0..100,
               shares : S, by : Persons \cup {Manual}, at : 0..uploads]
    BY DEF RowType
<1> HIDE DEF S
<1>2. /\ x \in [acct : Accounts, payer : Accounts, day : Days, original : 0..LastDay,
                occ : Occurrences, text : Texts, split : 0..100,
                shares : S, by : Persons \cup {Manual}, at : 0..uploads]
      /\ x.acct = A /\ x.payer = A /\ x.shares = shares
      /\ x.by = row.by /\ x.at = row.at /\ x.day = row.day /\ x.original = row.original
      /\ x.occ = row.occ
    BY <1>1 DEF MovedTo, S
<1> HIDE DEF x
<1>3. NaturalKey(x) = <<A, FirstDay(row), row.occ>>
    BY <1>2 DEF NaturalKey, FirstDay
<1> QED BY <1>2, <1>3 DEF x, S, RowType, Moved

\* Marking an account joint moves the rows it read, once.
LEMMA CommitMarkStep ==
    ASSUME OneAtATime, Inv, NEW s \in Sessions, CommitMark(s) PROVE Inv'
<1> DEFINE q == req[s]
<1>1. MarkReady(q) /\ Rows
    BY WhatIsReady DEF CommitMark, Inv
<1>2. /\ accounts' = (accounts \cup {Joint}) \ Persons
      /\ tx' = Restrict(Rekeyed(q.moved), DOMAIN Rekeyed(q.moved) \ q.dropped)
      /\ Storable(tx', accounts') /\ Finish(s) /\ byHand' = byHand /\ uploads' = uploads
    BY DEF CommitMark, Move
<1>3. accounts' = {Joint} /\ ~byHand
    BY <1>1, <1>2, SplitFacts DEF MarkReady, Rows, Accounts
<1>4. /\ DOMAIN tx' = DOMAIN tx \ q.dropped
      /\ \A r \in DOMAIN tx' : tx'[r] =
             IF r \in DOMAIN q.moved
             THEN MovedTo(tx[r], Joint, q.moved[r].split, q.moved[r].shares)
             ELSE tx[r]
    BY <1>1, <1>2 DEF MarkReady, Restrict, Rekeyed, MovedTo
<1>5. \A r \in DOMAIN tx' : tx'[r].acct = Joint
    BY <1>2, <1>3 DEF Storable
<1> HIDE DEF q
<1>6. ASSUME NEW r \in DOMAIN tx', r \in DOMAIN q.moved
      PROVE  /\ tx'[r] \in RowType
             /\ tx'[r].payer = Joint /\ tx'[r].by = tx[r].by /\ tx'[r].at = tx[r].at
             /\ tx[r].by # Manual
             /\ NaturalKey(tx'[r]) = <<Joint, FirstDay(tx[r]), tx[r].occ>>
    <2>1. /\ r \in DOMAIN tx /\ tx[r].acct # Joint
          /\ q.moved[r].acct = Joint /\ q.moved[r].payer = Joint
          /\ q.moved[r].split \in 0..100 /\ q.moved[r].shares \in Shares \cup {NoShares}
        BY <1>1, <1>6 DEF MarkReady
    <2>2. tx'[r] = MovedTo(tx[r], Joint, q.moved[r].split, q.moved[r].shares)
        BY <1>4, <1>6, <2>1
    <2>3. Joint \in Accounts /\ tx[r].by # Manual
        BY <1>1, <2>1, SplitFacts DEF Rows, StoredRow, Accounts
    <2>4. tx[r] \in RowType
        BY <1>1, <2>1 DEF Rows, StoredRow, RowType, OwnerShares
    <2> DEFINE row == tx[r]
               x == tx'[r]
               percent == q.moved[r].split
               shares == q.moved[r].shares
    <2>5. /\ row \in RowType /\ percent \in 0..100 /\ shares \in OwnerShares
          /\ x = MovedTo(row, Joint, percent, shares)
        BY <2>1, <2>2, <2>4 DEF OwnerShares
    <2> HIDE DEF row, x, percent, shares
    <2>6. Moved(x, row, Joint, shares)
        BY <2>3, <2>5, MovedRow
    <2> QED BY <2>3, <2>6 DEF x, row, Moved
<1>7. ASSUME NEW r \in DOMAIN tx' PROVE StoredRow(tx[r])'
    <2>1. CASE r \in DOMAIN q.moved
        BY <1>2, <1>3, <1>5, <1>6, <2>1 DEF StoredRow, RowType, OwnerShares
    <2>2. CASE r \notin DOMAIN q.moved
        <3>1. StoredRow(tx[r]) /\ tx'[r] = tx[r]
            BY <1>1, <1>4, <2>2 DEF Rows
        <3> QED BY <1>2, <1>3, <1>5, <3>1 DEF StoredRow
    <2> QED BY <2>1, <2>2
<1>8. \A r \in DOMAIN tx' : r \in DOMAIN tx /\ tx'[r].by = tx[r].by /\ tx'[r].at = tx[r].at
    BY <1>4, <1>6
<1>9. OneUploader'
    BY <1>1, <1>8 DEF Rows, OneUploader
<1>10. ASSUME NEW t \in DOMAIN tx', NEW r \in DOMAIN tx', tx'[t].by # Manual, tx'[r].by # Manual,
              NaturalKey(tx'[t]) = NaturalKey(tx'[r])
       PROVE  t = r
    <2>1. CASE t \in DOMAIN q.moved /\ r \in DOMAIN q.moved
        <3>1. FirstDay(tx[t]) = FirstDay(tx[r]) /\ tx[t].occ = tx[r].occ
            BY <1>6, <1>10, <2>1
        <3> QED BY <1>1, <2>1, <3>1 DEF MarkReady
    <2>2. CASE t \notin DOMAIN q.moved /\ r \notin DOMAIN q.moved
        <3>1. NaturalKey(tx[t]) = NaturalKey(tx[r]) /\ tx[t].by # Manual /\ tx[r].by # Manual
            BY <1>4, <1>10, <2>2
        <3> QED BY <1>1, <1>8, <3>1 DEF Rows, StoredOnce
    <2>3. ASSUME NEW a \in DOMAIN tx', NEW b \in DOMAIN tx',
                 a \in DOMAIN q.moved, b \notin DOMAIN q.moved
          PROVE  FALSE
        <3>1. tx[a].acct # Joint /\ tx[a].acct \in accounts
            BY <1>1, <2>3 DEF MarkReady, Rows, StoredRow
        <3>2. tx[b].acct = Joint /\ tx[b].acct \in accounts
            BY <1>1, <1>4, <1>5, <2>3 DEF Rows, StoredRow
        <3> QED BY <1>1, <1>3, <3>1, <3>2 DEF Rows, OneHome
    <2> QED BY <2>1, <2>2, <2>3
<1>11. StoredOnce'
    BY <1>10 DEF StoredOnce
<1>12. Rows'
    BY <1>1, <1>2, <1>3, <1>4, <1>7, <1>9, <1>11 DEF Rows, OneHome, Accounts
<1> QED BY <1>2, <1>12, FinishKeeps

\* Unmarking an account returns each row to the account it came from.
LEMMA CommitUnmarkStep ==
    ASSUME OneAtATime, Inv, NEW s \in Sessions, CommitUnmark(s) PROVE Inv'
<1> DEFINE q == req[s]
           into == {q.moved[r].acct : r \in DOMAIN q.moved}
<1>1. UnmarkReady(q) /\ Rows
    BY WhatIsReady DEF CommitUnmark, Inv
<1>2. /\ accounts' = (accounts \cup into) \ {Joint}
      /\ tx' = Restrict(Rekeyed(q.moved), DOMAIN Rekeyed(q.moved) \ q.dropped)
      /\ Storable(tx', accounts') /\ Finish(s) /\ byHand' = byHand /\ uploads' = uploads
    BY DEF CommitUnmark, Move
<1>3. accounts = {Joint} /\ byHand = FALSE
    BY <1>1 DEF UnmarkReady, Rows, OneHome
<1>4. /\ DOMAIN tx' = DOMAIN tx
      /\ \A r \in DOMAIN tx : tx'[r] =
             IF r \in DOMAIN q.moved
             THEN MovedTo(tx[r], tx[r].by, q.moved[r].split, q.moved[r].shares)
             ELSE tx[r]
    BY <1>1, <1>2 DEF UnmarkReady, Restrict, Rekeyed, MovedTo
<1>5. \A r \in DOMAIN tx : tx[r].acct = Joint /\ tx[r].by \in Persons
    <2> TAKE r \in DOMAIN tx
    <2>1. StoredRow(tx[r])
        BY <1>1 DEF Rows
    <2>2. tx[r].acct = Joint /\ tx[r].by # Manual /\ tx[r].by \in Persons \cup {Manual}
        BY <1>3, <2>1 DEF StoredRow
    <2> QED BY <2>2
<1>6. \A r \in DOMAIN tx : r \in DOMAIN q.moved
    BY <1>2, <1>4, <1>5 DEF Storable
<1> HIDE DEF q
<1>7. ASSUME NEW r \in DOMAIN tx
      PROVE  /\ tx'[r] \in RowType
             /\ tx'[r].acct = tx[r].by /\ tx'[r].payer = tx[r].by /\ tx'[r].shares = NoShares
             /\ tx'[r].by = tx[r].by /\ tx'[r].at = tx[r].at
             /\ NaturalKey(tx'[r]) = <<tx[r].by, FirstDay(tx[r]), tx[r].occ>>
    <2>1. /\ q.moved[r].split \in 0..100 /\ q.moved[r].shares = NoShares
          /\ tx[r].by \in Accounts
        BY <1>1, <1>5, <1>6 DEF UnmarkReady, Accounts
    <2>2. tx'[r] = MovedTo(tx[r], tx[r].by, q.moved[r].split, q.moved[r].shares)
        BY <1>4, <1>6
    <2>3. tx[r] \in RowType
        BY <1>1 DEF Rows, StoredRow, RowType, OwnerShares
    <2> DEFINE row == tx[r]
               x == tx'[r]
               percent == q.moved[r].split
               shares == q.moved[r].shares
    <2>4. /\ row \in RowType /\ percent \in 0..100 /\ shares = NoShares /\ row.by \in Accounts
          /\ shares \in OwnerShares /\ x = MovedTo(row, row.by, percent, shares)
        BY <2>1, <2>2, <2>3 DEF OwnerShares
    <2> HIDE DEF row, x, percent, shares
    <2>5. Moved(x, row, row.by, shares)
        BY <2>4, MovedRow
    <2> QED BY <2>4, <2>5 DEF x, row, Moved
<1>8. ASSUME NEW r \in DOMAIN tx' PROVE StoredRow(tx[r])'
    <2>1. tx'[r].acct \in accounts'
        BY <1>2 DEF Storable
    <2>2. tx'[r].acct # Joint
        BY <1>4, <1>5, <1>7, SplitFacts
    <2>3. /\ tx'[r] \in RowType /\ tx'[r].payer = tx'[r].acct
          /\ tx'[r].shares = NoShares /\ tx'[r].by = tx'[r].acct
        BY <1>4, <1>7
    <2> QED BY <1>2, <2>1, <2>2, <2>3 DEF StoredRow, RowType, OwnerShares
<1>9. OneUploader'
    BY <1>1, <1>4, <1>7 DEF Rows, OneUploader
<1>10. ASSUME NEW t \in DOMAIN tx, NEW r \in DOMAIN tx, NaturalKey(tx'[t]) = NaturalKey(tx'[r])
       PROVE  t = r
    <2>1. FirstDay(tx[t]) = FirstDay(tx[r]) /\ tx[t].occ = tx[r].occ
        BY <1>7, <1>10
    <2>2. NaturalKey(tx[t]) = NaturalKey(tx[r])
        BY <1>5, <2>1 DEF NaturalKey
    <2>3. tx[t].by # Manual /\ tx[r].by # Manual
        BY <1>5, SplitFacts
    <2> QED BY <1>1, <2>2, <2>3 DEF Rows, StoredOnce
<1>11. StoredOnce'
    BY <1>4, <1>10 DEF StoredOnce
<1>12. OneHome' /\ accounts' \subseteq Accounts
    <2>1. into \subseteq Persons
        BY <1>1, <1>5 DEF UnmarkReady, q
    <2>2. accounts' = (accounts \cup into) \ {Joint}
        BY <1>2 DEF q
    <2> HIDE DEF into
    <2> QED BY <1>3, <2>1, <2>2 DEF OneHome, Accounts
<1>13. Rows'
    BY <1>1, <1>2, <1>4, <1>8, <1>9, <1>11, <1>12 DEF Rows
<1> QED BY <1>2, <1>13, FinishKeeps

-----------------------------------------------------------------------------
(* What an upload writes *)

\* The ids of the new rows, each with its line, beside the stored rows.
Numbering(q, lineOf) ==
    /\ DOMAIN lineOf \subseteq Ids \ DOMAIN tx
    /\ \A i \in DOMAIN lineOf : lineOf[i] \in q.new
    /\ \A i, j \in DOMAIN lineOf : lineOf[i] = lineOf[j] => i = j
    /\ \A f \in q.new : \E i \in DOMAIN lineOf : lineOf[i] = f
    /\ DOMAIN Merged(q) = DOMAIN tx \cup DOMAIN lineOf
    /\ \A i \in DOMAIN lineOf : Merged(q)[i] = Imported(q, lineOf[i], uploads + 1)
    /\ \A r \in DOMAIN tx : Merged(q)[r] =
           IF r \in DOMAIN q.changes THEN Rewritten(q, tx[r], q.changes[r], uploads + 1)
           ELSE tx[r]

\* Every new line gets an id of its own, that of no stored row.
LEMMA NewIds == ASSUME NEW q, Fits(q) PROVE \E lineOf : Numbering(q, lineOf)
<1> DEFINE free == Ids \ DOMAIN tx
           newId == CHOOSE f \in Injection(q.new, free) : TRUE
           lineOf == AntiFunction(newId)
<1>1. newId \in [q.new -> free] /\ \A f, g \in q.new : newId[f] = newId[g] => f = g
    <2>1. newId \in Injection(q.new, free)
        BY DEF Fits, ExistsInjection
    <2> HIDE DEF newId
    <2> QED BY <2>1 DEF Injection, IsInjective
<1>2. Merged(q) = [r \in DOMAIN tx \cup DOMAIN lineOf |->
                      IF r \in DOMAIN lineOf THEN Imported(q, lineOf[r], uploads + 1)
                      ELSE IF r \in DOMAIN q.changes
                           THEN Rewritten(q, tx[r], q.changes[r], uploads + 1)
                      ELSE tx[r]]
    BY DEF Merged
<1> HIDE DEF newId
<1>3. DOMAIN lineOf = {newId[f] : f \in q.new}
    BY <1>1 DEF AntiFunction, Inverse, Range
<1>4. \A f \in q.new : newId[f] \in DOMAIN lineOf /\ lineOf[newId[f]] = f
    BY <1>1 DEF AntiFunction, Inverse, Range
<1> HIDE DEF lineOf
<1>5. DOMAIN lineOf \subseteq free
    BY <1>1, <1>3
<1>6. \A i \in DOMAIN lineOf : lineOf[i] \in q.new /\ newId[lineOf[i]] = i
    BY <1>3, <1>4
<1>7. Numbering(q, lineOf)
    BY <1>2, <1>4, <1>5, <1>6 DEF Numbering
<1> QED BY <1>7

\* Imported rows and rewritten ones are the uploader's, of this upload.
Fresh(x, q, f) ==
    /\ x \in [acct : Accounts, payer : Accounts, day : Days, original : 0..LastDay,
              occ : Occurrences, text : Texts, split : 0..100,
              shares : OwnerShares, by : Persons \cup {Manual}, at : 0..(uploads + 1)]
    /\ x.acct = q.acct /\ x.payer = q.acct /\ x.by = q.by /\ x.at = uploads + 1
    /\ NaturalKey(x) = LineKey(q.acct, f)

\* A row made of a line of the file carries that line.
LEMMA ImportedRow ==
    ASSUME Rows, NEW q, UploadReady(q), NEW f \in q.file
    PROVE  /\ Fresh(Imported(q, f, uploads + 1), q, f)
           /\ Imported(q, f, uploads + 1).shares = NoShares
<1> DEFINE x == Imported(q, f, uploads + 1)
           percent == LineSplit(q.acct, f)
           S == OwnerShares
           at == uploads + 1
<1>1. f.day \in Days /\ f.occ \in Occurrences /\ f.text \in Texts /\ f.day # 0
    BY FilesAssumption DEF UploadReady, Line, Days
<1>2. percent \in 0..100
    BY <1>1, SplitsAssumption DEF LineSplit
<1>3. /\ q.acct \in Accounts /\ q.by \in Persons \cup {Manual} /\ NoShares \in S
      /\ at \in 0..at /\ 0 \in 0..LastDay
    BY DaysAssumption DEF Rows, UploadReady, Accounts, OwnerShares
<1> HIDE DEF percent, S, at
<1>4. x = [acct |-> q.acct, payer |-> q.acct, day |-> f.day, original |-> 0,
           occ |-> f.occ, text |-> f.text, split |-> percent,
           shares |-> NoShares, by |-> q.by, at |-> at]
    BY DEF Imported, percent, at
<1> HIDE DEF x
<1>5. x \in [acct : Accounts, payer : Accounts, day : Days, original : 0..LastDay,
             occ : Occurrences, text : Texts, split : 0..100,
             shares : S, by : Persons \cup {Manual}, at : 0..at]
    BY <1>1, <1>2, <1>3, <1>4
<1>6. NaturalKey(x) = LineKey(q.acct, f)
    BY <1>4 DEF NaturalKey, LineKey, FirstDay
<1>7. /\ x.acct = q.acct /\ x.payer = q.acct /\ x.by = q.by /\ x.at = at
      /\ x.shares = NoShares
    BY <1>4
<1> QED BY <1>5, <1>6, <1>7 DEF Fresh, x, S, at

\* The fields an accepted change leaves alone.
Kept(x, row) ==
    [x EXCEPT !.text = row.text, !.split = row.split, !.by = row.by, !.at = row.at] = row

\* A row rewritten by a line of the file keeps its key and its shares.
LEMMA RewrittenRow ==
    ASSUME Rows, NEW q, UploadReady(q), NEW r \in DOMAIN q.changes
    PROVE  LET x == Rewritten(q, tx[r], q.changes[r], uploads + 1) IN
           /\ Fresh(x, q, q.changes[r]) /\ x.shares = tx[r].shares
           /\ NaturalKey(x) = NaturalKey(tx[r])
           /\ tx[r].acct = q.acct /\ tx[r].by # Manual
           /\ Kept(x, tx[r])
<1> DEFINE f == q.changes[r]
           row == tx[r]
           percent == LineSplit(q.acct, f)
           S == OwnerShares
           at == uploads + 1
           x == Rewritten(q, row, f, at)
<1>1. /\ r \in DOMAIN tx /\ f \in q.file /\ q.file \in Files
      /\ NaturalKey(row) = LineKey(q.acct, f)
      /\ q.acct \in {Joint, q.by} /\ q.by \in Persons
      /\ q.acct = Joint <=> Joint \in accounts /\ ~byHand
    BY DEF UploadReady
<1>2. f.text \in Texts
    BY <1>1, FilesAssumption DEF Line
<1>3. percent \in 0..100
    BY <1>2, SplitsAssumption DEF LineSplit
<1>4. row.acct = q.acct /\ q.acct \in Accounts /\ at \in 0..at /\ at \in Nat
    BY <1>1 DEF NaturalKey, LineKey, Rows, Accounts
<1>5. StoredRow(row)
    BY <1>1 DEF Rows
<1>6. row.payer = row.acct /\ row.by # Manual
    BY <1>1, <1>4, <1>5, SplitFacts DEF StoredRow
<1>7. row \in [acct : Accounts, payer : Accounts, day : Days, original : 0..LastDay,
               occ : Occurrences, text : Texts, split : 0..100,
               shares : S, by : Persons \cup {Manual}, at : 0..uploads]
    BY <1>5 DEF StoredRow, OwnerShares
<1> HIDE DEF f, row, percent, S
<1>8. x = [row EXCEPT !.payer = q.acct, !.text = f.text, !.split = percent,
                      !.by = q.by, !.at = at]
    BY DEF Rewritten, percent, at, x
<1> HIDE DEF at, x
<1>9. x \in [acct : Accounts, payer : Accounts, day : Days, original : 0..LastDay,
             occ : Occurrences, text : Texts, split : 0..100,
             shares : S, by : Persons \cup {Manual}, at : 0..at]
    BY <1>1, <1>2, <1>3, <1>4, <1>7, <1>8
<1>10. /\ x.acct = q.acct /\ x.payer = q.acct /\ x.by = q.by /\ x.at = at
       /\ x.shares = row.shares /\ x.day = row.day /\ x.original = row.original /\ x.occ = row.occ
    BY <1>4, <1>7, <1>8
<1>11. NaturalKey(x) = NaturalKey(row)
    BY <1>4, <1>10 DEF NaturalKey, FirstDay
<1>12. Kept(x, row)
    <2> DEFINE y == [x EXCEPT !.text = row.text, !.split = row.split, !.by = row.by, !.at = row.at]
    <2>1. /\ y = [k \in DOMAIN row |-> y[k]] /\ row = [k \in DOMAIN row |-> row[k]]
        BY <1>7, <1>8
    <2>2. \A k \in DOMAIN row : y[k] = row[k]
        BY <1>4, <1>6, <1>7, <1>8
    <2> HIDE DEF y
    <2>3. y = row
        BY <2>1, <2>2
    <2> QED BY <2>3 DEF Kept, y
<1>13. Fresh(x, q, f)
    BY <1>1, <1>9, <1>10, <1>11 DEF Fresh, S, at
<1> QED BY <1>4, <1>6, <1>10, <1>11, <1>12, <1>13 DEF x, f, row, at

\* What is stored after an upload: its new lines with ids of their own, the
\* accepted changes, and everything else but the rows it removes.
LEMMA UploadWrites ==
    ASSUME Inv, NEW s \in Sessions, CommitUpload(s)
    PROVE  \E lineOf :
        /\ UploadReady(req[s]) /\ Numbering(req[s], lineOf)
        /\ DOMAIN tx' = (DOMAIN tx \cup DOMAIN lineOf) \ req[s].removed
        /\ \A r \in DOMAIN tx' : tx'[r] = Merged(req[s])[r]
        /\ req[s].removed \cap DOMAIN lineOf = {}
<1>1. /\ UploadReady(req[s]) /\ Fits(req[s])
      /\ tx' = Restrict(Merged(req[s]), DOMAIN Merged(req[s]) \ req[s].removed)
    BY WhatIsReady DEF CommitUpload
<1>2. PICK lineOf : Numbering(req[s], lineOf)
    BY <1>1, NewIds
<1>3. DOMAIN Merged(req[s]) = DOMAIN tx \cup DOMAIN lineOf
    BY <1>2 DEF Numbering
<1>4. /\ DOMAIN tx' = (DOMAIN tx \cup DOMAIN lineOf) \ req[s].removed
      /\ \A r \in DOMAIN tx' : tx'[r] = Merged(req[s])[r]
    BY <1>1, <1>3 DEF Restrict
<1>5. req[s].removed \cap DOMAIN lineOf = {}
    BY <1>1, <1>2 DEF Numbering, UploadReady
<1> QED BY <1>1, <1>2, <1>4, <1>5

\* The writes of an upload.
LEMMA CommitUploadStep ==
    ASSUME OneAtATime, Inv, NEW s \in Sessions, CommitUpload(s) PROVE Inv'
<1> DEFINE q == req[s]
           at == uploads + 1
           named == IF q.new # {} /\ q.acct # Joint THEN {q.acct} ELSE {}
<1>1. PICK lineOf :
          /\ UploadReady(q) /\ Numbering(q, lineOf)
          /\ DOMAIN tx' = (DOMAIN tx \cup DOMAIN lineOf) \ q.removed
          /\ \A r \in DOMAIN tx' : tx'[r] = Merged(q)[r]
          /\ q.removed \cap DOMAIN lineOf = {}
    BY UploadWrites
<1>2. /\ Rows /\ accounts' = accounts \cup named /\ uploads' = at /\ Finish(s) /\ byHand' = byHand
      /\ Storable(Merged(q), accounts \cup named) /\ uploads \in Nat
    BY DEF CommitUpload, Inv, Rows
<1>3. /\ q.acct \in {Joint, q.by} /\ q.by \in Persons /\ q.by # Manual /\ q.file \in Files
      /\ q.acct = Joint <=> Joint \in accounts /\ ~byHand
      /\ q.new \subseteq q.file
    BY <1>1, SplitFacts DEF UploadReady
<1>4. accounts' \subseteq Accounts /\ OneHome'
    BY <1>2, <1>3, SplitFacts DEF Rows, Accounts, OneHome
<1> HIDE DEF q, named
<1>5. \A r \in DOMAIN tx' : tx'[r].acct \in accounts'
    BY <1>1, <1>2 DEF Storable, Numbering
<1>6. ASSUME NEW r \in DOMAIN lineOf
      PROVE  /\ r \notin DOMAIN tx /\ Fresh(Merged(q)[r], q, lineOf[r])
             /\ Merged(q)[r].shares = NoShares /\ lineOf[r] \in q.new
    BY <1>1, <1>2, <1>3, ImportedRow DEF Numbering
<1>7. ASSUME NEW r \in DOMAIN q.changes
      PROVE  /\ r \in DOMAIN tx /\ Fresh(Merged(q)[r], q, q.changes[r])
             /\ Merged(q)[r].shares = tx[r].shares /\ NaturalKey(Merged(q)[r]) = NaturalKey(tx[r])
             /\ tx[r].acct = q.acct /\ tx[r].by # Manual
    <2>1. r \in DOMAIN tx
        BY <1>1 DEF UploadReady
    <2>2. Merged(q)[r] = Rewritten(q, tx[r], q.changes[r], uploads + 1)
        BY <1>1, <2>1 DEF Numbering
    <2> QED BY <1>1, <1>2, <2>1, <2>2, RewrittenRow
<1>8. \A r \in DOMAIN tx : r \notin DOMAIN q.changes => Merged(q)[r] = tx[r]
    BY <1>1 DEF Numbering
<1>9. ASSUME NEW r \in DOMAIN tx' PROVE StoredRow(tx[r])'
    <2>1. ASSUME NEW f, Fresh(tx'[r], q, f), tx'[r].shares \in OwnerShares,
                 tx'[r].shares = NoShares \/ q.acct = Joint
          PROVE  StoredRow(tx[r])'
        <3> DEFINE x == tx'[r]
                   S == OwnerShares
        <3>1. /\ x \in [acct : Accounts, payer : Accounts, day : Days, original : 0..LastDay,
                        occ : Occurrences, text : Texts, split : 0..100,
                        shares : S, by : Persons \cup {Manual}, at : 0..at]
              /\ x.acct = q.acct /\ x.payer = q.acct /\ x.by = q.by
              /\ x.shares = NoShares \/ q.acct = Joint
              /\ x.acct \in accounts'
            BY <1>5, <2>1 DEF Fresh
        <3> HIDE DEF x, S
        <3>2. /\ x.payer = x.acct
              /\ x.shares # NoShares => x.acct = Joint
              /\ x.acct # Joint => x.by = x.acct
              /\ x.acct = Joint => (byHand' <=> x.by = Manual)
            BY <1>2, <1>3, <3>1
        <3> QED BY <1>2, <3>1, <3>2 DEF StoredRow, x, S, OwnerShares
    <2>2. CASE r \in DOMAIN lineOf
        BY <1>1, <1>6, <2>1, <2>2 DEF OwnerShares
    <2>3. CASE r \in DOMAIN q.changes
        <3>1. /\ tx[r].shares \in OwnerShares
              /\ tx[r].shares # NoShares => tx[r].acct = Joint
            BY <1>2, <1>7, <2>3 DEF Rows, StoredRow, OwnerShares
        <3> QED BY <1>1, <1>7, <2>1, <2>3, <3>1
    <2>4. CASE r \in DOMAIN tx /\ r \notin DOMAIN q.changes
        <3> DEFINE x == tx[r]
                   S == OwnerShares
        <3>1. StoredRow(x) /\ tx'[r] = x /\ accounts \subseteq accounts'
            BY <1>1, <1>2, <1>8, <2>4 DEF Rows
        <3>2. /\ x \in [acct : Accounts, payer : Accounts, day : Days, original : 0..LastDay,
                        occ : Occurrences, text : Texts, split : 0..100,
                        shares : S, by : Persons \cup {Manual}, at : 0..uploads]
              /\ 0..uploads \subseteq 0..at
            BY <1>2, <3>1 DEF StoredRow, OwnerShares
        <3> HIDE DEF S, x
        <3>3. x \in [acct : Accounts, payer : Accounts, day : Days, original : 0..LastDay,
                     occ : Occurrences, text : Texts, split : 0..100,
                     shares : S, by : Persons \cup {Manual}, at : 0..at]
            BY <3>2
        <3> QED BY <1>2, <3>1, <3>3 DEF StoredRow, x, S, OwnerShares
    <2> QED BY <1>1, <2>2, <2>3, <2>4
<1>10. ASSUME NEW r \in DOMAIN tx'
       PROVE  \/ tx'[r].at = at /\ tx'[r].by = q.by
              \/ r \in DOMAIN tx /\ tx'[r] = tx[r] /\ tx[r].at \in 0..uploads
    <2>1. CASE r \in DOMAIN lineOf
        BY <1>1, <1>6, <2>1 DEF Fresh
    <2>2. CASE r \in DOMAIN q.changes
        BY <1>1, <1>7, <2>2 DEF Fresh
    <2>3. CASE r \in DOMAIN tx /\ r \notin DOMAIN q.changes
        BY <1>1, <1>2, <1>8, <2>3 DEF Rows, StoredRow
    <2> QED BY <1>1, <2>1, <2>2, <2>3
<1>11. OneUploader'
    <2> SUFFICES ASSUME NEW t \in DOMAIN tx', NEW r \in DOMAIN tx', tx'[t].by # Manual,
                        tx'[r].by # Manual, tx'[t].at = tx'[r].at
                 PROVE  tx'[t].by = tx'[r].by
        BY DEF OneUploader
    <2>1. \A n \in 0..uploads : n # at
        BY <1>2
    <2> HIDE DEF at
    <2> QED BY <1>2, <1>10, <2>1 DEF Rows, OneUploader
<1>12. ASSUME NEW r \in DOMAIN tx', tx'[r].by # Manual
       PROVE  \/ r \in DOMAIN lineOf /\ NaturalKey(tx'[r]) = LineKey(q.acct, lineOf[r])
              \/ r \in DOMAIN tx /\ tx[r].by # Manual /\ NaturalKey(tx'[r]) = NaturalKey(tx[r])
    <2>1. CASE r \in DOMAIN lineOf
        BY <1>1, <1>6, <2>1 DEF Fresh
    <2>2. CASE r \in DOMAIN q.changes
        BY <1>1, <1>7, <2>2
    <2>3. CASE r \in DOMAIN tx /\ r \notin DOMAIN q.changes
        BY <1>1, <1>8, <1>12, <2>3
    <2> QED BY <1>1, <2>1, <2>2, <2>3
<1>13. \A r \in DOMAIN tx, i \in DOMAIN lineOf : NaturalKey(tx[r]) # LineKey(q.acct, lineOf[i])
    BY <1>1, <1>6 DEF UploadReady
<1>14. ASSUME NEW i \in DOMAIN lineOf, NEW j \in DOMAIN lineOf,
              LineKey(q.acct, lineOf[i]) = LineKey(q.acct, lineOf[j])
       PROVE  i = j
    <2>1. lineOf[i].day = lineOf[j].day /\ lineOf[i].occ = lineOf[j].occ
        BY <1>14 DEF LineKey
    <2>2. lineOf[i] \in q.file /\ lineOf[j] \in q.file
        BY <1>3, <1>6
    <2>3. lineOf[i] = lineOf[j]
        BY <1>3, <2>1, <2>2, FilesAssumption DEF Numbered
    <2> QED BY <1>1, <2>3 DEF Numbering
<1>15. StoredOnce'
    <2> SUFFICES ASSUME NEW t \in DOMAIN tx', NEW r \in DOMAIN tx', tx'[t].by # Manual,
                        tx'[r].by # Manual, NaturalKey(tx'[t]) = NaturalKey(tx'[r])
                 PROVE  t = r
        BY DEF StoredOnce
    <2>1. \A a, b \in DOMAIN tx : tx[a].by # Manual /\ tx[b].by # Manual
              /\ NaturalKey(tx[a]) = NaturalKey(tx[b]) => a = b
        BY <1>2 DEF Rows, StoredOnce
    <2> QED BY <1>12, <1>13, <1>14, <2>1
<1>16. Rows'
    BY <1>1, <1>2, <1>4, <1>9, <1>11, <1>15 DEF Rows, Numbering
<1> QED BY <1>2, <1>16, FinishKeeps

-----------------------------------------------------------------------------
(* The invariant holds *)

\* No request waits at first and the table is empty.
LEMMA InitInv == Init => Inv
<1> SUFFICES ASSUME Init PROVE Inv
    OBVIOUS
<1>1. DOMAIN tx = {} /\ accounts = {} /\ byHand = FALSE /\ uploads = 0
    BY DEF Init
<1>2. Rows
    BY <1>1 DEF Rows, OneUploader, StoredOnce, OneHome
<1> QED BY <1>2 DEF Init, Inv, Ready

\* One step of the program, by whoever takes it.
LEMMA InvStep == OneAtATime /\ Inv /\ [Next]_vars => Inv'
<1> SUFFICES ASSUME OneAtATime, Inv, [Next]_vars PROVE Inv'
    OBVIOUS
<1>1. ASSUME NEW s \in Sessions, Abort(s) PROVE Inv'
    <2>1. Rows'
        BY <1>1 DEF Inv, Rows, StoredRow, OneUploader, StoredOnce, OneHome, Abort, db
    <2> QED BY <1>1, <2>1, FinishKeeps DEF Abort
<1>2. ASSUME Rows', Harmless PROVE Inv'
    <2>1. req' = req /\ Rows
        BY <1>2 DEF Harmless, Inv
    <2>2. \A s \in Sessions : Ready(req[s])'
        BY <1>2, <2>1, StillReady DEF Inv
    <2> QED BY <1>2, <2>1, <2>2 DEF Inv
<1>3. ASSUME NEW s \in Sessions,
             \/ FetchUpload(s) \/ CommitUpload(s) \/ FetchMark(s) \/ CommitMark(s)
             \/ FetchUnmark(s) \/ CommitUnmark(s) \/ Abort(s)
      PROVE  Inv'
    BY <1>1, <1>3, FetchUploadStep, CommitUploadStep, FetchMarkStep, CommitMarkStep,
       FetchUnmarkStep, CommitUnmarkStep
<1>4. ASSUME NEW r \in DOMAIN tx,
             EditDay(r) \/ EditText(r) \/ EditSplit(r) \/ EditShares(r) \/ DeleteManual(r)
      PROVE  Inv'
    <2>1. Rows
        BY DEF Inv
    <2> QED BY <1>2, <1>4, <2>1, EditStep, ManualStep
<1>5. CASE RecordManual
    <2>1. Rows
        BY DEF Inv
    <2> QED BY <1>2, <1>5, <2>1, ManualStep
<1>6. CASE UNCHANGED vars
    <2>1. UNCHANGED <<accounts, byHand, tx, uploads, req>>
        BY <1>6 DEF vars
    <2>2. Rows'
        BY <2>1 DEF Inv, Rows, StoredRow, OneUploader, StoredOnce, OneHome
    <2>3. Harmless
        BY <2>1 DEF Harmless
    <2> QED BY <1>2, <2>2, <2>3
<1> QED BY <1>3, <1>4, <1>5, <1>6 DEF Next

\* Each bank row is stored once: no two imported rows of an account have the
\* identity a file gives them, through edits, re-imports, and both partners'
\* imports being joined (natural_key, _collapse_twins).
THEOREM StoredOnceSerially ==
    ASSUME OneAtATime
    PROVE  Spec => []StoredOnce
<1>1. Inv => StoredOnce
    BY DEF Inv, Rows
<1> QED BY <1>1, InitInv, InvStep, PTL DEF Spec

\* A label marked joint has no personal account, so both partners' files
\* resolve to the same one (mark_account_joint, resolve_or_create_account).
THEOREM OneHomeSerially ==
    ASSUME OneAtATime
    PROVE  Spec => []OneHome
<1>1. Inv => OneHome
    BY DEF Inv, Rows
<1> QED BY <1>1, InitInv, InvStep, PTL DEF Spec

\* A row of a personal account is its importer's, and marking the account joint
\* and back brings it home with its split (as_joint_row, _in_personal_account).
THEOREM MovesReturnHomeSerially ==
    ASSUME OneAtATime
    PROVE  Spec => []MovesReturnHome
<1>1. ASSUME Inv PROVE MovesReturnHome
    <2> SUFFICES ASSUME NEW r \in DOMAIN tx, tx[r].payer # Joint
                 PROVE  tx[r].by = tx[r].acct /\ InPersonal(AsJoint(tx[r])) = tx[r]
        BY DEF MovesReturnHome
    <2>1. StoredRow(tx[r])
        BY <1>1 DEF Inv, Rows
    <2>2. tx[r].acct # Joint /\ tx[r].by = tx[r].acct
        BY <2>1 DEF StoredRow
    <2> QED BY <2>1, <2>2, ThereAndBack
<1> QED BY <1>1, InitInv, InvStep, PTL DEF Spec

-----------------------------------------------------------------------------
(* What a re-upload does to the rows that are there *)

\* Only an upload's writing counts uploads.
LEMMA UploadedByCommit ==
    ASSUME OneAtATime, Inv, Next, NEW s \in Sessions, Uploaded(s)
    PROVE  CommitUpload(s)
<1>1. uploads' # uploads
    BY DEF Uploaded
<1>2. \A r \in DOMAIN tx : ~(EditDay(r) \/ EditText(r) \/ EditSplit(r) \/ EditShares(r))
    <2>1. Rows
        BY DEF Inv
    <2> QED BY <1>1, <2>1, EditStep DEF Harmless
<1>3. RecordManual \/ (\E r \in DOMAIN tx : DeleteManual(r)) => uploads' = uploads
    <2>1. Rows
        BY DEF Inv
    <2> QED BY <2>1, ManualStep DEF Harmless
<1>4. \A t \in Sessions : ~(FetchUpload(t) \/ FetchMark(t) \/ FetchUnmark(t) \/ Abort(t))
    BY <1>1 DEF FetchUpload, FetchMark, FetchUnmark, Abort, db
<1>5. \A t \in Sessions : ~(CommitMark(t) \/ CommitUnmark(t))
    BY <1>1 DEF CommitMark, CommitUnmark, Move
<1>6. PICK t \in Sessions : CommitUpload(t)
    BY <1>1, <1>2, <1>3, <1>4, <1>5, Zenon DEF Next
<1>7. t = s
    BY DEF OneAtATime
<1> QED BY <1>6, <1>7

\* The step TrueReplace is about.
Replaces(s) ==
    LET q == req[s]
        mine == {r \in DOMAIN tx' : tx'[r].by = q.by
                                    /\ tx'[r].acct \in Scope(q.by, q.file, q.acct)
                                    /\ InWindow(q.days, FirstDay(tx'[r]))}
        keys == {LineKey(q.acct, f) : f \in q.file} IN
    /\ {NaturalKey(tx'[r]) : r \in mine} \subseteq keys
    /\ keys \subseteq {NaturalKey(tx'[r]) : r \in DOMAIN tx'}

\* The write of a replacing upload removes and rewrites exactly what
\* was shown.
LEMMA CommitReplaces ==
    ASSUME Inv, NEW s \in Sessions, CommitUpload(s) PROVE Replaces(s)
<1> DEFINE q == req[s]
<1>1. PICK lineOf :
          /\ UploadReady(q) /\ Numbering(q, lineOf)
          /\ DOMAIN tx' = (DOMAIN tx \cup DOMAIN lineOf) \ q.removed
          /\ \A r \in DOMAIN tx' : tx'[r] = Merged(q)[r]
          /\ q.removed \cap DOMAIN lineOf = {}
    BY UploadWrites
<1>2. Rows
    BY DEF Inv
<1> HIDE DEF q
<1>3. ASSUME NEW r \in DOMAIN lineOf
      PROVE  lineOf[r] \in q.file /\ NaturalKey(Merged(q)[r]) = LineKey(q.acct, lineOf[r])
    <2>1. lineOf[r] \in q.file /\ Merged(q)[r] = Imported(q, lineOf[r], uploads + 1)
        BY <1>1 DEF Numbering, UploadReady
    <2> QED BY <1>1, <1>2, <2>1, ImportedRow DEF Fresh
<1>4. ASSUME NEW r \in DOMAIN q.changes
      PROVE  /\ r \in DOMAIN tx /\ q.changes[r] \in q.file
             /\ NaturalKey(Merged(q)[r]) = LineKey(q.acct, q.changes[r])
             /\ NaturalKey(Merged(q)[r]) = NaturalKey(tx[r])
    <2>1. r \in DOMAIN tx /\ q.changes[r] \in q.file
        BY <1>1 DEF UploadReady
    <2>2. Merged(q)[r] = Rewritten(q, tx[r], q.changes[r], uploads + 1)
        BY <1>1, <2>1 DEF Numbering
    <2> QED BY <1>1, <1>2, <2>1, <2>2, RewrittenRow DEF Fresh
<1>5. \A r \in DOMAIN tx : r \notin DOMAIN q.changes => Merged(q)[r] = tx[r]
    BY <1>1 DEF Numbering
<1>6. \A r \in DOMAIN tx : NaturalKey(Merged(q)[r]) = NaturalKey(tx[r])
    BY <1>4, <1>5
<1>7. ASSUME NEW r \in DOMAIN tx', Replaced(q, tx'[r])
      PROVE  \E f \in q.file : NaturalKey(tx'[r]) = LineKey(q.acct, f)
    <2>1. CASE r \in DOMAIN lineOf
        BY <1>1, <1>3, <2>1
    <2>2. CASE r \in DOMAIN q.changes
        BY <1>1, <1>4, <2>2
    <2>3. CASE r \in DOMAIN tx /\ r \notin DOMAIN q.changes
        <3>1. tx'[r] = tx[r] /\ r \notin q.removed
            BY <1>1, <1>5, <2>3
        <3>2. Replaced(q, tx[r])
            BY <1>7, <3>1
        <3> QED BY <1>1, <2>3, <3>1, <3>2 DEF UploadReady
    <2> QED BY <1>1, <2>1, <2>2, <2>3
<1>8. ASSUME NEW f \in q.file
      PROVE  \E r \in DOMAIN tx' : NaturalKey(tx'[r]) = LineKey(q.acct, f)
    <2>1. CASE f \in q.new
        <3>1. PICK i \in DOMAIN lineOf : lineOf[i] = f
            BY <1>1, <2>1 DEF Numbering
        <3>2. i \in DOMAIN tx'
            BY <1>1, <3>1
        <3> QED BY <1>1, <1>3, <3>1, <3>2
    <2>2. CASE f \notin q.new
        <3>1. PICK r \in DOMAIN tx \ q.removed : NaturalKey(tx[r]) = LineKey(q.acct, f)
            BY <1>1, <2>2 DEF UploadReady
        <3>2. r \in DOMAIN tx'
            BY <1>1, <3>1
        <3> QED BY <1>1, <1>6, <3>1, <3>2
    <2> QED BY <2>1, <2>2
<1> QED BY <1>7, <1>8 DEF Replaces, Replaced, q

\* A re-upload is a true replace: afterwards every line has one row, and no
\* other row that is the uploader's is left in the file's window, in the personal
\* account or in an account the file names (UploadCsvUseCase.execute).
THEOREM TrueReplaceSerially ==
    ASSUME OneAtATime
    PROVE  Spec => TrueReplace
<1>1. ASSUME Inv, [Next]_vars
      PROVE  [\A s \in Sessions : Uploaded(s) => Replaces(s)]_vars
    BY <1>1, UploadedByCommit, CommitReplaces
<1>2. TrueReplace <=> [][\A s \in Sessions : Uploaded(s) => Replaces(s)]_vars
    BY DEF TrueReplace, Replaces
<1> QED BY <1>1, <1>2, InitInv, InvStep, PTL DEF Spec

\* The step UploadsKeepTheRest is about.
KeepsTheRest(s) ==
    \A r \in DOMAIN tx :
        IF r \in DOMAIN tx'
        THEN [tx'[r] EXCEPT !.text = tx[r].text, !.split = tx[r].split,
                            !.by = tx[r].by, !.at = tx[r].at] = tx[r]
        ELSE tx[r].by = req[s].by

\* The write of an upload touches no row outside what it replaces.
LEMMA CommitKeepsTheRest ==
    ASSUME Inv, NEW s \in Sessions, CommitUpload(s) PROVE KeepsTheRest(s)
<1> DEFINE q == req[s]
<1>1. PICK lineOf :
          /\ UploadReady(q) /\ Numbering(q, lineOf)
          /\ DOMAIN tx' = (DOMAIN tx \cup DOMAIN lineOf) \ q.removed
          /\ \A r \in DOMAIN tx' : tx'[r] = Merged(q)[r]
    BY UploadWrites
<1>2. Rows
    BY DEF Inv
<1>3. ASSUME NEW r \in DOMAIN tx, r \notin DOMAIN tx' PROVE tx[r].by = q.by
    BY <1>1, <1>3 DEF UploadReady
<1> HIDE DEF q
<1>4. ASSUME NEW r \in DOMAIN tx, r \in DOMAIN tx' PROVE Kept(tx'[r], tx[r])
    <2>1. CASE r \in DOMAIN q.changes
        <3>1. tx'[r] = Rewritten(q, tx[r], q.changes[r], uploads + 1)
            BY <1>1, <1>4, <2>1 DEF Numbering
        <3> QED BY <1>1, <1>2, <2>1, <3>1, RewrittenRow
    <2>2. CASE r \notin DOMAIN q.changes
        <3> DEFINE row == tx[r]
                   S == OwnerShares
        <3>1. tx'[r] = row
            BY <1>1, <1>4, <2>2 DEF Numbering
        <3>2. row \in [acct : Accounts, payer : Accounts, day : Days, original : 0..LastDay,
                       occ : Occurrences, text : Texts, split : 0..100,
                       shares : S, by : Persons \cup {Manual}, at : 0..uploads]
            BY <1>2 DEF Rows, StoredRow, OwnerShares
        <3> HIDE DEF row, S
        <3>3. Kept(row, row)
            BY <3>2 DEF Kept
        <3> QED BY <3>1, <3>3 DEF row
    <2> QED BY <2>1, <2>2
<1> QED BY <1>3, <1>4 DEF KeepsTheRest, Kept, q

\* An upload removes no row the partner imported and no hand-entered one, and of
\* the rows it keeps neither the day, nor the identity, nor the owner shares
\* change (update_mutable_fields_batch).
THEOREM UploadsKeepTheRestSerially ==
    ASSUME OneAtATime
    PROVE  Spec => UploadsKeepTheRest
<1>1. ASSUME Inv, [Next]_vars
      PROVE  [\A s \in Sessions : Uploaded(s) => KeepsTheRest(s)]_vars
    BY <1>1, UploadedByCommit, CommitKeepsTheRest
<1>2. UploadsKeepTheRest <=> [][\A s \in Sessions : Uploaded(s) => KeepsTheRest(s)]_vars
    BY DEF UploadsKeepTheRest, KeepsTheRest
<1> QED BY <1>1, <1>2, InitInv, InvStep, PTL DEF Spec

=============================================================================
