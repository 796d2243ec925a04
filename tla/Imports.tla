------------------------------- MODULE Imports -------------------------------
(***************************************************************************)
(* The rows of one source account label over repeated imports, in-app      *)
(* edits, and the label's account changing between personal and joint.     *)
(*                                                                         *)
(* All rows are household money out of one amount and one statement, so    *)
(* that what tells them apart is their account, their day and their        *)
(* occurrence among twins. Uploads and moves read first and write later;   *)
(* in-app edits are one step.                                              *)
(***************************************************************************)
EXTENDS Integers, FiniteSetsExt

CONSTANTS
    Ids,         \* transaction ids
    Persons,     \* the couple
    Joint,       \* the joint account's id; also the payer of its rows: none
    Manual,      \* the importer of hand-entered rows
    LastDay,     \* days are numbered 1..LastDay
    Twins,       \* bound: identical rows in one file
    Texts,       \* merchant, category, notes and tags of a row
    TagSplit,    \* the split the tags of a text stand for in a file
    HandSplits,  \* the splits an edit can set
    Files,       \* the exports a partner can upload
    MaxUploads,  \* bound: uploads
    Sessions     \* requests that can be in flight at once

ASSUME PersonsAssumption == Cardinality(Persons) = 2 /\ {Joint, Manual} \cap Persons = {}
ASSUME DaysAssumption == LastDay \in Nat
ASSUME SplitsAssumption == TagSplit \in [Texts -> 0..100] /\ HandSplits \subseteq 0..100

VARIABLES
    accounts,  \* the label's stored accounts
    byHand,    \* whether its joint account is a hand-entered one
    tx,        \* stored rows: a function on the stored ids
    uploads,   \* how many files were imported
    req        \* the request each session is running

db == <<accounts, byHand, tx, uploads>>
vars == <<accounts, byHand, tx, uploads, req>>

-----------------------------------------------------------------------------
(* Rows and their identity *)

Days == 1..LastDay
Occurrences == 0..(Twins - 1)
Accounts == Persons \cup {Joint}
NoShares == [p \in {} |-> 0]
Split(p, percent) == [q \in Persons |-> IF q = p THEN percent ELSE 100 - percent]
Shares == {Split(p, percent) : p \in Persons, percent \in 0..100}

\* original is the day before the first edit of it, 0 while there is none; by
\* and at are whose upload a row belongs to and when.
Row == [acct : Accounts, payer : Accounts, day : Days, original : 0..LastDay,
        occ : Occurrences, text : Texts, split : 0..100, shares : Shares \cup {NoShares},
        by : Persons \cup {Manual}, at : 0..MaxUploads]

FirstDay(row) == IF row.original = 0 THEN row.day ELSE row.original
NaturalKey(row) == <<row.acct, FirstDay(row), row.occ>>
StoredKey(row) == <<row.acct, row.day, row.occ>>

\* uq_transactions_natural_key.
UniqueKeys(f) == \A q, r \in DOMAIN f : StoredKey(f[q]) = StoredKey(f[r]) => q = r

\* Mutant of AsJoint: the split is the other person's.
AsJointSwapped(row) ==
    [row EXCEPT !.acct = Joint, !.payer = Joint, !.split = 100,
                !.shares = IF row.split < 100 THEN Split(row.payer, 100 - row.split)
                           ELSE NoShares]

\* A personal row as the joint account's, and back as its importer's.
AsJoint(row) ==
    [row EXCEPT !.acct = Joint, !.payer = Joint, !.split = 100,
                !.shares = IF row.split < 100 THEN Split(row.payer, row.split)
                           ELSE NoShares]

InPersonal(row) ==
    [row EXCEPT !.acct = row.by, !.payer = row.by, !.shares = NoShares,
                !.split = IF row.shares = NoShares THEN 100 ELSE row.shares[row.by]]

Idle == [op |-> "none"]
Begin(s, request) == req[s] = Idle /\ req' = [req EXCEPT ![s] = request]
Finish(s) == req' = [req EXCEPT ![s] = Idle]

-----------------------------------------------------------------------------
(* Uploads *)

\* A file's rows on the label: twins on a day are numbered from 0.
Line == [day : Days, occ : Occurrences, text : Texts]
Numbered(F) ==
    /\ \A f, g \in F : f.day = g.day /\ f.occ = g.occ => f = g
    /\ \A f \in F : f.occ > 0 => \E g \in F : g.day = f.day /\ g.occ = f.occ - 1
ASSUME FilesAssumption == Files \subseteq {F \in SUBSET Line : Numbered(F)}

\* Rows on a joint label import into the joint account, but never into a
\* hand-entered one.
\* Mutant of Target: the label's mark is not looked up.
TargetOwn(p) == p
Target(p) == IF Joint \in accounts /\ ~byHand THEN Joint ELSE p
LineKey(acct, line) == <<acct, line.day, line.occ>>
LineSplit(acct, line) == IF acct = Joint THEN 100 ELSE TagSplit[line.text]
\* The days from the first to the last of all the file's rows: those of the label
\* and those of other labels, which stretch it.
Windows(F) ==
    {w \in [first : Days, last : Days] :
        w.first <= w.last /\ \A f \in F : w.first <= f.day /\ f.day <= w.last}
InWindow(w, day) == w.first <= day /\ day <= w.last

\* The uploader's personal account, and the label's when the file names it.
Scope(p, F, acct) == {p} \cup (IF F = {} THEN {} ELSE {acct})

\* The stored rows an upload may touch, those with the key of a line, those
\* the uploader owns that no line has the key of.
\* Mutant of Existing: by the current day.
ExistingByDay(p, F, w, acct) ==
    {r \in DOMAIN tx : tx[r].acct \in Scope(p, F, acct) /\ InWindow(w, tx[r].day)}
Existing(p, F, w, acct) ==
    {r \in DOMAIN tx : tx[r].acct \in Scope(p, F, acct) /\ InWindow(w, FirstDay(tx[r]))}
TwinsOf(line, R, acct) == {r \in R : NaturalKey(tx[r]) = LineKey(acct, line)}

\* Mutants of Owns: every joint row; no joint row.
OwnsAllJoint(p, row) == row.payer \in {Joint, p}
OwnsPersonal(p, row) == row.payer = p
Owns(p, row) == IF row.payer = Joint THEN row.by = p ELSE row.payer = p
Gone(p, F, R, acct) ==
    {r \in R : Owns(p, tx[r]) /\ \A f \in F : NaturalKey(tx[r]) # LineKey(acct, f)}

Differs(line, acct, row) == line.text # row.text \/ LineSplit(acct, line) # row.split

\* The uploader accepts some of the changes; the others are skipped.
FetchFile(s, p, F, w) ==
    LET acct == Target(p)
        R == Existing(p, F, w, acct)
        lineOf == [r \in UNION {TwinsOf(f, R, acct) : f \in F} |->
                      CHOOSE f \in F : r \in TwinsOf(f, R, acct)]
        changed == {r \in DOMAIN lineOf : Differs(lineOf[r], acct, tx[r])} IN
    \E accepted \in SUBSET changed :
        Begin(s, [op |-> "upload", by |-> p, file |-> F, days |-> w, acct |-> acct,
                  new |-> {f \in F : TwinsOf(f, R, acct) = {}},
                  changes |-> [r \in accepted |-> lineOf[r]],
                  removed |-> Gone(p, F, R, acct)])

FetchUpload(s) ==
    /\ uploads < MaxUploads
    /\ \E p \in Persons, F \in Files : \E w \in Windows(F) : FetchFile(s, p, F, w)
    /\ UNCHANGED db

Imported(q, line, at) ==
    [acct |-> q.acct, payer |-> q.acct, day |-> line.day, original |-> 0,
     occ |-> line.occ, text |-> line.text, split |-> LineSplit(q.acct, line),
     shares |-> NoShares, by |-> q.by, at |-> at]

\* update_mutable_fields_batch: not the account, the key, the shares.
Rewritten(q, row, line, at) ==
    [row EXCEPT !.payer = q.acct, !.text = line.text,
                !.split = LineSplit(q.acct, line), !.by = q.by, !.at = at]

\* What is stored once the new rows are inserted and the accepted changes
\* written, before the removals.
Fits(q) == ExistsInjection(q.new, Ids \ DOMAIN tx)
Merged(q) ==
    LET newId == CHOOSE f \in Injection(q.new, Ids \ DOMAIN tx) : TRUE
        lineOf == AntiFunction(newId)
    IN  [r \in DOMAIN tx \cup DOMAIN lineOf |->
            IF r \in DOMAIN lineOf THEN Imported(q, lineOf[r], uploads + 1)
            ELSE IF r \in DOMAIN q.changes
                 THEN Rewritten(q, tx[r], q.changes[r], uploads + 1)
            ELSE tx[r]]

\* The constraints of the tables on the rows f and the accounts A.
Storable(f, A) ==
    /\ UniqueKeys(f)
    /\ \A r \in DOMAIN f : f[r].acct \in A
    /\ \A r \in DOMAIN f : f[r].shares = NoShares \/ f[r].payer = Joint

\* A personal account is added with its first row; a joint one must exist.
CommitUpload(s) ==
    LET q == req[s]
        named == IF q.new # {} /\ q.acct # Joint THEN {q.acct} ELSE {}
        rows == Merged(q) IN
    /\ q.op = "upload" /\ Fits(q)
    /\ Storable(rows, accounts \cup named)
    /\ accounts' = accounts \cup named
    /\ tx' = Restrict(rows, DOMAIN rows \ q.removed)
    /\ uploads' = uploads + 1
    /\ Finish(s)
    /\ UNCHANGED byHand

-----------------------------------------------------------------------------
(* Marking the label joint, and back *)

RowsIn(A) == {r \in DOMAIN tx : tx[r].acct \in A}

\* Twins of both partners are one bank row: the older upload's is kept.
Dropped(rows) ==
    {r \in DOMAIN rows : \E k \in DOMAIN rows :
        NaturalKey(rows[k]) = NaturalKey(rows[r]) /\ rows[k].at < rows[r].at}

FetchMark(s) ==
    LET moved == [r \in RowsIn(Persons) |-> AsJoint(tx[r])] IN
    /\ accounts # {} /\ ~byHand
    /\ Begin(s, [op |-> "mark", dropped |-> Dropped(moved),
                 moved |-> Restrict(moved, DOMAIN moved \ Dropped(moved))])
    /\ UNCHANGED db

FetchUnmark(s) ==
    /\ Joint \in accounts /\ ~byHand
    /\ Begin(s, [op |-> "unmark", dropped |-> {},
                 moved |-> [r \in RowsIn({Joint}) |-> InPersonal(tx[r])]])
    /\ UNCHANGED db

\* rekey_batch writes the account, the payer and the split of the rows as
\* they were fetched; the rest of a row is what is stored by now.
Rekeyed(moved) ==
    [r \in DOMAIN tx |->
        IF r \in DOMAIN moved
        THEN [tx[r] EXCEPT !.acct = moved[r].acct, !.payer = moved[r].payer,
                           !.split = moved[r].split, !.shares = moved[r].shares]
        ELSE tx[r]]

\* The accounts left behind are deleted, which a row still in them forbids.
Move(s, into, leaving) ==
    LET q == req[s]
        rows == Rekeyed(q.moved)
        left == (accounts \cup into) \ leaving IN
    /\ accounts' = left
    /\ tx' = Restrict(rows, DOMAIN rows \ q.dropped)
    /\ Storable(tx', left)
    /\ Finish(s)
    /\ UNCHANGED <<byHand, uploads>>

CommitMark(s) == req[s].op = "mark" /\ Move(s, {Joint}, Persons)

CommitUnmark(s) ==
    LET moved == req[s].moved IN
    /\ req[s].op = "unmark"
    /\ Move(s, {moved[r].acct : r \in DOMAIN moved}, {Joint})

Abort(s) ==
    /\ req[s] # Idle
    /\ Finish(s)
    /\ UNCHANGED db

-----------------------------------------------------------------------------
(* In-app edits and hand-entered rows *)

Edit(r, row) ==
    /\ tx' = [tx EXCEPT ![r] = row]
    /\ UniqueKeys(tx')
    /\ UNCHANGED <<accounts, byHand, uploads, req>>

EditDay(r) ==
    \E day \in Days \ {tx[r].day} :
        Edit(r, [tx[r] EXCEPT !.day = day, !.original = FirstDay(tx[r])])

EditText(r) == \E text \in Texts \ {tx[r].text} : Edit(r, [tx[r] EXCEPT !.text = text])

EditSplit(r) ==
    /\ tx[r].payer # Joint
    /\ \E percent \in HandSplits \ {tx[r].split} : Edit(r, [tx[r] EXCEPT !.split = percent])

EditShares(r) ==
    /\ tx[r].payer = Joint
    /\ \E shares \in ({Split(p, n) : p \in Persons, n \in HandSplits} \cup {NoShares})
                     \ {tx[r].shares} :
          Edit(r, [tx[r] EXCEPT !.shares = shares])

\* Above the occurrences of the rows dated that day, whatever their source.
NextOccurrence(day) ==
    LET same == {tx[r].occ : r \in {t \in RowsIn({Joint}) : tx[t].day = day}} IN
    IF same = {} THEN 0 ELSE Max(same) + 1

RecordManual ==
    \E r \in Ids \ DOMAIN tx, day \in Days, text \in Texts, p \in Persons, n \in HandSplits :
        /\ accounts = {} \/ (accounts = {Joint} /\ byHand)
        /\ NextOccurrence(day) \in Occurrences
        /\ accounts' = {Joint} /\ byHand' = TRUE
        /\ tx' = [t \in DOMAIN tx \cup {r} |->
                    IF t # r THEN tx[t]
                    ELSE [acct |-> Joint, payer |-> Joint, day |-> day, original |-> 0,
                          occ |-> NextOccurrence(day), text |-> text, split |-> 100,
                          shares |-> Split(p, n), by |-> Manual, at |-> 0]]
        /\ UniqueKeys(tx')
        /\ UNCHANGED <<uploads, req>>

DeleteManual(r) ==
    /\ tx[r].by = Manual
    /\ tx' = Restrict(tx, DOMAIN tx \ {r})
    /\ UNCHANGED <<accounts, byHand, uploads, req>>

-----------------------------------------------------------------------------
Init ==
    /\ accounts = {} /\ byHand = FALSE
    /\ tx = [r \in {} |-> Idle]
    /\ uploads = 0
    /\ req = [s \in Sessions |-> Idle]

Next ==
    \/ \E s \in Sessions :
          \/ FetchUpload(s) \/ CommitUpload(s)
          \/ FetchMark(s) \/ CommitMark(s)
          \/ FetchUnmark(s) \/ CommitUnmark(s)
          \/ Abort(s)
    \/ \E r \in DOMAIN tx :
          EditDay(r) \/ EditText(r) \/ EditSplit(r) \/ EditShares(r) \/ DeleteManual(r)
    \/ RecordManual

Spec == Init /\ [][Next]_vars

-----------------------------------------------------------------------------
(* Properties *)

\* The tables keep the types of their columns, and a row is paid by the owner of
\* its account, or by no one when that is the joint account.
TypeOK ==
    /\ accounts \subseteq Accounts /\ byHand \in BOOLEAN /\ uploads \in 0..MaxUploads
    /\ DOMAIN tx \subseteq Ids /\ \A r \in DOMAIN tx : tx[r] \in Row
    /\ Storable(tx, accounts)
    /\ \A r \in DOMAIN tx : tx[r].payer = tx[r].acct

\* Each bank row is stored once: no two imported rows of an account have the
\* identity a file gives them, through edits, re-imports, and both partners'
\* imports being joined (natural_key, _collapse_twins).
StoredOnce ==
    \A q, r \in {t \in DOMAIN tx : tx[t].by # Manual} :
        NaturalKey(tx[q]) = NaturalKey(tx[r]) => q = r

\* A label marked joint has no personal account, so both partners' files
\* resolve to the same one.
OneHome == Joint \in accounts /\ ~byHand => accounts = {Joint}

\* A row of a personal account is its importer's, and marking the account
\* joint and back brings it home with its split (as_joint_row,
\* _in_personal_account).
MovesReturnHome ==
    \A r \in DOMAIN tx :
        tx[r].payer # Joint => tx[r].by = tx[r].acct /\ InPersonal(AsJoint(tx[r])) = tx[r]

Uploaded(s) == req[s].op = "upload" /\ uploads' # uploads

\* A re-upload is a true replace: afterwards every line has one row, and no
\* other row that is the uploader's is left in the file's window, in the personal
\* account or in an account the file names.
TrueReplace ==
    [][\A s \in Sessions : Uploaded(s) =>
        LET q == req[s]
            mine == {r \in DOMAIN tx' : tx'[r].by = q.by
                                        /\ tx'[r].acct \in Scope(q.by, q.file, q.acct)
                                        /\ InWindow(q.days, FirstDay(tx'[r]))}
            keys == {LineKey(q.acct, f) : f \in q.file} IN
        /\ {NaturalKey(tx'[r]) : r \in mine} \subseteq keys
        /\ keys \subseteq {NaturalKey(tx'[r]) : r \in DOMAIN tx'}]_vars

\* An upload removes no row the partner imported and no hand-entered one, and
\* of the rows it keeps, neither their day, nor their identity, nor their
\* owner shares change.
UploadsKeepTheRest ==
    [][\A s \in Sessions : Uploaded(s) => \A r \in DOMAIN tx :
        IF r \in DOMAIN tx'
        THEN [tx'[r] EXCEPT !.text = tx[r].text, !.split = tx[r].split,
                            !.by = tx[r].by, !.at = tx[r].at] = tx[r]
        ELSE tx[r].by = req[s].by]_vars

\* A file that was just compared with the stored rows can be stored: what the
\* true replace wants to add is not refused (UploadCsvUseCase.execute).
UploadsFit ==
    [][\A s \in Sessions :
        req[s] = Idle /\ req'[s].op = "upload" /\ Fits(req'[s])
            => UniqueKeys(Merged(req'[s]))]_vars

=============================================================================
