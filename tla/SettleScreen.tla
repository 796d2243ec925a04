----------------------------- MODULE SettleScreen -----------------------------
(* The Settle Up page: the year in the hero, the month in the URL, the month *)
(* drill-down with its audit table and its lock, waivers and deletions, over *)
(* answers that arrive late and are cached per month (SettleUpPage.tsx,      *)
(* SettleUpAuditTable.tsx, LedgerMonthList.tsx, FinalizationBanner.tsx,      *)
(* AdjustmentExportDialog.tsx, lib/ledger.ts). Amounts are signed: positive  *)
(* is owed to, or paid by, the first person.                                 *)
EXTENDS Integers, FiniteSets, FiniteSetsExt, Functions

CONSTANTS Months,       \* calendar months, as <<year, month>>
          ThisMonth,    \* the month of the clock
          Splits,       \* month -> what each person fronted for the other
          Settlements,  \* payments that may be recorded: number -> [from, portions],
                        \* portions: month -> amount
          NoData, None,
          MaxRequests,  \* bound: requests of this page that change the server
          MaxFetches    \* bound: months being fetched at once

First == "first"
Second == "second"
ThisYear == ThisMonth[1]
Years == {m[1] : m \in Months}

VARIABLES server, view, calls
vars == <<server, view, calls>>

\* --- the server's answer for one month ---------------------------------------
Portion(s, m) == IF m \in DOMAIN s.portions THEN s.portions[m] ELSE 0
SignedForFirst(amount, favored) == IF favored = First THEN amount ELSE -amount
Paid(stored, m) ==
  SumFunction([s \in DOMAIN stored |-> SignedForFirst(Portion(stored[s], m), stored[s].from)])
LedgerMonths(stored) == [m \in Months |-> Splits[m][First] - Splits[m][Second] + Paid(stored, m)]
Touches(s, m) == m \in DOMAIN s.portions
ActiveMonths(stored) ==
  {m \in Months : Splits[m] # [p \in {First, Second} |-> 0] \/ \E s \in DOMAIN stored : Touches(stored[s], m)}
MonthsOf(y) == {m \in Months : m[1] = y}
YearBalance(stored, y) == LET months == LedgerMonths(stored) IN SumFunction([m \in MonthsOf(y) |-> months[m]])
Owing(balance) == IF balance > 0 THEN Second ELSE First
AnswerFor(m) == [month |-> m, stored |-> server.stored, locked |-> m \in server.locked]

\* --- what the page shows ------------------------------------------------------
\* keepPreviousData: while a month loads, the last answer stands in for it; a
\* month that failed to load shows the error alone.
Latest == IF view.cache[view.month] # NoData THEN view.cache[view.month] ELSE view.last
Data == IF view.failed /\ view.cache[view.month] = NoData THEN NoData ELSE Latest
FindMonth(data, m) == IF m \in ActiveMonths(data.stored) THEN m ELSE None
SettlementsTouching(data, m) == {s \in DOMAIN data.stored : Touches(data.stored[s], m)}
\* What was charged in the year, or paid, nets to something.
HasActivity(data, y) ==
  \/ SumFunction([m \in MonthsOf(y) |-> Splits[m][First] - Splits[m][Second]]) # 0
  \/ SumFunction([m \in MonthsOf(y) |-> Paid(data.stored, m)]) # 0
\* The current year, unless it is untouched and another one is not.
DefaultLedgerYear(data) ==
  LET open == {y \in Years : YearBalance(data.stored, y) # 0}
      active == {y \in Years : HasActivity(data, y)}
  IN CASE HasActivity(data, ThisYear) -> ThisYear
       [] ~HasActivity(data, ThisYear) /\ open # {} -> Min(open)
       [] ~HasActivity(data, ThisYear) /\ open = {} /\ active # {} -> Max(active)
       [] OTHER -> ThisYear
SelectedYear == IF view.picked # None THEN view.picked ELSE DefaultLedgerYear(Data)

\* The expanded row of the list, or the card of a month without activity.
Expanded == Data # NoData /\ FindMonth(Data, view.month) # None /\ view.collapsed # view.month
                /\ view.month[1] = SelectedYear
LoneCard == Data # NoData /\ FindMonth(Data, view.month) = None
              /\ (view.explicit \/ ActiveMonths(Data.stored) = {})
\* MonthDrilldown: another month's answer is not shown under this month's name.
IsReady == Data.month = view.month
Drilled == (Expanded \/ LoneCard) /\ IsReady

\* --- the audit table of the drill-down ----------------------------------------
SplitRow(payer, m) == [net |-> SignedForFirst(Splits[m][payer], payer)]
\* Mutant: a payment's row shows all of it, not this month's portion.
SettlementRowTotal(s, m) ==
  [net |-> SignedForFirst(SumFunction([n \in Months |-> Portion(s, n)]), s.from)]
SettlementRow(s, m) == [net |-> SignedForFirst(Portion(s, m), s.from)]
LedgerRowsNet(data, m) ==
  SumFunction([p \in {First, Second} |-> SplitRow(p, m).net])
  + SumFunction([s \in SettlementsTouching(data, m) |-> SettlementRow(data.stored[s], m).net])
TotalNet(data, m) == IF m \in ActiveMonths(data.stored) THEN LedgerMonths(data.stored)[m] ELSE 0

\* --- queries ------------------------------------------------------------------
Fetching == {c.month : c \in {d \in calls : d.kind = "fetch"}}
Fetch(m) ==
  /\ m = view.month /\ m \notin Fetching /\ Cardinality(Fetching) < MaxFetches
  /\ calls' = calls \cup {[kind |-> "fetch", month |-> m, answer |-> AnswerFor(m)]}
  /\ view' = [view EXCEPT !.failed = FALSE]
  /\ UNCHANGED server
Deliver(c) ==
  /\ c.kind = "fetch"
  /\ calls' = calls \ {c}
  /\ view' = [view EXCEPT !.cache[c.month] = c.answer]
  /\ UNCHANGED server
\* After the retries: what came before stays on screen.
FetchFails(c) ==
  /\ c.kind = "fetch"
  /\ calls' = calls \ {c}
  /\ view' = [view EXCEPT !.failed = @ \/ (c.month = view.month /\ view.cache[c.month] = NoData)]
  /\ UNCHANGED server

Moved(m) == [view EXCEPT !.month = m, !.explicit = TRUE,
                         !.last = IF view.cache[m] = NoData THEN Latest ELSE NoData,
                         !.failed = @ /\ m = view.month]
\* The bare page jumps once to the newest month that has a row.
Redirect ==
  /\ Data # NoData /\ ~view.explicit
  /\ ActiveMonths(Data.stored) # {} /\ view.month \notin ActiveMonths(Data.stored)
  /\ LET newest == CHOOSE m \in ActiveMonths(Data.stored) : \A n \in ActiveMonths(Data.stored) :
                     12 * m[1] + m[2] >= 12 * n[1] + n[2]
     IN view' = Moved(newest)
  /\ UNCHANGED <<server, calls>>

PickYear(y) ==
  /\ Data # NoData /\ view' = [view EXCEPT !.picked = y] /\ UNCHANGED <<server, calls>>
Toggle(m) ==
  /\ Data # NoData /\ m \in ActiveMonths(Data.stored) /\ m[1] = SelectedYear
  /\ view' = CASE m = view.month /\ Expanded -> [view EXCEPT !.collapsed = m]
              [] m = view.month /\ ~Expanded -> [view EXCEPT !.collapsed = None]
              [] OTHER -> [Moved(m) EXCEPT !.collapsed = None]
  /\ UNCHANGED <<server, calls>>
\* Back, forward or a deep link.
Visit(m) == view' = Moved(m) /\ UNCHANGED <<server, calls>>

\* --- requests -----------------------------------------------------------------
Sent == Cardinality({c \in calls : c.kind # "fetch"}) + server.done
Send(call) == Sent < MaxRequests /\ calls' = calls \cup {call} /\ UNCHANGED server
Pending(kinds) == \E c \in calls : c.kind \in kinds
LockClick ==
  /\ Drilled /\ ~Pending({"lock", "unlock"})
  /\ Send([kind |-> IF Data.locked THEN "unlock" ELSE "lock", month |-> view.month])
  /\ UNCHANGED view
BalanceShown == YearBalance(Data.stored, SelectedYear)
OpenWaive ==
  /\ Data # NoData /\ BalanceShown # 0 /\ ~view.waiving
  /\ view' = [view EXCEPT !.waiving = TRUE] /\ UNCHANGED <<server, calls>>
CloseWaive == view.waiving /\ view' = [view EXCEPT !.waiving = FALSE] /\ UNCHANGED <<server, calls>>
\* The dialog follows the poll and the picked year: it shows, and sends, the
\* year and the direction of the balance as it is now.
Waive ==
  /\ view.waiving /\ Data # NoData /\ BalanceShown # 0 /\ ~Pending({"waive"})
  /\ Send([kind |-> "waive", year |-> SelectedYear, from |-> Owing(BalanceShown),
           saw |-> Data.stored])
  /\ UNCHANGED view
\* The row last asked to go is disabled while it goes.
Delete(s) ==
  /\ Data # NoData /\ s \in DOMAIN Data.stored
  /\ \E m \in MonthsOf(SelectedYear) : Touches(Data.stored[s], m)
  /\ ~(view.deleting = s /\ Pending({"delete"}))
  /\ Send([kind |-> "delete", id |-> s])
  /\ view' = [view EXCEPT !.deleting = s]

\* --- the server -----------------------------------------------------------------
Inserted(stored, id, row) ==
  [s \in DOMAIN stored \cup {id} |-> IF s = id THEN row ELSE stored[s]]
Without(stored, id) == [s \in DOMAIN stored \ {id} |-> stored[s]]
\* A waiver pays each open month of its year what it is short of zero, in the
\* direction the year runs.
Waiver(stored, y, from) ==
  LET open == {m \in MonthsOf(y) \cap ActiveMonths(stored) : LedgerMonths(stored)[m] # 0}
  IN [from |-> from,
      portions |-> [m \in open |-> SignedForFirst(-LedgerMonths(stored)[m],
                                                  Owing(YearBalance(stored, y)))]]
\* Mutant: any direction is taken.
WaivesAny(c, stored) == YearBalance(stored, c.year) # 0
\* Refused when the year is settled or runs the other way by now.
WaivesCurrent(c, stored) ==
  YearBalance(stored, c.year) # 0 /\ c.from = Owing(YearBalance(stored, c.year))
\* invalidateAll reloads the month on screen, dropping the answer on its way.
Reloaded == {c \in calls : c.kind = "fetch" /\ c.month = view.month /\ view.cache[c.month] # NoData}
Served(c, new, v) ==
  /\ server' = [new EXCEPT !.done = @ + 1]
  /\ calls' = (calls \ {c}) \ Reloaded
  /\ view' = v
Serve(c) ==
  \/ /\ c.kind = "lock" /\ c.month \notin server.locked
     /\ Served(c, [server EXCEPT !.locked = @ \cup {c.month}], view)
  \/ /\ c.kind = "unlock" /\ c.month \in server.locked
     /\ Served(c, [server EXCEPT !.locked = @ \ {c.month}], view)
  \/ /\ c.kind = "delete" /\ c.id \in DOMAIN server.stored
     /\ Served(c, [server EXCEPT !.stored = Without(@, c.id)], [view EXCEPT !.deleting = None])
\* A waiver gets an id of its own, below those of Settlements.
ServeWaiver(c) ==
  /\ c.kind = "waive" /\ WaivesCurrent(c, server.stored)
  /\ Served(c, [server EXCEPT !.stored =
                   Inserted(@, -(server.done + 1), Waiver(@, c.year, c.from))],
            [view EXCEPT !.waiving = FALSE])
Fail(c) ==
  /\ c.kind # "fetch"
  /\ calls' = calls \ {c}
  /\ server' = [server EXCEPT !.done = @ + 1]
  /\ UNCHANGED view
\* The partner, the assistant or another tab records a settlement or deletes it.
Elsewhere(s) ==
  /\ server.done < MaxRequests
  /\ \/ /\ s \notin DOMAIN server.stored
        /\ server' = [server EXCEPT !.stored = Inserted(@, s, Settlements[s]), !.done = @ + 1]
     \/ /\ s \in DOMAIN server.stored
        /\ server' = [server EXCEPT !.stored = Without(@, s), !.done = @ + 1]
  /\ UNCHANGED <<view, calls>>

Init ==
  /\ \E ids \in SUBSET DOMAIN Settlements :
       server = [stored |-> [s \in ids |-> Settlements[s]], locked |-> {}, done |-> 0]
  /\ \E m \in Months, explicit \in BOOLEAN :
       /\ explicit \/ m = ThisMonth
       /\ view = [month |-> m, explicit |-> explicit, cache |-> [n \in Months |-> NoData],
                  last |-> NoData, picked |-> None, collapsed |-> None,
                  waiving |-> FALSE, deleting |-> None, failed |-> FALSE]
  /\ calls = {}

Next ==
  \/ \E m \in Months : Fetch(m) \/ Toggle(m) \/ Visit(m)
  \/ \E c \in calls : Deliver(c) \/ FetchFails(c) \/ Serve(c) \/ ServeWaiver(c) \/ Fail(c)
  \/ Redirect \/ LockClick \/ OpenWaive \/ CloseWaive \/ Waive
  \/ \E y \in Years : PickYear(y)
  \/ \E s \in DOMAIN Settlements : Elsewhere(s)
  \/ Data # NoData /\ \E s \in DOMAIN Data.stored : Delete(s)

Spec == Init /\ [][Next]_vars

(* A waiver that is stored clears the debt its reader saw: the year ran in   *)
(* the direction the dialog named, now every month of it is at zero, and no  *)
(* other month moved. Polls, late answers, another year picked under the     *)
(* open dialog and payments recorded elsewhere meanwhile get it refused, not *)
(* doubled (record_waived_settlement.py, the stale UI).                      *)
WaivesWhatWasShown ==
  \A c \in calls \ calls' : ServeWaiver(c) =>
    /\ Owing(YearBalance(c.saw, c.year)) = Owing(YearBalance(server.stored, c.year))
    /\ \A m \in Months :
         LedgerMonths(server'.stored)[m] = IF m[1] = c.year THEN 0 ELSE LedgerMonths(server.stored)[m]

(* The rows of the audit table of a month (who fronted what, each payment's  *)
(* portion of this month) sum to the balance the ledger serves for it.       *)
AuditAddsUp ==
  Data # NoData /\ Drilled => LedgerRowsNet(Data, view.month) = TotalNet(Data, view.month)
=============================================================================
