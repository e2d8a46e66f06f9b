------------------------------ MODULE Reports ------------------------------
(***************************************************************************)
(* The read side: the paged listings of refunds and of users, the yearly   *)
(* summary, the calendar of daily counts and the statistics of one user.   *)
(* A listing runs two statements and a summary four, each against what is  *)
(* committed when it runs, while other requests create, decide and delete  *)
(* refunds and register users.  A client pages through a listing with one  *)
(* request per page until page reaches total_pages.                        *)
(***************************************************************************)
EXTENDS Calendar, Sequences, FiniteSets, FiniteSetsExt, SequencesExt

CONSTANTS Tables,     \* the refunds there may be at the beginning: sets of rows
          People,     \* the users there are at the beginning
          Calls,      \* the listings and summaries a client may ask for
          Nobody,     \* a filter that was not given
          Today,      \* when refunds are created
          MaxWrites   \* bound on the writes of the other requests

Statuses == {"pending", "approved", "paid", "rejected"}
Categories == {"food", "transport"}     \* two of the allowed ones

IdsOf(table) == {r.id : r \in table}

RefundRows == [id: Nat, user: Nat, status: Statuses, category: Categories,
               amount: Nat, created: Instants]
UserRows == [id: Nat, name: Nat]

IsTable(table, type) == /\ IsFiniteSet(table) /\ table \subseteq type
                        /\ \A r, s \in table : r.id = s.id => r = s

(* The tables keep their constraints; viewers and filters are ids; the     *)
(* router parses dates, and whatever else was sent is up to the validators.*)
InputsAreSound ==
  /\ MaxWrites \in Nat
  /\ Nobody \notin Nat /\ Nobody \notin Statuses /\ Nobody \notin Dates
  /\ Today \in Instants
  /\ IsTable(People, UserRows)
  /\ \A table \in Tables : IsTable(table, RefundRows) /\ \A r \in table : r.user \in IdsOf(People)
  /\ \A c \in Calls :
       /\ c.report \in {"refunds", "users", "summary"}
       /\ c.role \in {"admin", "standard"} /\ c.viewer \in Nat /\ c.filter \in {Nobody} \cup Nat
       /\ c.report = "refunds" => c.from \in {Nobody} \cup Dates /\ c.to \in {Nobody} \cup Dates
       /\ c.report = "users" => c.sort = "name" /\ c.order = "asc"

ASSUME ReportsAssumption == InputsAreSound

VARIABLES
  refunds,   \* rows [id, user, status, category, amount, created]
  users,     \* rows [id, name]
  pc,        \* the statement the reader runs next
  call,      \* what it was asked
  page,      \* the page it is asked for
  total,     \* the listing's last total
  rows,      \* the rows of all pages so far
  grouped,   \* the summary's aggregates
  given,     \* the last id that the sequence of each table has given
  writes,    \* writes since the reader's first statement
  steady     \* rows that matched ever since the first total

vars == <<refunds, users, pc, call, page, total, rows, grouped, given, writes, steady>>

-----------------------------------------------------------------------------
(* Who sees what: an admin may narrow the report to one requester, anybody *)
(* else gets their own, whatever they ask for.                             *)
FilterAlways(c) == IF c.filter # Nobody THEN c.filter
                   ELSE IF c.role = "admin" THEN Nobody ELSE c.viewer     \* bug

Target(c) == IF c.role = "admin" THEN c.filter ELSE c.viewer

Of(table, user) == {r \in table : user \in {Nobody, r.user}}
In(table, window) == {r \in table : Inside(r.created, window)}

(* __list_filters, for the total and the page alike.  The name, another    *)
(* column to filter and to sort by, is left out of the rows.               *)
Matches(r, c) ==
  /\ c.status \in {Nobody, r.status}
  /\ c.from # Nobody => ~Before(r.created, Midnight(c.from))
  /\ c.to # Nobody => Before(r.created, Days(c.to, c.to).until)

Listed(table, c) == {r \in Of(table, Target(c)) : Matches(r, c)}

Source(c, table, people) == IF c.report = "users" THEN people ELSE Listed(table, c)
Now(c) == Source(c, refunds, users)

(* The sort key: a status sorts by its name, a date by its number.         *)
StatusRank(s) == CASE s = "approved" -> 1 [] s = "paid" -> 2
                   [] s = "pending" -> 3 [] s = "rejected" -> 4
SortKey(r, c) == CASE c.sort = "created_at" -> 2 * Number(r.created.date) + r.created.time
                   [] c.sort = "amount_in_cents" -> r.amount
                   [] c.sort = "status" -> StatusRank(r.status)
                   [] c.sort = "name" -> r.name

PrecedesByKey(r, s, c) ==     \* bug: no tiebreaker
  IF c.order = "asc" THEN SortKey(r, c) < SortKey(s, c) ELSE SortKey(r, c) > SortKey(s, c)

(* ORDER BY key, id DESC; users: name ASC, id ASC.                         *)
Precedes(r, s, c) ==
  \/ IF c.order = "asc" THEN SortKey(r, c) < SortKey(s, c) ELSE SortKey(r, c) > SortKey(s, c)
  \/ SortKey(r, c) = SortKey(s, c)
     /\ IF c.report = "users" THEN r.id < s.id ELSE r.id > s.id

(* Rows that neither precedes the other may come in any order.             *)
Orderings(table, c) ==
  {s \in SetToSeqs(table) : \A i, j \in DOMAIN s : i < j => ~Precedes(s[j], s[i], c)}

OffsetFromOne(p, c) == p * c.per_page     \* bug: pages counted from 0

Offset(p, c) == (p - 1) * c.per_page

PageOf(s, p, c) == SubSeq(s, Offset(p, c) + 1, Min({Offset(p, c) + c.per_page, Len(s)}))

TotalPages(n, c) == (n + c.per_page - 1) \div c.per_page

-----------------------------------------------------------------------------
(* Aggregates: how many rows and how much money.                           *)
Count(table) == [count |-> Cardinality(table),
                 amount |-> SumFunction([r \in table |-> r.amount])]

ByStatus(table) == [s \in Statuses |-> Count({r \in table : r.status = s})]

ByCategory(table) == [k \in Categories |-> Count({r \in table : r.category = k})]

(* The months of one year, each split by status; twelve, zeros included.   *)
ByMonth(table, y) ==
  [m \in 1..12 |-> ByStatus({r \in table : r.created.date.y = y /\ r.created.date.m = m})]

(* count_by_day and the grid the controller fills from the calendar.       *)
DailyCounts(table, user, y, m) ==
  LET counted == In(Of(table, user), MonthWindow(y, m))
  IN  [d \in 1..DaysInMonth(y, m) |->
         Cardinality({r \in counted : r.created.date = Date(y, m, d)})]

AvailableYears(table, user) == {r.created.date.y : r \in Of(table, user)}

(* The statistics of one user.                                             *)
CountByStatus(table, user) == ByStatus({r \in table : r.user = user})

Unwindowed(table, c) == Of(table, Target(c))     \* bug: the status totals ignore the year

Summarized(table, c) == In(Of(table, Target(c)), YearWindow(c.year))

NoGroups == [status |-> <<>>, categories |-> <<>>, months |-> <<>>, years |-> {}]

-----------------------------------------------------------------------------
Init ==
  /\ refunds \in Tables
  /\ users = People
  /\ pc = "idle" /\ call \in Calls /\ page = 0 /\ total = 0
  /\ rows = <<>> /\ grouped = NoGroups /\ writes = 0 /\ steady = {}
  /\ given = [refunds |-> Max({0} \cup IdsOf(refunds)), users |-> Max({0} \cup IdsOf(users))]

(* Between the first and the last statement of a report.                   *)
Reading == pc \in {"page", "category", "month", "years"} \/ (pc = "total" /\ page > 1)

(* What the routes and the validators let through.  The bounds on the year *)
(* keep the last window of a year within the dates there are.              *)
YearIsValid(y) == y \in 2000..2100

IsValid(c) ==
  CASE c.report = "summary" -> YearIsValid(c.year)
    [] c.report = "users"   -> c.per_page \in 1..100
    [] c.report = "refunds" -> /\ c.per_page \in 1..100
                               /\ c.status \in Statuses \cup {Nobody}
                               /\ c.sort \in {"created_at", "amount_in_cents", "status"}
                               /\ c.order \in {"asc", "desc"}

(* Only an admin lists users; anybody else is refused before any query.  A *)
(* last day without a next one raises and is answered 500.                 *)
Refused(c) == \/ ~IsValid(c)
              \/ c.report = "users" /\ c.role # "admin"
              \/ c.report = "refunds" /\ c.to = LastDate

Ask ==
  /\ pc = "idle"
  /\ page' = 1
  /\ pc' = IF Refused(call) THEN "refused"
           ELSE IF call.report = "summary" THEN "status" ELSE "total"
  /\ UNCHANGED <<refunds, users, call, total, rows, grouped, given, writes, steady>>

Total ==
  /\ pc = "total"
  /\ total' = Cardinality(Now(call))
  /\ steady' = IF page = 1 THEN IdsOf(Now(call)) ELSE steady
  /\ pc' = "page"
  /\ UNCHANGED <<refunds, users, call, page, rows, grouped, given, writes>>

Page ==
  /\ pc = "page"
  /\ \E s \in Orderings(Now(call), call) : rows' = rows \o PageOf(s, page, call)
  /\ IF page < TotalPages(total, call)
     THEN page' = page + 1 /\ pc' = "total"
     ELSE page' = page /\ pc' = "answered"
  /\ UNCHANGED <<refunds, users, call, total, grouped, given, writes, steady>>

Statement(here, next, field, value) ==
  /\ pc = here
  /\ grouped' = [grouped EXCEPT ![field] = value]
  /\ pc' = next
  /\ UNCHANGED <<refunds, users, call, page, total, rows, given, writes, steady>>

SummarizeStatus == Statement("status", "category", "status", ByStatus(Summarized(refunds, call)))
SummarizeCategory ==
  Statement("category", "month", "categories", ByCategory(Summarized(refunds, call)))
SummarizeMonths ==
  Statement("month", "years", "months",
            ByMonth(In(Of(refunds, Target(call)), YearWindow(call.year)), call.year))
SelectYears == Statement("years", "answered", "years", AvailableYears(refunds, Target(call)))

(* What the other requests commit in between.                              *)
Write(newRefunds, newUsers) ==
  /\ Reading /\ writes < MaxWrites
  /\ refunds' = newRefunds /\ users' = newUsers
  /\ writes' = writes + 1
  /\ steady' = IF call.report = "summary" THEN {}
               ELSE steady \cap IdsOf(Source(call, newRefunds, newUsers))
  /\ UNCHANGED <<pc, call, page, total, rows, grouped>>

ReusedId(table) ==     \* bug: no sequence behind the key
  1 + Cardinality(IF table = "refunds" THEN refunds ELSE users)

(* A sequence gives no id twice, also when its row is gone.                *)
NextId(table) == given[table] + 1
Give(table) == given' = [given EXCEPT ![table] = @ + 1]

Create == /\ \E u \in IdsOf(users), k \in Categories, a \in {1, 2} :
               Write(refunds \cup {[id |-> NextId("refunds"), user |-> u, status |-> "pending",
                                    category |-> k, amount |-> a, created |-> Today]}, users)
          /\ Give("refunds")
Decide == /\ \E r \in refunds, s \in Statuses \ {"pending"} :
               /\ r.status # "paid" /\ s # r.status /\ (s = "paid" => r.status = "approved")
               /\ Write((refunds \ {r}) \cup {[r EXCEPT !.status = s]}, users)
          /\ UNCHANGED given
Delete == /\ \E r \in refunds : r.status = "pending" /\ Write(refunds \ {r}, users)
          /\ UNCHANGED given
Register == /\ \E n \in {1, 2} :
                 Write(refunds, users \cup {[id |-> NextId("users"), name |-> n]})
            /\ Give("users")

Next == \/ Ask \/ Total \/ Page
        \/ SummarizeStatus \/ SummarizeCategory \/ SummarizeMonths \/ SelectYears
        \/ Create \/ Decide \/ Delete \/ Register
        \/ (pc \in {"answered", "refused"} /\ UNCHANGED vars)

Spec == Init /\ [][Next]_vars

-----------------------------------------------------------------------------
Answered(reports) == pc = "answered" /\ call.report \in reports

TypeOK ==
  /\ \A r \in refunds : r.status \in Statuses /\ r.user \in IdsOf(users)
  /\ \A r, s \in refunds : r.id = s.id => r = s
  /\ page \in Nat /\ total \in Nat /\ steady \subseteq Nat
  /\ writes \in 0..MaxWrites

(* Paging through a listing while nothing is written shows every row that  *)
(* matches exactly once and in the order asked for, and total counts them; *)
(* rows whose sort key is equal included (refunds_repository.py 263-274).  *)
QuietListingIsComplete ==
  Answered({"refunds", "users"}) /\ writes = 0 =>
    /\ ToSet(rows) = Now(call) /\ Len(rows) = total
    /\ Cardinality(Now(call)) = total
    /\ \A i, j \in DOMAIN rows : i < j => Precedes(rows[i], rows[j], call)

(* Offsets move under the client's feet when rows come, go or change their *)
(* place between two pages, or between a total and its page.  However many *)
(* pages there are, each such write costs at most one of the rows that     *)
(* matched all along, and shows at most one row twice.                     *)
EveryMissedRowHasAWrite ==
  Answered({"refunds", "users"}) =>
    /\ Cardinality(steady \ IdsOf(ToSet(rows))) <= writes
    /\ Len(rows) - Cardinality(IdsOf(ToSet(rows))) <= writes

(* The summary's parts are read one after the other: the status totals,    *)
(* the categories and the months differ by no more than was written in     *)
(* between.  With nothing written they agree status by status, in count    *)
(* and amount, no row of the year is lost, and the year is offered to the  *)
(* picker if it has a row (refunds_repository.py 179-238).                 *)
Total4(group) == SumFunction([k \in DOMAIN group |-> group[k].count])
MonthTotal(months) == SumFunction([m \in 1..12 |-> Total4(months[m])])
Apart(a, b) == IF a < b THEN b - a ELSE a - b

SummaryAddsUp ==
  Answered({"summary"}) =>
    /\ Apart(Total4(grouped.status), MonthTotal(grouped.months)) <= writes
    /\ Apart(Total4(grouped.status), Total4(grouped.categories)) <= writes
    /\ writes = 0 =>
         /\ \A s \in Statuses :
              /\ grouped.status[s].count =
                   SumFunction([m \in 1..12 |-> grouped.months[m][s].count])
              /\ grouped.status[s].amount =
                   SumFunction([m \in 1..12 |-> grouped.months[m][s].amount])
         /\ MonthTotal(grouped.months) > 0 => call.year \in grouped.years
         /\ MonthTotal(grouped.months) =
              Cardinality({r \in Of(refunds, Target(call)) : r.created.date.y = call.year})

(* BR-012, UC-017: whoever is not an admin gets an answer made of their    *)
(* own refunds and of nobody else's, whatever filter they send.  Every row *)
(* is their own.  With nothing written in between, the listing shows and   *)
(* its total counts exactly their own refunds that match, the summary's    *)
(* counts and amounts by status, category and month are those of their own *)
(* refunds of the year, and its years are those of their own.              *)
Own == {r \in refunds : r.user = call.viewer}
OwnOfYear == {r \in Own : r.created.date.y = call.year}

OnlyOwnRefunds ==
  call.role # "admin" =>
    /\ call.report = "refunds" => \A i \in DOMAIN rows : rows[i].user = call.viewer
    /\ Answered({"refunds"}) /\ writes = 0 =>
         LET matching == {r \in Own : Matches(r, call)}
         IN  ToSet(rows) = matching /\ total = Cardinality(matching)
    /\ Answered({"summary"}) /\ writes = 0 =>
         /\ grouped.status = ByStatus(OwnOfYear)
         /\ grouped.categories = ByCategory(OwnOfYear)
         /\ grouped.months = ByMonth(OwnOfYear, call.year)
         /\ grouped.years = {r.created.date.y : r \in Own}

(* What the endpoints say of the same refunds agrees: the days of a month  *)
(* add up to the listing from its first to its last day and to the month   *)
(* of the summary; one day is the listing from and to that day; the        *)
(* statistics of all users are the summary of all years.  An instant at    *)
(* midnight or in the last second of a month, a leap day and the turn of a *)
(* year fall into exactly one of them.                                     *)
Asked(user, from, to) == [report |-> "refunds", role |-> "admin", viewer |-> Nobody,
                          filter |-> user, status |-> Nobody, from |-> from, to |-> to]
MonthsAgree(user, y, m) ==
  LET days == DailyCounts(refunds, user, y, m)
      sum  == SumFunction(days)
      last == Date(y, m, DaysInMonth(y, m))
  IN  /\ sum = Cardinality(Listed(refunds, Asked(user, Date(y, m, 1), last)))
      /\ sum = Total4(ByMonth(In(Of(refunds, user), YearWindow(y)), y)[m])
      /\ \A d \in DOMAIN days :
           days[d] = Cardinality(Listed(refunds, Asked(user, Date(y, m, d), Date(y, m, d))))

Months == {<<r.created.date.y, r.created.date.m>> : r \in refunds}
EndpointsAgree == pc = "answered" =>     \* every table lasts until a report ends
  /\ \A u \in {Nobody} \cup IdsOf(users), month \in Months : MonthsAgree(u, month[1], month[2])
  /\ \A s \in Statuses :
       ByStatus(refunds)[s].count =
         SumFunction([u \in IdsOf(users) |-> CountByStatus(refunds, u)[s].count])

-----------------------------------------------------------------------------
(* The inductive invariant.  The tables keep their constraints, and a      *)
(* report that runs was let through.                                       *)
TablesOK ==
  /\ IsTable(refunds, RefundRows) /\ IsTable(users, UserRows)
  /\ \A r \in refunds : r.user \in IdsOf(users) /\ r.id <= given.refunds
  /\ \A u \in users : u.id <= given.users
  /\ given \in [refunds: Nat, users: Nat]

ControlOK ==
  /\ call \in Calls /\ page \in Nat /\ total \in Nat /\ writes \in 0..MaxWrites
  /\ pc \in {"idle", "refused", "answered"}
             \cup (IF call.report = "summary" THEN {"status", "category", "month", "years"}
                                             ELSE {"total", "page"})
  /\ pc \notin {"idle", "refused"} => ~Refused(call) /\ page > 0
  /\ ~Reading /\ pc # "answered" => writes = 0 /\ rows = <<>> /\ steady = {}

(* The place of a row in a listing, and the rows of the pages so far: the  *)
(* first Reached of them, as the table is now.                             *)
Place(r, table, c) == 1 + Cardinality({s \in table : Precedes(s, r, c)})
Reached == Offset(page, call)
Passed == {r \in Now(call) : Place(r, Now(call), call) <= Reached}
Shown == IdsOf(ToSet(rows))

(* Each write lets one row slip from the pages to come into those that     *)
(* were shown, or pushes one out of them, or beyond the last page.         *)
Missed == (steady \cap IdsOf(Passed)) \ Shown
Repeated == Shown \cap IdsOf(Now(call) \ Passed)
Beyond == IF pc = "page" /\ total < Cardinality(Now(call)) THEN Cardinality(Now(call)) - total ELSE 0

SlipsOK ==
  /\ steady \subseteq IdsOf(Now(call))
  /\ Cardinality(Missed) + Beyond <= writes
  /\ Len(rows) - Cardinality(Shown) + Cardinality(Repeated) <= writes

(* With nothing written the pages so far are the beginning of the listing. *)
QuietOK == writes = 0 =>
  /\ Len(rows) = IF Reached < Cardinality(Now(call)) THEN Reached ELSE Cardinality(Now(call))
  /\ \A i \in DOMAIN rows : rows[i] \in Now(call) /\ Place(rows[i], Now(call), call) = i
  /\ pc = "page" => total = Cardinality(Now(call))

ListingInv ==
  call.report # "summary" =>
    /\ rows \in Seq(IF call.report = "users" THEN UserRows ELSE RefundRows)
    /\ call.report = "refunds" => \A i \in DOMAIN rows : rows[i].user \in {Target(call)} \/ Target(call) = Nobody
    /\ pc \in {"total", "page"} => SlipsOK /\ QuietOK

(* The parts of the summary that have been read differ from each other,    *)
(* and from what the next one would read, by no more than the writes.      *)
SummaryInv ==
  call.report = "summary" =>
    /\ DOMAIN grouped = DOMAIN NoGroups
    /\ pc \in {"category", "month", "years", "answered"} =>
         /\ Total4(grouped.status) \in Nat
         /\ Apart(Total4(grouped.status), Cardinality(Summarized(refunds, call))) <= writes
         /\ writes = 0 => grouped.status = ByStatus(Summarized(refunds, call))
    /\ pc \in {"month", "years", "answered"} =>
         /\ Total4(grouped.categories) \in Nat
         /\ Apart(Total4(grouped.status), Total4(grouped.categories)) <= writes
         /\ writes = 0 => grouped.categories = ByCategory(Summarized(refunds, call))
    /\ pc \in {"years", "answered"} =>
         /\ MonthTotal(grouped.months) \in Nat
         /\ Apart(Total4(grouped.status), MonthTotal(grouped.months)) <= writes
         /\ writes = 0 => grouped.months = ByMonth(Summarized(refunds, call), call.year)
    /\ pc = "answered" /\ writes = 0 => grouped.years = AvailableYears(refunds, Target(call))

IInv == /\ TablesOK /\ ControlOK /\ ListingInv /\ SummaryInv
        /\ steady \subseteq Nat
        /\ QuietListingIsComplete /\ EveryMissedRowHasAWrite

============================================================================
