----------------------------- MODULE MCReports -----------------------------
(***************************************************************************)
(* An instance of Reports for TLC: refunds at midnight and in the evening  *)
(* of a leap day, of the last day of a year and of the first of the next;  *)
(* equal sort keys; listings of one and of two rows per page.              *)
(***************************************************************************)
EXTENDS Reports

Row(id, user, status, category, amount, created) ==
  [id |-> id, user |-> user, status |-> status, category |-> category,
   amount |-> amount, created |-> created]

LeapDay == Date(2024, 2, 29)
LastOfYear == Date(2024, 12, 31)
MCToday == Instant(Date(2025, 1, 1), 1)

MCTables ==
  {{Row(1, 1, "pending", "food", 1, Instant(LeapDay, 1)),
    Row(2, 1, "approved", "transport", 1, Midnight(LastOfYear)),
    Row(3, 2, "pending", "food", 2, Instant(LastOfYear, 1))},
   {Row(1, 1, "pending", "food", 1, Midnight(LeapDay)),
    Row(2, 2, "pending", "food", 1, Midnight(Date(2024, 3, 1))),
    Row(4, 1, "pending", "transport", 1, Midnight(Date(2025, 1, 1)))}}

MCPeople == {[id |-> 1, name |-> 1], [id |-> 2, name |-> 1]}

Listing(role, viewer, filter, status, sort, order, from, to, per_page) ==
  [report |-> "refunds", role |-> role, viewer |-> viewer, filter |-> filter,
   status |-> status, sort |-> sort, order |-> order, from |-> from, to |-> to,
   per_page |-> per_page]
Summary(role, viewer, filter, year) ==
  [report |-> "summary", role |-> role, viewer |-> viewer, filter |-> filter, year |-> year]
UserList(role) ==
  [report |-> "users", role |-> role, viewer |-> 2, filter |-> Nobody, sort |-> "name",
   order |-> "asc", per_page |-> 1]

MCCalls ==
  {Listing("admin", 2, Nobody, Nobody, "status", "desc", Nobody, Nobody, 1),
   Listing("admin", 2, 1, "pending", "amount_in_cents", "asc", Nobody, Nobody, 1),
   Listing("standard", 1, 2, Nobody, "created_at", "desc", Nobody, Nobody, 2),
   Listing("admin", 2, Nobody, Nobody, "created_at", "desc", LeapDay, LastOfYear, 1),
   Listing("admin", 2, Nobody, Nobody, "created_at", "desc", LeapDay, LastDate, 1),
   Summary("admin", 2, Nobody, 2024), Summary("standard", 1, 2, 2024),
   Summary("standard", 2, 1, 2024),
   Listing("admin", 2, Nobody, Nobody, "role", "desc", Nobody, Nobody, 1),
   Summary("admin", 2, Nobody, 9999),
   UserList("admin"), UserList("standard")}

============================================================================
