------------------------------- MODULE FlowListing -------------------------------
(***************************************************************************)
(* The two paged reads of packages/genesys-source while the tenant         *)
(* changes: PlatformSourceProvider.listFlows and fetchDataTableRows.       *)
(***************************************************************************)
EXTENDS Integers, Sequences, SequencesExt, FiniteSets

CONSTANTS
  Flows, None,
  PageSize,        \* PAGE_SIZE, DATA_TABLE_PAGE_SIZE
  MaxPages,        \* MAX_PAGES
  MaxRows,         \* MAX_DATA_TABLE_ROWS
  MaxChanges       \* bound

VARIABLES
  server,      \* "counts" sends pageCount, "silent" does not, "stuck" ignores the page
               \* and "cycles" between the first two
  tenant,      \* the flows in the order the service lists them
  listing,     \* [on, page, signature, pages, yielded] of listFlows
  undisturbed, \* history: the tenant did not change during the listing
  table, rows, \* a data table's length, and how many rows were captured
  changes

vars == <<server, tenant, listing, undisturbed, table, rows, changes>>

Idle == [on |-> FALSE, page |-> 1, signature |-> None, pages |-> 0, yielded |-> <<>>]

Init ==
  /\ server \in {"counts", "silent", "stuck", "cycles"}
  /\ tenant \in {SetToSeq(fs) : fs \in SUBSET Flows}
  /\ listing = Idle /\ undisturbed = TRUE
  /\ table \in 0..(MaxRows + 1) /\ rows = None
  /\ changes = 0

Changed(to) ==
  /\ changes < MaxChanges /\ changes' = changes + 1
  /\ tenant' = to /\ undisturbed' = FALSE
  /\ UNCHANGED <<server, listing, table, rows>>

Created(f) == f \notin ToSet(tenant) /\ Changed(Append(tenant, f))
Deleted(i) == Changed(RemoveAt(tenant, i))

-----------------------------------------------------------------------------
(* listFlows *)

StartListing ==
  /\ ~listing.on
  /\ listing' = [Idle EXCEPT !.on = TRUE]
  /\ undisturbed' = TRUE
  /\ UNCHANGED <<server, tenant, table, rows, changes>>

Honest == server \in {"counts", "silent"}
PageAt(n) ==
  LET page == CASE Honest -> n - 1 [] server = "stuck" -> 0 [] server = "cycles" -> (n - 1) % 2
      from == page * PageSize
  IN  SubSeq(tenant, from + 1, IF from + PageSize < Len(tenant) THEN from + PageSize ELSE Len(tenant))
PageCount == (Len(tenant) + PageSize - 1) \div PageSize

\* How many entities, the first and the last of them.
Signature(entities) == <<Len(entities), Head(entities), entities[Len(entities)]>>

Stalled(entities) == Signature(entities) = listing.signature

LastPage == server = "counts" /\ listing.page >= PageCount

Capped == listing.pages + 1 >= MaxPages

Page ==
  LET entities == PageAt(listing.page)
  IN  /\ listing.on
      /\ IF entities = <<>> \/ Stalled(entities)
           THEN listing' = [listing EXCEPT !.on = FALSE]
           ELSE listing' = [listing EXCEPT
                  !.yielded = @ \o entities, !.signature = Signature(entities),
                  !.pages = @ + 1, !.page = @ + 1, !.on = ~LastPage /\ ~Capped]
      /\ UNCHANGED <<server, tenant, undisturbed, table, rows, changes>>

-----------------------------------------------------------------------------
(* fetchDataTableRows *)

\* The rows n pages bring; a page with fewer rows than were asked for is the last.
Brought(n) == IF n * PageSize < table THEN n * PageSize ELSE table

\* Mutant: a full page is the last one, too.
ShortPage_Full(n) == TRUE
ShortPage(n) == n * PageSize > table

Rows[n \in Nat] ==
  IF Brought(n) >= MaxRows THEN MaxRows
  ELSE IF ShortPage(n) \/ (server = "counts" /\ n * PageSize >= table) THEN Brought(n)
  ELSE Rows[n + 1]

ResolveTable ==
  /\ Honest
  /\ rows' = Rows[1]
  /\ UNCHANGED <<server, tenant, listing, undisturbed, table, changes>>

Next ==
  \/ \E f \in Flows : Created(f)
  \/ \E i \in DOMAIN tenant : Deleted(i)
  \/ StartListing \/ Page \/ ResolveTable

Spec == Init /\ [][Next]_vars

-----------------------------------------------------------------------------
(* Properties *)

\* A listing during which nothing was created or deleted yields every flow, once,
\* in the service's order, whether or not the service says how many pages there
\* are; a service that always sends the first page cannot repeat a flow.  A data
\* table's rows are all captured up to the limit, also when they fill the last
\* page exactly.
PagedReadsAreExact ==
  /\ ~listing.on /\ undisturbed /\ listing.pages > 0 =>
       /\ Honest => listing.yielded = tenant
       /\ server = "stuck" => listing.yielded = PageAt(1)
  /\ rows # None => rows = IF table < MaxRows THEN table ELSE MaxRows

=============================================================================
