-------------------------------- MODULE Listing -------------------------------
(***************************************************************************)
(* The List operations of the control plane, and a client that walks       *)
(* through their pages while the table changes.  They share one scheme,    *)
(* with differences that matter: a page is the rows of ORDER BY created_at *)
(* DESC LIMIT OFFSET, the token of the next page is the next offset while  *)
(* that is below a COUNT taken in a statement of its own.                  *)
(*                                                                         *)
(* The order has no tie-breaker, and rows inserted in one transaction      *)
(* share their created_at: of such rows each SELECT takes any.  What a     *)
(* filter compares is abstracted to whether a row matches it now.          *)
(***************************************************************************)
EXTENDS Naturals, FiniteSets

CONSTANTS DefaultLimit,  \* 20 in the code
          MaxLimit,      \* 100 in the code
          PageSizes,     \* the page_size of requests, 0 when it is not set
          Rows,          \* the rows there may be
          CreatedAt      \* their column created_at

ASSUME ListingAssumption ==
    /\ MaxLimit \in Nat /\ DefaultLimit \in 1 .. MaxLimit /\ PageSizes \subseteq Nat
    /\ IsFiniteSet(Rows) /\ CreatedAt \in [Rows -> Nat]

\* counted: COUNT is read first and a token is returned; capped: the store
\* replaces a limit above MaxLimit by DefaultLimit, the service does not;
\* mutable: the filter is on a column that handlers change.
ListGateways == [counted |-> TRUE, capped |-> FALSE, mutable |-> TRUE]
ListNodes == [counted |-> TRUE, capped |-> FALSE, mutable |-> FALSE]
ListIdentities == [counted |-> FALSE, capped |-> FALSE, mutable |-> FALSE]
ListBootstrapTokens == [counted |-> FALSE, capped |-> FALSE, mutable |-> FALSE]
ListTasks == [counted |-> TRUE, capped |-> TRUE, mutable |-> TRUE]
ListModels == [counted |-> TRUE, capped |-> TRUE, mutable |-> FALSE]
ListDeployments == [counted |-> TRUE, capped |-> TRUE, mutable |-> TRUE]

Lists == {ListGateways, ListNodes, ListIdentities, ListBootstrapTokens,
          ListTasks, ListModels, ListDeployments}

VARIABLES match,  \* the rows of the table that match the filter
          walk,   \* the client's walk
          got,    \* the rows of the pages so far
          events  \* history: what happened during the walk

listingVars == <<match, walk, got, events>>

NoWalk == [phase |-> "idle"]
NoEvents == [kept |-> {}, twice |-> {}, cut |-> {}, came |-> FALSE, left |-> FALSE, raced |-> FALSE]

ListInit ==
    /\ match \in SUBSET Rows
    /\ walk = NoWalk
    /\ got = {}
    /\ events = NoEvents

-------------------------------------------------------------------------------

\* The page size of the service, and the LIMIT of the store.
pageSize(size) == IF size > 0 THEN size ELSE DefaultLimit
limit(list, size) ==
    IF list.capped /\ (size <= 0 \/ size > MaxLimit) THEN DefaultLimit ELSE size

\* The rows that precede row r in the order, and those that tie with it, r among them.
Before(r) == {s \in match : CreatedAt[s] > CreatedAt[r]}
Beside(r) == {s \in match : CreatedAt[s] = CreatedAt[r]}

\* Row r and the rows beside it have these positions, in any order.
Positions(r) == LET n == Cardinality(Before(r)) IN n .. n + Cardinality(Beside(r)) - 1

\* ORDER BY created_at DESC LIMIT n OFFSET off: as many of the rows that tie as there
\* are of their positions in the page.
Pages(n, off) ==
    {page \in SUBSET match : \A r \in match :
        Cardinality(page \cap Beside(r)) = Cardinality(Positions(r) \cap (off .. off + n - 1))}

\* The rows with others beside them of which the page holds some and not all.
CutBy(page) == {r \in match : page \cap Beside(r) # {} /\ ~(Beside(r) \subseteq page)}

nextOffset(off, size) == off + size

\* Mutant of HasNext: a page that ends at the last row but one is the last.
HasNextBeforeLast(off, size, total) == nextOffset(off, size) + 1 < total

HasNext(off, size, total) == nextOffset(off, size) < total

Begin(list, size) ==
    /\ walk = NoWalk
    /\ walk' = [phase |-> IF list.counted THEN "count" ELSE "select",
                list |-> list, size |-> pageSize(size), off |-> 0, total |-> 0]
    /\ got' = {}
    /\ events' = [NoEvents EXCEPT !.kept = match]
    /\ UNCHANGED match

\* SELECT COUNT
Count ==
    /\ walk.phase = "count"
    /\ walk' = [walk EXCEPT !.phase = "select", !.total = Cardinality(match)]
    /\ UNCHANGED <<match, got, events>>

\* SELECT ... LIMIT OFFSET, and the token of the answer; the client asks for the
\* page it names, or is done.
Select ==
    /\ walk.phase = "select"
    /\ \E page \in Pages(limit(walk.list, walk.size), walk.off) :
        /\ got' = got \cup page
        /\ events' = [events EXCEPT !.twice = @ \cup (page \cap got), !.cut = @ \cup CutBy(page)]
    /\ walk' = IF walk.list.counted /\ HasNext(walk.off, walk.size, walk.total)
               THEN [walk EXCEPT !.phase = "count", !.off = nextOffset(walk.off, walk.size)]
               ELSE [walk EXCEPT !.phase = "done"]
    /\ UNCHANGED match

\* A transaction inserts rows, whose created_at is the time it began, so that they may
\* come before rows already read or between them; or a row starts to match.
RowComes ==
    /\ walk.phase \in {"count", "select"}
    /\ \E S \in (SUBSET (Rows \ match)) \ {{}} :
        /\ \A r, s \in S : CreatedAt[r] = CreatedAt[s]
        /\ match' = match \cup S
    /\ events' = [events EXCEPT !.came = TRUE,
                                !.raced = @ \/ (walk.list.counted /\ walk.phase = "select")]
    /\ UNCHANGED <<walk, got>>

\* A row stops to match, the column of the filter being changed; no handler deletes one.
RowLeaves ==
    /\ walk.phase \in {"count", "select"} /\ walk.list.mutable
    /\ \E r \in match :
        /\ match' = match \ {r}
        /\ events' = [events EXCEPT !.left = TRUE, !.kept = @ \ {r}]
    /\ UNCHANGED <<walk, got>>

ListNext ==
    \/ \E list \in Lists, size \in PageSizes : Begin(list, size)
    \/ Count \/ Select \/ RowComes \/ RowLeaves

ListSpec == ListInit /\ [][ListNext]_listingVars

-------------------------------------------------------------------------------
(* Properties *)

\* A walk over a list with tokens returns every row that matched throughout it,
\* although pages are cut by offset in a table that grows at the front.  It may
\* miss one only if some row stopped to match and the others moved up, if a row
\* came between the COUNT and the SELECT of a page, if the page size is above the
\* limit of the store, which then returns fewer rows than the token skips, or if
\* the end of a page fell between the row and another of the same created_at, whose
\* order the next SELECT may change.  It returns a row a second time only if a row
\* came and pushed it on, or in the last of these cases.
WalkIsExact ==
    /\ (walk.phase = "done" /\ walk.list.counted) =>
          \/ events.kept \subseteq got \cup events.cut
          \/ events.left \/ events.raced
          \/ walk.list.capped /\ walk.size > MaxLimit
    /\ events.came \/ events.twice \subseteq events.cut
===============================================================================
