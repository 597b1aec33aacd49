----------------------------- MODULE UserListing -----------------------------
(***************************************************************************)
(* GET /users/ (UserController::all -> UserManagerImpl::all ->             *)
(* UserRepositoryImpl::all): the Pagination and Sorting extractors turn    *)
(* the query string into a page, a page size, a column and a direction;    *)
(* the repository builds SELECT * FROM users WHERE deleted_at IS NULL      *)
(* ORDER BY col dir LIMIT per_page OFFSET (page-1)*per_page and runs it on *)
(* a read replica chosen at random per query.                             *)
(*                                                                         *)
(* An admin client pages through the listing with one query (page 1, 2,   *)
(* ... until a page comes back shorter than the page size) while users    *)
(* sign up.  Rows are inserted on the primary and replayed by each replica *)
(* in order.  ORDER BY with equal keys returns the tied rows in an order   *)
(* the database chooses per query.  The admin layer is UserService's       *)
(* subject; every request here is by an admin.                             *)
(***************************************************************************)
EXTENDS Integers, Sequences, SequencesExt, FiniteSets

CONSTANTS
    Users,            \* ids of accounts that can sign up
    Names,            \* users.name values: naturals in collation order, or NULL
    PageInputs,       \* ?page= values a client sends, or NULL
    PerPageInputs,    \* ?per_page= values, or NULL
    OrderByInputs,    \* ?order_by= strings, or Absent
    DirectionInputs,  \* ?order_direction= strings, or Absent
    Replicas,         \* read replicas of DbPool
    ReplicaLag,       \* FALSE: every replica reads the primary's rows
    UsizeBits,        \* width of usize in the offset arithmetic
    MaxPage           \* last page a walk requests

\* None of an Option<usize> or of users.name (names are ranks: naturals);
\* None of an Option<String>.
NULL   == -1
Absent == "absent"

ASSUME /\ Names \subseteq Nat \cup {NULL}
       /\ PageInputs \subseteq Nat \cup {NULL}
       /\ PerPageInputs \subseteq Nat \cup {NULL}
       /\ ReplicaLag \in BOOLEAN

Idle == [step |-> "idle"]

VARIABLES
    log,       \* users rows on the primary, in insert order
    applied,   \* applied[r]: length of the prefix of log replica r holds
    walk       \* the admin client's paging through one query

vars == <<log, applied, walk>>

Row == [id: Users, name: Names, created_at: Nat]

TypeOK ==
    /\ log \in Seq(Row)
    /\ applied \in [Replicas -> 0 .. Len(log)]
    /\ walk \in {Idle} \cup
         [step: {"paging", "done"}, page: 1 .. MaxPage + 1, per_page: Nat,
          col: STRING, dir: {"asc", "desc"},
          seen: SUBSET Users, start: SUBSET Users]

Init ==
    /\ log = <<>>
    /\ applied = [r \in Replicas |-> 0]
    /\ walk = Idle

-----------------------------------------------------------------------------
(* The query string.                                                       *)

\* Mutant of ParsePagination: page is not raised to at least 1.
ParsePaginationUnclamped(rawPage, rawPerPage) ==
    [page     |-> IF rawPage = NULL THEN 1 ELSE rawPage,
     per_page |-> IF rawPerPage = NULL THEN 10 ELSE rawPerPage]

\* The extractors' defaults.
DEFAULT_PAGE            == 1
DEFAULT_PER_PAGE        == 10
DEFAULT_ORDER_BY        == "created_at"
DEFAULT_ORDER_DIRECTION == "asc"

\* Pagination::from_request_parts: missing values default to page 1 and
\* 10 per page; page is raised to at least 1; per_page.max(0) leaves it as
\* it is.
ParsePagination(rawPage, rawPerPage) ==
    LET page    == IF rawPage = NULL THEN DEFAULT_PAGE ELSE rawPage
        perPage == IF rawPerPage = NULL THEN DEFAULT_PER_PAGE ELSE rawPerPage
    IN  [page |-> IF page < 1 THEN 1 ELSE page, per_page |-> perPage]

\* The ASCII lower case of the order strings a client sends.
Lower(s) == CASE s = "DESC"       -> "desc"
              [] s = "ASC"        -> "asc"
              [] s = "Name"       -> "name"
              [] s = "CREATED_AT" -> "created_at"
              [] OTHER            -> s

\* Sorting::from_request_parts: order_by defaults to created_at and is
\* lower-cased; a direction other than asc or desc becomes asc.
ParseSorting(rawOrderBy, rawDirection) ==
    LET dir == IF rawDirection = Absent THEN DEFAULT_ORDER_DIRECTION
                                        ELSE Lower(rawDirection)
    IN  [order_by        |-> IF rawOrderBy = Absent THEN DEFAULT_ORDER_BY
                                                    ELSE Lower(rawOrderBy),
         order_direction |-> IF dir \in {"asc", "desc"} THEN dir ELSE "asc"]

\* Users::map_order_by: name, updated_at, and created_at for anything else.
MapOrderBy(orderBy) ==
    IF Lower(orderBy) \in {"name", "updated_at"} THEN Lower(orderBy) ELSE "created_at"

\* SortingHelper::map_order_direction.
MapOrderDirection(dir) == IF Lower(dir) = "desc" THEN "desc" ELSE "asc"

\* PaginationHelper::new, applied again by the repository to the
\* extractor's values: the same defaults, page.max(1), per_page.max(0).
PaginationHelperNew(page, perPage) ==
    LET pg == IF page = NULL THEN 1 ELSE page
    IN  [page     |-> IF pg < 1 THEN 1 ELSE pg,
         per_page |-> IF perPage = NULL THEN 10 ELSE perPage]

\* PaginationHelper::limit.
Limit(perPage) == perPage

\* Mutant of Offset: the OFFSET clause is lost, every page reads from the
\* first row.
OffsetDropped(page, perPage) == 0

\* Mutant of Offset: the page number is not made zero-based.
OffsetFromPage(page, perPage) == (page * perPage) % (2 ^ UsizeBits)

\* PaginationHelper::offset: (page - 1) * per_page in usize.
Offset(page, perPage) == ((page - 1) * perPage) % (2 ^ UsizeBits)

-----------------------------------------------------------------------------
(* The query.                                                              *)

\* The rows replica r holds: with no lag, the primary's.
RowsAt(r) ==
    LET n == IF ReplicaLag THEN applied[r] ELSE Len(log)
    IN  {log[i] : i \in 1 .. n}

\* The sort key of a row: NULL sorts after every name (NULLS LAST for ASC,
\* FIRST for DESC); updated_at is its insert default, the same instant as
\* created_at, since no code writes it.
Key(row, col) ==
    IF col = "name"
    THEN IF row.name = NULL THEN 1 + Max(Names \ {NULL}) ELSE row.name
    ELSE row.created_at

\* The orders ORDER BY col dir may return: every arrangement of the rows
\* sorted by the key, ties in any order.
Orders(rows, col, dir) ==
    {s \in SetToSeqs(rows) :
        \A i, j \in DOMAIN s :
            i < j => IF dir = "asc" THEN Key(s[i], col) <= Key(s[j], col)
                                    ELSE Key(s[i], col) >= Key(s[j], col)}

\* LIMIT lim OFFSET off of a sequence.
Window(s, off, lim) ==
    [i \in 1 .. IF off >= Len(s) THEN 0
                ELSE IF Len(s) - off < lim THEN Len(s) - off ELSE lim
       |-> s[off + i]]

\* UserRepositoryImpl::all on replica r: the pages the query can answer.
All(r, page, perPage, col, dir) ==
    LET h == PaginationHelperNew(page, perPage)
    IN
    {Window(s, Offset(h.page, h.per_page), Limit(h.per_page)) :
        s \in Orders(RowsAt(r), MapOrderBy(col), MapOrderDirection(dir))}

-----------------------------------------------------------------------------
(* Actions.                                                                *)

\* UserRepositoryImpl::create: a row with the given name; created_at is
\* the insert instant, later than every earlier row's.
SignUp(u, n) ==
    /\ u \notin {row.id : row \in ToSet(log)}
    /\ log' = Append(log, [id |-> u, name |-> n, created_at |-> Len(log) + 1])
    /\ UNCHANGED <<applied, walk>>

\* A replica applies the next row of the primary's log.
Replicate(r) ==
    /\ ReplicaLag
    /\ applied[r] < Len(log)
    /\ applied' = [applied EXCEPT ![r] = @ + 1]
    /\ UNCHANGED <<log, walk>>

\* The admin sends the first request of a walk with the raw query values.
\* The users every replica already holds are the ones it must see: any
\* replica can answer any page.
StartWalk(rp, rpp, rob, rdir) ==
    /\ walk = Idle
    /\ LET p == ParsePagination(rp, rpp)
           s == ParseSorting(rob, rdir)
       IN  walk' = [step |-> "paging", page |-> p.page, per_page |-> p.per_page,
                    col |-> s.order_by, dir |-> s.order_direction,
                    seen |-> {},
                    start |-> {u \in Users : \A r \in Replicas :
                                                  u \in {row.id : row \in RowsAt(r)}}]
    /\ UNCHANGED <<log, applied>>

\* GET /users/?page=walk.page&... answered from a random replica; a page
\* shorter than the page size ends the walk.
ListPage(r) ==
    /\ walk.step = "paging"
    /\ walk.page <= MaxPage
    /\ \E res \in All(r, walk.page, walk.per_page, walk.col, walk.dir) :
         walk' = [walk EXCEPT !.seen = @ \cup {res[i].id : i \in DOMAIN res},
                              !.page = @ + 1,
                              !.step = IF Len(res) < walk.per_page
                                       THEN "done" ELSE "paging"]
    /\ UNCHANGED <<log, applied>>

\* The client is done with a walk and may start another.
FinishWalk ==
    /\ walk.step = "done"
    /\ walk' = Idle
    /\ UNCHANGED <<log, applied>>

Next ==
    \/ \E u \in Users, n \in Names : SignUp(u, n)
    \/ FinishWalk
    \/ \E r \in Replicas : Replicate(r) \/ ListPage(r)
    \/ \E rp \in PageInputs, rpp \in PerPageInputs,
          rob \in OrderByInputs, rdir \in DirectionInputs :
         StartWalk(rp, rpp, rob, rdir)

\* Only the paging client is assumed to keep going: a client in the middle
\* of a walk asks for the next page, and some replica answers it.  Sign-ups,
\* replication and new walks are not assumed to happen.
ClientKeepsPaging == \E r \in Replicas : ListPage(r)

Spec == Init /\ [][Next]_vars /\ WF_vars(ClientKeepsPaging)

-----------------------------------------------------------------------------
(* Properties.                                                             *)

\* A client that pages through GET /users/ from page 1 until a short page
\* has seen every user that every replica already held when it started,
\* whatever signs up meanwhile and whichever replica answers each page.
\* Breaks if the offset skips rows, or if a row can move to an earlier
\* position between two page reads: inserts ahead of it in the order read
\* by one page and not by the next (descending order over replicas at
\* different points of the log), or ties the database orders differently
\* on each query.
PagingSeesEveryUser ==
    walk.step = "done" => walk.start \subseteq walk.seen
\* A client that keeps asking for the next page with a positive page size
\* reaches a page shorter than it, which is where it stops: each page's
\* OFFSET (page - 1) * per_page moves past the rows the earlier pages
\* returned, so the walk runs past the last row, whatever signs up and
\* whichever replica answers.  A walk with ?per_page=0 is left out on
\* purpose: Pagination::from_request_parts keeps 0 (max(0) on a usize),
\* every page is empty and never short, and that walk never ends (the
\* run sends 0 and the walk pages on until MaxPage).
WalkEnds == walk.step = "paging" /\ walk.per_page > 0 ~> walk.step = "done"
====
