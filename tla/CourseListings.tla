--------------------------- MODULE CourseListings ---------------------------
(***************************************************************************)
(* The listings of courses, page by page: for administrators and for       *)
(* students (machine/api/v1/courses.py), and for professors                *)
(* (machine/api/v1/professor.py), over the query builder of                *)
(* core/repository/base.py.                                                *)
(*                                                                         *)
(* Each page is a request and a query of its own; courses are created,     *)
(* deleted and enrolled in between them.  A client goes on to the next     *)
(* page as long as the answer's totalPages says that there is one, or      *)
(* until a page is empty.                                                  *)
(***************************************************************************)
EXTENDS Integers, FiniteSetsExt, SequencesExt, Functions

CONSTANTS
    Catalogue,   \* the courses there may be
    Offered,     \* those that exist in the beginning
    Lists,       \* the listings a client reads
    PageSize,
    Dates,       \* the start dates
    MaxPage,     \* bound: how many pages a client reads
    MaxChanges   \* bound: how many courses are created, enrolled in or deleted

ASSUME SizeAssumption ==
    PageSize \in Nat \ {0} /\ MaxPage \in Nat \ {0} /\ MaxChanges \in Nat /\ Dates \subseteq Int

\* The rows of a table are finitely many.
ASSUME CatalogueAssumption == Offered \subseteq Catalogue /\ IsFiniteSet(Catalogue)

VARIABLES
    rows,     \* the courses: start date, professor's own or not, and when enrolled in
    clock,    \* the number of changes so far
    walk,     \* the client: its listing, how it stops, its page and what it has seen
    reading,
    wanted,   \* history: the listed courses that were there all the time of the walk
    tied,     \* history: two courses of the same start date were listed
    shrunk,   \* history: a course was deleted during the walk
    repeated  \* history: a course was shown twice

listingVars == <<rows, clock, walk, reading, wanted, tied, shrunk, repeated>>

NotEnrolled == 0
Stops       == {"by totals", "by an empty page"}

ListingTypeOK ==
    /\ DOMAIN rows \subseteq Catalogue
    /\ \A c \in DOMAIN rows : rows[c].date \in Dates /\ rows[c].own \in BOOLEAN /\ rows[c].since \in 0..clock
    /\ clock \in 0..MaxChanges
    /\ walk.list \in Lists /\ walk.stop \in Stops
    /\ walk.page \in 1..MaxPage + 1 /\ walk.pages \in Nat
    /\ walk.seen \subseteq Catalogue
    /\ Len(walk.content) <= PageSize
    /\ reading \in {"start", "asking", "fetched", "done", "failed"}
    /\ wanted \subseteq Catalogue

-----------------------------------------------------------------------------
(* The query: conditions, order, offset and limit *)

Member(list, c) ==
    CASE list = "admin"                             -> TRUE
      [] list \in {"professor", "all of professor"} -> rows[c].own
      [] list \in {"student", "all of student"}     -> rows[c].since # NotEnrolled

Members(list) == {c \in DOMAIN rows : Member(list, c)}

\* Students' courses come by the time of enrolment, which nothing updates later;
\* the others by start date, the latest first.
Before(list, c, d) == IF list = "student" THEN rows[c].since <= rows[d].since ELSE rows[c].date >= rows[d].date

\* Rows that the order does not tell apart come in any order.
Ordered(list) ==
    {s \in SetToSeqs(Members(list)) : \A i, j \in DOMAIN s : i < j => Before(list, s[i], s[j])}

Slice(s, page) == SubSeq(s, (page - 1) * PageSize + 1, Min({page * PageSize, Len(s)}))

\* Mutant: a last page that is not full is not counted.
Ceil_Floor(n) == n \div PageSize
Ceil(n) == (n + PageSize - 1) \div PageSize

-----------------------------------------------------------------------------
ListingInit ==
    /\ rows \in [Offered -> [date : Dates, own : {TRUE}, since : {NotEnrolled}]]
    /\ clock = 0
    /\ \E list \in Lists, stop \in Stops :
         walk = [list |-> list, stop |-> stop, page |-> 1, pages |-> 0, seen |-> {}, content |-> <<>>]
    /\ reading = "start"
    /\ wanted = {}
    /\ tied = FALSE
    /\ shrunk = FALSE
    /\ repeated = FALSE

Ties(r) == \E c, d \in DOMAIN r : c # d /\ r[c].date = r[d].date

\* The walk begins: what it should show is what is listed from now on.
BeginWalk ==
    /\ reading = "start"
    /\ reading' = "asking"
    /\ wanted' = Members(walk.list)
    /\ tied' = Ties(rows)
    /\ UNCHANGED <<rows, clock, walk, shrunk, repeated>>

\* The client has got a page: it goes on or stops.
GoesOn(pages, content) ==
    IF walk.stop = "by totals" THEN walk.page < pages ELSE content # <<>>

Show(content, pages) ==
    /\ repeated' = (repeated \/ ToSet(content) \cap walk.seen # {})
    /\ walk' = [walk EXCEPT !.seen = @ \cup ToSet(content), !.content = content,
                            !.pages = pages, !.page = IF GoesOn(pages, content) THEN @ + 1 ELSE @]
    /\ reading' = IF GoesOn(pages, content) /\ walk.page < MaxPage THEN "asking" ELSE "done"

\* get_courses for administrators: an empty page has no totals, any other has
\* them from a second query.
AdminPage ==
    /\ reading = "asking" /\ walk.list = "admin"
    /\ \E s \in Ordered("admin") :
         LET content == Slice(s, walk.page) IN
         IF content = <<>> THEN Show(<<>>, 0)
         ELSE /\ reading' = "fetched"
              /\ walk' = [walk EXCEPT !.content = content]
              /\ UNCHANGED repeated
    /\ UNCHANGED <<rows, clock, wanted, tied, shrunk>>

AdminTotals ==
    /\ reading = "fetched"
    /\ Show(walk.content, Ceil(Cardinality(Members("admin"))))
    /\ UNCHANGED <<rows, clock, wanted, tied, shrunk>>

\* get_student_courses: the totals are those of the page itself.
StudentPage ==
    /\ reading = "asking" /\ walk.list = "student"
    /\ \E s \in Ordered("student") :
         LET content == Slice(s, walk.page) IN Show(content, Ceil(Len(content)))
    /\ UNCHANGED <<rows, clock, wanted, tied, shrunk>>

\* get_professor_courses: the page is cut out of the page again.
ProfessorPage ==
    /\ reading = "asking" /\ walk.list = "professor"
    /\ \E s \in Ordered("professor") :
         LET fetched == Slice(s, walk.page) IN Show(Slice(fetched, walk.page), Ceil(Len(fetched)))
    /\ UNCHANGED <<rows, clock, wanted, tied, shrunk>>

\* get_courses for professors and students: only a professor's courses are
\* fetched, without pages, and no courses are an error.
ListAll ==
    /\ reading = "asking" /\ walk.list \in {"all of professor", "all of student"}
    /\ IF walk.list = "all of professor" /\ Members(walk.list) # {}
       THEN /\ reading' = "done"
            /\ walk' = [walk EXCEPT !.seen = Members(walk.list)]
       ELSE reading' = "failed" /\ UNCHANGED walk
    /\ UNCHANGED <<rows, clock, wanted, tied, shrunk, repeated>>

-----------------------------------------------------------------------------
(* Meanwhile: courses are created, enrolled in and deleted *)

CatalogueChanges == clock < MaxChanges /\ clock' = clock + 1

Offer(c) ==
    /\ CatalogueChanges
    /\ c \notin DOMAIN rows
    /\ \E d \in Dates, own \in BOOLEAN :
         rows' = [e \in DOMAIN rows \cup {c} |->
                    IF e = c THEN [date |-> d, own |-> own, since |-> NotEnrolled] ELSE rows[e]]
    /\ tied' = (tied \/ Ties(rows'))
    /\ UNCHANGED <<walk, reading, wanted, shrunk, repeated>>

EnrolIn(c) ==
    /\ c \in DOMAIN rows /\ rows[c].since = NotEnrolled
    /\ CatalogueChanges
    /\ rows' = [rows EXCEPT ![c].since = clock']
    /\ UNCHANGED <<walk, reading, wanted, tied, shrunk, repeated>>

\* Courses without anything that depends on them go, and their enrolments with
\* them; a page that is read afterwards begins later in what is left.
Withdraw(c) ==
    /\ CatalogueChanges
    /\ c \in DOMAIN rows
    /\ rows' = Restrict(rows, DOMAIN rows \ {c})
    /\ wanted' = wanted \ {c}
    /\ shrunk' = (shrunk \/ reading # "start")
    /\ UNCHANGED <<walk, reading, tied, repeated>>

-----------------------------------------------------------------------------
ListingNext ==
    \/ BeginWalk
    \/ AdminPage \/ AdminTotals \/ StudentPage \/ ProfessorPage \/ ListAll
    \/ \E c \in Catalogue : Offer(c) \/ EnrolIn(c) \/ Withdraw(c)

ListingSpec == ListingInit /\ [][ListingNext]_listingVars

-----------------------------------------------------------------------------
(* Properties *)

Finished(list, stop) == reading = "done" /\ walk.list = list /\ walk.stop = stop

\* Were there pages left that the bound cut off?
Bounded == walk.page > MaxPage

\* An administrator who goes through the pages that the totals announce sees
\* every course, although the rows and their number are read by two queries and
\* courses are created in between - unless start dates tie or courses are deleted.
AdministratorsSeeAll ==
    Finished("admin", "by totals") /\ ~ tied /\ ~ shrunk /\ ~ Bounded => wanted \subseteq walk.seen

\* A student who reads until a page is empty sees every course once, although he
\* is enrolled in others meanwhile, unless a course is deleted.
StudentsSeeAllOnce ==
    Finished("student", "by an empty page") /\ ~ shrunk /\ ~ Bounded => wanted \subseteq walk.seen /\ ~ repeated

\* Who turns the pages to the end sees every course that was there all the while, and a
\* student sees none twice: as long as dates do not tie and nothing is deleted (courses.py:348).
PagesShowAll == AdministratorsSeeAll /\ StudentsSeeAllOnce

=============================================================================
