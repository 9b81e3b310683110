----------------------------- MODULE MCCourses -----------------------------
(***************************************************************************)
(* CourseAdministration, CourseListings and Dashboards for TLC.  A         *)
(* behaviour plays one scene, in which a cast of one of them acts and all  *)
(* else rests.                                                             *)
(***************************************************************************)
EXTENDS CourseAdministration, CourseListings, Dashboards

CONSTANT Scenes   \* the scenes that the run plays

VARIABLE scene

\* Who acts in the scenes of CourseAdministration ...
Cast == [created |-> Creations \cup Updates \cup Deletions,
         enrolled |-> Additions \cup Deletions \cup PathDeletions,
         imaged |-> Imagings]

\* ... and of Dashboards.
Audience == [events |-> Views, schedule |-> Schedules, time |-> Adds \cup Recents]

\* Two exercises of one course and one of another.
InCourses == [e \in Exercises |-> IF e = "e3" THEN "k2" ELSE "k1"]

\* An administrator turns the pages of up to four courses, whose dates do not tie in the
\* beginning; the other pages are over three courses of one date.
ListingScene ==
    /\ scene \in {"pages", "walks"}
    /\ ListingNext
    /\ scene = "pages" => clock' <= 2
    /\ scene = "walks" => /\ DOMAIN rows' \subseteq Offered
                          /\ \A c \in DOMAIN rows' : rows'[c].date = 1

ListingsBegin ==
    /\ ListingInit
    /\ CASE scene = "pages" -> walk.list = "admin" /\ ~ Ties(rows)
         [] scene = "walks" -> walk.list # "admin" /\ \A c \in Offered : rows[c].date = 1
         [] OTHER -> /\ walk.list = "admin" /\ walk.stop = "by totals"
                     /\ \A c \in Offered : rows[c].date = 1

\* The views are of exercises that one change meets; times are added where there are none,
\* in the courses that the student comes to visit meanwhile.
DashboardScene ==
    /\ scene \in DOMAIN Audience
    /\ DashboardNext
    /\ \A r \in Viewers \ Audience[scene] : viewing'[r] = viewing[r]
    /\ IF scene = "time" THEN edits' = 0 ELSE accessed' = accessed /\ opened' = opened
    /\ scene # "events" => now' <= 2

DashboardsBegin ==
    /\ scene = "schedule" => close \in [Exercises -> {1, 2, Gone, Never}]
    /\ scene \notin {"events", "schedule"} => close = [e \in Exercises |-> Gone]
    /\ DashboardInit

MCInit ==
    /\ scene \in Scenes
    /\ Init
    /\ courses = {} <=> scene \notin {"enrolled", "imaged"}
    /\ scene # "enrolled" => enrolled = {}
    /\ ListingsBegin
    /\ DashboardsBegin

\* The courses are created for a student and a stranger, or for nobody.
CourseScene ==
    /\ scene \in DOMAIN Cast
    /\ Next
    /\ \A r \in Requests \ Cast[scene] : pc'[r] = pc[r]
    /\ scene = "created" =>
         \A r \in Creations : pc'[r] = "checked" =>
           \A i \in DOMAIN work'[r].asked : work'[r].asked[i].students \in {{}, {"s1", "x"}}

MCNext ==
    \/ CourseScene      /\ UNCHANGED <<scene, listingVars, dashboardVars>>
    \/ ListingScene     /\ UNCHANGED <<scene, vars, dashboardVars>>
    \/ DashboardScene   /\ UNCHANGED <<scene, vars, listingVars>>

MCSpec == MCInit /\ [][MCNext]_<<scene, vars, listingVars, dashboardVars>>

\* Every variable of every component has its type.
TypesOK == TypeOK /\ ListingTypeOK /\ DashboardTypeOK

=============================================================================
