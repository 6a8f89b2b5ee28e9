------------------------------- MODULE Console -------------------------------
(***************************************************************************)
(* The frame around the dashboard (App.tsx, layout/, auth/, theme.ts): the *)
(* role, the view, and the three things that must agree with them, the     *)
(* location's hash, the session storage and the browser's history.         *)
(*                                                                         *)
(* React flushes the effects of a click or of a history event before the   *)
(* next event, so a handler, the render and the effects it causes are one  *)
(* step.  The browser's own moves (back, forward, a link, a typed hash)    *)
(* change the location first and tell the page later: `pending`.           *)
(***************************************************************************)
EXTENDS Naturals, Sequences

CONSTANT MaxEntries        \* entries of the browser's history the runs explore

Roles == {"DRIVER", "SUPERVISOR"}
Hashes == {"#driver", "#spatial", "#calibration", "#fleet", "#unknown", ""}
Themes == {"light", "dark"}

VARIABLES
  demo,          \* STATIC_DEMO, fixed by the build
  storage,       \* whether this browser lets the page store anything, fixed
  prefersDark,   \* the browser's preference, fixed
  entries,       \* the hashes of the history's entries
  at,            \* the entry the page is on
  pending,       \* the page has not been told of the last move
  role,          \* App: role, "none" on the login page
  view,          \* useDashboardNavigation: view
  stored,        \* the role in the session storage
  theme, storedTheme,
  failed         \* the view whose rendering the error boundary caught, or "none"

browserVars == <<entries, at, pending, stored, storedTheme>>
rigidVars   == <<demo, storage, prefersDark>>
consoleVars == <<demo, storage, prefersDark, entries, at, pending, role, view, stored,
                 theme, storedTheme, failed>>

-----------------------------------------------------------------------------
(***************************************************************************)
(* layout/dashboardViews.ts.                                               *)
(***************************************************************************)
dashboardViews == [
  DRIVER     |-> [hash |-> "#driver",      workspace |-> "DRIVER"],
  SPATIAL    |-> [hash |-> "#spatial",     workspace |-> "DRIVER"],
  SETTINGS   |-> [hash |-> "#calibration", workspace |-> "DRIVER"],
  SUPERVISOR |-> [hash |-> "#fleet",       workspace |-> "SUPERVISOR"]]
Views == DOMAIN dashboardViews

rolePolicies == [
  DRIVER     |-> [homeView |-> "DRIVER", views |-> {"DRIVER", "SPATIAL", "SETTINGS"}],
  SUPERVISOR |-> [homeView |-> "SUPERVISOR", views |-> {"SUPERVISOR"}]]

LinkedView(h) == {v \in Views : dashboardViews[v].hash = h}

\* dashboardRoleFromHash: the workspace of the view a hash names, "none" of any other.
RoleFromHash(h) ==
  IF LinkedView(h) = {} THEN "none"
  ELSE dashboardViews[CHOOSE v \in LinkedView(h) : TRUE].workspace

\* resolveDashboardRoute: the requested view if the role has it, its home if not.
Resolve(r, requested) ==
  IF \E v \in requested : v \in rolePolicies[r].views
  THEN CHOOSE v \in requested : TRUE
  ELSE rolePolicies[r].homeView

-----------------------------------------------------------------------------
Hash == entries[at]
Replaced(h) == [entries EXCEPT ![at] = h]
Pushed(h) == Append(SubSeq(entries, 1, at), h)

\* readInitialRole: a link decides, then the stored role, when there is storage.
InitialRole(h, s) ==
  IF RoleFromHash(h) # "none" THEN RoleFromHash(h)
  ELSE IF storage THEN s ELSE "none"

InitialTheme(s) ==
  IF storage /\ s \in Themes THEN s ELSE IF prefersDark THEN "dark" ELSE "light"

SaveRole(r) == stored' = IF storage THEN r ELSE stored

\* A slip: the error boundary has no key, and the failure outlives its view.
EnterUnkeyed(r, h, replaced) ==
  LET v == Resolve(r, LinkedView(h)) IN
  /\ role' = r
  /\ view' = v
  /\ entries' = [replaced EXCEPT ![at] = dashboardViews[v].hash]
  /\ UNCHANGED failed

(***************************************************************************)
(* The console of role r is shown at hash h: AuthenticatedDashboard is     *)
(* rendered, and the effect of useDashboardNavigation corrects a hash that *)
(* names no view of the role and takes the view from it.                   *)
(***************************************************************************)
Enter(r, h, replaced) ==
  LET v == Resolve(r, LinkedView(h)) IN
  /\ role' = r
  /\ view' = v
  /\ entries' = [replaced EXCEPT ![at] = dashboardViews[v].hash]
  /\ failed' = IF failed = v THEN failed ELSE "none"

LoginPage ==
  /\ role' = "none"
  /\ view' = "none"
  /\ failed' = "none"

(***************************************************************************)
(* A new document: the first render and its effects.  (The first render    *)
(* looks an empty hash up as the demo's SPATIAL; the first effect reads    *)
(* the location again and decides.)                                        *)
(***************************************************************************)
Load(h, s, ts) ==
  /\ IF InitialRole(h, s) = "none"
     THEN LoginPage /\ UNCHANGED entries
     ELSE /\ role' = InitialRole(h, s)
          /\ view' = Resolve(role', LinkedView(h))
          /\ entries' = Replaced(dashboardViews[view'].hash)
          /\ failed' = "none"
  /\ theme' = InitialTheme(ts)

ConsoleInit ==
  /\ demo \in BOOLEAN /\ storage \in BOOLEAN /\ prefersDark \in BOOLEAN
  /\ \E h \in Hashes, s \in {"none", "DRIVER"} :
       LET r == InitialRole(h, s) IN
       /\ role = r
       /\ view = IF r = "none" THEN "none" ELSE Resolve(r, LinkedView(h))
       /\ entries = <<IF r = "none" THEN h ELSE dashboardViews[view].hash>>
       /\ stored = IF storage THEN s ELSE "none"
  /\ at = 1
  /\ pending = FALSE
  /\ storedTheme = "none"
  /\ theme = InitialTheme("none")
  /\ failed = "none"

-----------------------------------------------------------------------------
\* LoginPage: one of its two buttons.
SelectRole ==
  /\ role = "none"
  /\ \E r \in Roles :
       LET destination == IF demo /\ r = "DRIVER" THEN {"SPATIAL"} ELSE {}
           h == dashboardViews[Resolve(r, destination)].hash
       IN SaveRole(r) /\ Enter(r, h, Replaced(h))
  /\ UNCHANGED <<rigidVars, at, pending, theme, storedTheme>>

\* A slip: the location is left as it is on the way out.
LogoutLocationKept ==
  /\ role # "none"
  /\ SaveRole("none")
  /\ LoginPage
  /\ UNCHANGED <<rigidVars, entries, at, pending, theme, storedTheme>>

\* The Exit console button: the role is forgotten and the location neutral.
Logout ==
  /\ role # "none"
  /\ SaveRole("none")
  /\ entries' = Replaced("")
  /\ LoginPage
  /\ UNCHANGED <<rigidVars, at, pending, theme, storedTheme>>

\* navigate, from the view switcher and the home link.
Navigate ==
  /\ role # "none"
  /\ \E v \in rolePolicies[role].views :
       LET h == dashboardViews[v].hash IN
       /\ view' = v
       /\ IF Hash = h THEN UNCHANGED <<entries, at>>
          ELSE /\ at < MaxEntries
               /\ entries' = Pushed(h)
               /\ at' = at + 1
       /\ failed' = IF v = view THEN failed ELSE "none"
  /\ UNCHANGED <<rigidVars, pending, role, stored, theme, storedTheme>>

\* Back, forward, or a jump in the history.
Traverse ==
  /\ \E i \in DOMAIN entries \ {at} : at' = i
  /\ pending' = TRUE
  /\ UNCHANGED <<rigidVars, entries, role, view, stored, theme, storedTheme, failed>>

\* The supervisor's link to the spatial view, or a hash typed into the location.
FollowHash ==
  /\ at < MaxEntries
  /\ \E h \in Hashes \ {Hash, ""} : entries' = Pushed(h)
  /\ at' = at + 1
  /\ pending' = TRUE
  /\ UNCHANGED <<rigidVars, role, view, stored, theme, storedTheme, failed>>

(***************************************************************************)
(* hashchange and popstate: both listeners read the location as it is now. *)
(* A link to the other role's view changes the role (App), and the view    *)
(* follows; any other hash is the navigation's to correct.                 *)
(***************************************************************************)
LocationChanged ==
  /\ pending
  /\ pending' = FALSE
  /\ LET linked == RoleFromHash(Hash) IN
     IF linked # "none" /\ linked # role
     THEN SaveRole(linked) /\ Enter(linked, Hash, entries)
     ELSE /\ UNCHANGED stored
          /\ IF role = "none" THEN UNCHANGED <<entries, role, view, failed>>
             ELSE Enter(role, Hash, entries)
  /\ UNCHANGED <<rigidVars, at, theme, storedTheme>>

ChangeTheme ==
  /\ theme' = IF theme = "dark" THEN "light" ELSE "dark"
  /\ storedTheme' = IF storage THEN theme' ELSE storedTheme
  /\ UNCHANGED <<rigidVars, entries, at, pending, role, view, stored, failed>>

\* A view throws while rendering; the boundary keeps it until its key, the view, changes.
ViewThrows ==
  /\ role # "none"
  /\ failed' = view
  /\ UNCHANGED <<rigidVars, entries, at, pending, role, view, stored, theme, storedTheme>>

\* The browser's reload, or the boundary's button.
Reload ==
  /\ Load(Hash, stored, storedTheme)
  /\ pending' = FALSE
  /\ UNCHANGED <<rigidVars, at, stored, storedTheme>>

ConsoleNext ==
  \/ SelectRole \/ Logout \/ Navigate
  \/ Traverse \/ FollowHash \/ LocationChanged
  \/ ChangeTheme \/ ViewThrows \/ Reload

-----------------------------------------------------------------------------
(***************************************************************************)
(* Once the page has been told where it is, a reload (the error boundary's *)
(* only way out) brings back the same console, view and theme: location,   *)
(* storage and state never drift apart, whatever the order of clicks and   *)
(* history moves, and after Exit console it stays on the login page.       *)
(***************************************************************************)
ReloadKeepsTheConsole ==
  ~pending =>
    /\ InitialRole(Hash, stored) = role
    /\ role # "none" => dashboardViews[view].hash = Hash
    /\ storage => InitialTheme(storedTheme) = theme

(***************************************************************************)
(* A role is only ever shown its own views, also while a move is pending,  *)
(* and a view that failed hides no other.                                  *)
(***************************************************************************)
RoleSeesItsViews ==
  /\ role = "none" <=> view = "none"
  /\ role # "none" => view \in rolePolicies[role].views
  /\ failed \in {"none", view}
==============================================================================
