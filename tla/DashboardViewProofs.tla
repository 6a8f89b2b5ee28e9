------------------------- MODULE DashboardViewProofs -------------------------
(***************************************************************************)
(* Proofs about the frame of the dashboard (App.tsx, layout/, auth/), for  *)
(* a browser history of any length, and about what it shows: the WebGL     *)
(* pictures, the supervisor's view, for any fleet, and the snapshots that  *)
(* its guard lets through.                                                 *)
(***************************************************************************)
EXTENDS DashboardProofs

-----------------------------------------------------------------------------
(* The hashes and the views, dashboardViews.ts *)

LEMMA ViewsOfRoles ==
    ASSUME NEW r \in Console!Roles
    PROVE  /\ Console!rolePolicies[r].views \subseteq Console!Views
           /\ Console!rolePolicies[r].homeView \in Console!rolePolicies[r].views
           /\ \A v \in Console!rolePolicies[r].views : Console!dashboardViews[v].workspace = r
  BY DEF Console!Views, Console!dashboardViews, Console!rolePolicies, Console!Roles

LEMMA HashesOfViews ==
    /\ \A v \in Console!Views : Console!dashboardViews[v].hash \in Console!Hashes
    /\ \A v, u \in Console!Views :
         Console!dashboardViews[v].hash = Console!dashboardViews[u].hash => u = v
    /\ \A v \in Console!Views : Console!dashboardViews[v].workspace \in Console!Roles
    /\ \A v \in Console!Views : Console!dashboardViews[v].hash # ""
  <1> DEFINE hash(v) == Console!dashboardViews[v].hash
  <1>1. Console!Views = {"DRIVER", "SPATIAL", "SETTINGS", "SUPERVISOR"}
    BY DEF Console!Views, Console!dashboardViews
  <1>2. /\ hash("DRIVER") = "#driver" /\ hash("SPATIAL") = "#spatial"
        /\ hash("SETTINGS") = "#calibration" /\ hash("SUPERVISOR") = "#fleet"
    BY DEF Console!dashboardViews
  <1>3. \A v \in Console!Views : Console!dashboardViews[v].workspace \in Console!Roles
    BY <1>1 DEF Console!dashboardViews, Console!Roles
  <1>4. \A v \in Console!Views : hash(v) \in Console!Hashes /\ hash(v) # ""
    <2> HIDE DEF hash
    <2> QED
      BY <1>1, <1>2 DEF Console!Hashes
  <1>5. \A v, u \in Console!Views : hash(v) = hash(u) => u = v
    <2> HIDE DEF hash
    <2> QED
      BY <1>1, <1>2
  <1> QED
    BY <1>3, <1>4, <1>5

\* No two views have the hash in common that links to them.
LEMMA LinkedViewIsOne ==
    /\ \A h : Console!LinkedView(h) = {} \/ \E v \in Console!Views : Console!LinkedView(h) = {v}
    /\ \A v \in Console!Views : Console!LinkedView(Console!dashboardViews[v].hash) = {v}
    /\ Console!LinkedView("") = {}
  <1>1. \A v \in Console!Views : Console!LinkedView(Console!dashboardViews[v].hash) = {v}
    BY HashesOfViews DEF Console!LinkedView
  <1>2. \A h : Console!LinkedView(h) = {}
               \/ \E v \in Console!Views : h = Console!dashboardViews[v].hash
    BY DEF Console!LinkedView
  <1>3. Console!LinkedView("") = {}
    BY HashesOfViews DEF Console!LinkedView
  <1>4. ASSUME NEW h
        PROVE  Console!LinkedView(h) = {} \/ \E v \in Console!Views : Console!LinkedView(h) = {v}
    <2>1. CASE \E v \in Console!Views : h = Console!dashboardViews[v].hash
      BY <1>1, <2>1
    <2> QED
      BY <1>2, <2>1
  <1> QED
    BY <1>1, <1>3, <1>4

\* resolveDashboardRoute gives a role one of its views.
LEMMA ResolvedIsAllowed ==
    ASSUME NEW r \in Console!Roles, NEW h
    PROVE  Console!Resolve(r, Console!LinkedView(h)) \in Console!rolePolicies[r].views
  <1> DEFINE named == Console!LinkedView(h)
  <1>1. CASE \E v \in named : v \in Console!rolePolicies[r].views
    <2>1. PICK v \in named : v \in Console!rolePolicies[r].views
      BY <1>1
    <2>2. named = {v}
      <3>1. named = {} \/ \E u \in Console!Views : named = {u}
        BY LinkedViewIsOne
      <3> HIDE DEF named
      <3> QED
        BY <2>1, <3>1
    <2>3. Console!Resolve(r, named) = CHOOSE u \in named : TRUE
      BY <1>1 DEF Console!Resolve
    <2> HIDE DEF named
    <2>4. (CHOOSE u \in named : TRUE) = v
      BY <2>2
    <2> QED
      BY <2>1, <2>3, <2>4 DEF named
  <1>2. CASE ~\E v \in named : v \in Console!rolePolicies[r].views
    BY <1>2, ViewsOfRoles DEF Console!Resolve
  <1> QED
    BY <1>1, <1>2

\* A hash links to the role whose view it names.
LEMMA RoleOfView ==
    ASSUME NEW r \in Console!Roles, NEW v \in Console!rolePolicies[r].views
    PROVE  Console!RoleFromHash(Console!dashboardViews[v].hash) = r
  <1>1. v \in Console!Views /\ Console!dashboardViews[v].workspace = r
    BY ViewsOfRoles
  <1>2. Console!LinkedView(Console!dashboardViews[v].hash) = {v}
    BY <1>1, LinkedViewIsOne
  <1>3. (CHOOSE u \in {v} : TRUE) = v
    OBVIOUS
  <1> QED
    BY <1>1, <1>2, <1>3 DEF Console!RoleFromHash

LEMMA RoleFromHashTypes ==
    /\ \A h : Console!RoleFromHash(h) \in Console!Roles \cup {"none"}
    /\ Console!RoleFromHash("") = "none"
  <1>1. ASSUME NEW h
        PROVE  Console!RoleFromHash(h) \in Console!Roles \cup {"none"}
    <2>1. CASE Console!LinkedView(h) = {}
      BY <2>1 DEF Console!RoleFromHash
    <2>2. ASSUME NEW v \in Console!Views, Console!LinkedView(h) = {v}
          PROVE  Console!RoleFromHash(h) \in Console!Roles
      <3>1. (CHOOSE u \in {v} : TRUE) = v
        OBVIOUS
      <3> QED
        BY <2>2, <3>1, HashesOfViews DEF Console!RoleFromHash
    <2> QED
      BY <2>1, <2>2, LinkedViewIsOne
  <1>2. Console!RoleFromHash("") = "none"
    BY LinkedViewIsOne DEF Console!RoleFromHash
  <1> QED
    BY <1>1, <1>2

-----------------------------------------------------------------------------
(* The console *)

NoRoleOr == Console!Roles \cup {"none"}

ConsoleTypes ==
    /\ entries \in Seq(Console!Hashes) /\ entry \in 1 .. Len(entries)
    /\ role \in NoRoleOr /\ stored \in NoRoleOr
    /\ theme \in Console!Themes /\ storedTheme \in Console!Themes \cup {"none"}
    /\ storage \in BOOLEAN

\* The login page is shown only when no role is stored that a reload would take.
LoginIsForgotten == role = "none" /\ storage => stored = "none"

\* The theme is kept whether or not a move of the browser is pending.
ThemeIsKept == storage => Console!InitialTheme(storedTheme) = theme

ConsoleIsTrue ==
    /\ ConsoleTypes
    /\ LoginIsForgotten
    /\ ThemeIsKept
    /\ Console!RoleSeesItsViews
    /\ Console!ReloadKeepsTheConsole

ConsoleInv == part = "console" => ConsoleIsTrue

\* The hash of a view of the role is a location that a reload takes to this console.
LEMMA LocationKeeps ==
    ASSUME NEW r \in Console!Roles, NEW v \in Console!rolePolicies[r].views, NEW s
    PROVE  Console!InitialRole(Console!dashboardViews[v].hash, s) = r
  BY RoleOfView DEF Console!InitialRole, Console!Roles

LEMMA InitialRoleTypes ==
    ASSUME NEW h, NEW s \in NoRoleOr
    PROVE  /\ Console!InitialRole(h, s) \in NoRoleOr
           /\ Console!InitialRole(h, s) = "none" /\ storage => s = "none"
  BY RoleFromHashTypes DEF Console!InitialRole, NoRoleOr

\* A step that shows view v of role r, at its hash.
LEMMA ConsoleShown ==
    ASSUME ConsoleIsTrue, storage' = storage,
           entries' \in Seq(Console!Hashes), entry' \in 1 .. Len(entries'),
           stored' \in NoRoleOr, theme' \in Console!Themes,
           storedTheme' \in Console!Themes \cup {"none"},
           ThemeIsKept',
           role' \in Console!Roles, view' \in Console!rolePolicies[role'].views,
           entries'[entry'] = Console!dashboardViews[view'].hash,
           failed' \in {"none", view'}
    PROVE  ConsoleIsTrue'
  <1>1. role' # "none" /\ view' # "none"
    BY DEF Console!Roles, Console!rolePolicies
  <1>2. ConsoleTypes' /\ LoginIsForgotten'
    BY <1>1 DEF ConsoleIsTrue, ConsoleTypes, LoginIsForgotten, NoRoleOr
  <1>3. Console!RoleSeesItsViews'
    BY <1>1 DEF Console!RoleSeesItsViews
  <1>4. Console!InitialRole(Console!Hash, stored)' = role'
    <2>1. PICK r \in Console!Roles : r = role'
      OBVIOUS
    <2>2. PICK v \in Console!rolePolicies[r].views : v = view'
      BY <2>1
    <2>3. Console!RoleFromHash(Console!dashboardViews[v].hash) = r /\ r # "none"
      BY RoleOfView DEF Console!Roles
    <2> QED
      BY <2>1, <2>2, <2>3 DEF Console!InitialRole, Console!Hash
  <1>5. Console!ReloadKeepsTheConsole'
    BY <1>4 DEF Console!ReloadKeepsTheConsole, Console!Hash, ThemeIsKept
  <1> QED
    BY <1>2, <1>3, <1>5 DEF ConsoleIsTrue

\* A step that shows the login page, or leaves it where it is.
LEMMA LoginShown ==
    ASSUME ConsoleIsTrue, storage' = storage,
           entries' \in Seq(Console!Hashes), entry' \in 1 .. Len(entries'),
           stored' \in NoRoleOr, theme' \in Console!Themes,
           storedTheme' \in Console!Themes \cup {"none"},
           ThemeIsKept', LoginIsForgotten',
           role' = "none", view' = "none", failed' = "none",
           ~pending' => Console!RoleFromHash(entries'[entry']) = "none"
    PROVE  ConsoleIsTrue'
  <1>1. ConsoleTypes' /\ Console!RoleSeesItsViews'
    BY DEF ConsoleIsTrue, ConsoleTypes, NoRoleOr, Console!RoleSeesItsViews
  <1>2. ~pending' => Console!InitialRole(Console!Hash, stored)' = role'
    BY DEF Console!InitialRole, Console!Hash, LoginIsForgotten
  <1>3. Console!ReloadKeepsTheConsole'
    BY <1>2 DEF Console!ReloadKeepsTheConsole, ThemeIsKept
  <1> QED
    BY <1>1, <1>3 DEF ConsoleIsTrue

\* Replacing the hash of the entry the page is on.
LEMMA ReplacedTypes ==
    ASSUME NEW es \in Seq(Console!Hashes), NEW i \in 1 .. Len(es), NEW h \in Console!Hashes
    PROVE  /\ [es EXCEPT ![i] = h] \in Seq(Console!Hashes)
           /\ Len([es EXCEPT ![i] = h]) = Len(es)
           /\ [es EXCEPT ![i] = h][i] = h
  BY ExceptSeq

\* A new entry after the one the page is on, in place of those that followed.
LEMMA PushedTypes ==
    ASSUME ConsoleTypes, NEW h \in Console!Hashes
    PROVE  /\ Console!Pushed(h) \in Seq(Console!Hashes)
           /\ Len(Console!Pushed(h)) = entry + 1
           /\ Console!Pushed(h)[entry + 1] = h
           /\ entry + 1 \in 1 .. Len(Console!Pushed(h))
  <1> DEFINE kept == SubSeq(entries, 1, entry)
  <1>1. entry \in Nat \ {0} /\ \A i \in 1 .. entry : entries[i] \in Console!Hashes
    BY ElementOfSeq, LenProperties DEF ConsoleTypes
  <1>2. kept \in Seq(Console!Hashes) /\ Len(kept) = entry
    BY <1>1, SubSeqProperties
  <1> HIDE DEF kept
  <1>3. /\ Append(kept, h) \in Seq(Console!Hashes) /\ Len(Append(kept, h)) = entry + 1
        /\ Append(kept, h)[entry + 1] = h
    BY <1>1, <1>2, AppendProperties
  <1> QED
    BY <1>1, <1>3 DEF Console!Pushed, kept

-----------------------------------------------------------------------------
(* Each step keeps it *)

\* Enter, whatever became of the stored role.
LEMMA EnterStep ==
    ASSUME ConsoleIsTrue, NEW r \in Console!Roles, NEW h,
           NEW replaced \in Seq(Console!Hashes), Len(replaced) = Len(entries),
           Console!Enter(r, h, replaced), stored' \in NoRoleOr,
           UNCHANGED <<storage, prefersDark, entry, theme, storedTheme>>
    PROVE  ConsoleIsTrue'
  <1> DEFINE v == Console!Resolve(r, Console!LinkedView(h))
  <1>1. v \in Console!rolePolicies[r].views
    BY ResolvedIsAllowed
  <1>2. v \in Console!Views
    BY <1>1, ViewsOfRoles
  <1>3. /\ role' = r /\ view' = v
        /\ entries' = [replaced EXCEPT ![entry] = Console!dashboardViews[v].hash]
        /\ failed' = IF failed = v THEN failed ELSE "none"
    BY DEF Console!Enter
  <1> HIDE DEF v
  <1>4. Console!dashboardViews[v].hash \in Console!Hashes
    BY <1>2, HashesOfViews
  <1>5. entry \in 1 .. Len(replaced)
    BY DEF ConsoleIsTrue, ConsoleTypes
  <1>6. /\ entries' \in Seq(Console!Hashes) /\ entry' \in 1 .. Len(entries')
        /\ entries'[entry'] = Console!dashboardViews[v].hash
    BY <1>3, <1>4, <1>5, ReplacedTypes
  <1>7. ThemeIsKept' /\ theme' \in Console!Themes
        /\ storedTheme' \in Console!Themes \cup {"none"}
    BY DEF ConsoleIsTrue, ConsoleTypes, ThemeIsKept, Console!InitialTheme
  <1> QED
    BY <1>1, <1>3, <1>6, <1>7, ConsoleShown

LEMMA SelectRoleStep ==
    ASSUME ConsoleIsTrue, Console!SelectRole
    PROVE  ConsoleIsTrue'
  <1>1. PICK r \in Console!Roles :
          LET destination == IF demo /\ r = "DRIVER" THEN {"SPATIAL"} ELSE {}
              h == Console!dashboardViews[Console!Resolve(r, destination)].hash
          IN Console!SaveRole(r) /\ Console!Enter(r, h, Console!Replaced(h))
    BY DEF Console!SelectRole
  <1> DEFINE destination == IF demo /\ r = "DRIVER" THEN {"SPATIAL"} ELSE {}
             v == Console!Resolve(r, destination)
             h == Console!dashboardViews[v].hash
  <1>2. v \in Console!rolePolicies[r].views
    <2>1. CASE destination = {"SPATIAL"} /\ r = "DRIVER"
      <3>1. "SPATIAL" \in Console!rolePolicies[r].views
        BY <2>1 DEF Console!rolePolicies
      <3>2. (CHOOSE u \in {"SPATIAL"} : TRUE) = "SPATIAL"
        OBVIOUS
      <3> QED
        BY <2>1, <3>1, <3>2 DEF Console!Resolve
    <2>2. CASE destination = {}
      BY <2>2, ViewsOfRoles DEF Console!Resolve
    <2> QED
      BY <2>1, <2>2
  <1> HIDE DEF v
  <1>3. h \in Console!Hashes
    BY <1>2, ViewsOfRoles, HashesOfViews
  <1>4. Console!Replaced(h) \in Seq(Console!Hashes) /\ Len(Console!Replaced(h)) = Len(entries)
    BY <1>3, ReplacedTypes DEF Console!Replaced, ConsoleIsTrue, ConsoleTypes
  <1>5. Console!SaveRole(r) /\ Console!Enter(r, h, Console!Replaced(h))
    BY <1>1 DEF v
  <1> HIDE DEF h
  <1>6. stored' \in NoRoleOr
    BY <1>5 DEF Console!SaveRole, NoRoleOr, ConsoleIsTrue, ConsoleTypes
  <1>7. UNCHANGED <<storage, prefersDark, entry, theme, storedTheme>>
    BY DEF Console!SelectRole, Console!rigidVars
  <1> QED
    BY <1>4, <1>5, <1>6, <1>7, EnterStep

LEMMA LogoutStep ==
    ASSUME ConsoleIsTrue, Console!Logout
    PROVE  ConsoleIsTrue'
  <1>1. /\ stored' = (IF storage THEN "none" ELSE stored)
        /\ entries' = [entries EXCEPT ![entry] = ""]
        /\ role' = "none" /\ view' = "none" /\ failed' = "none"
        /\ UNCHANGED <<storage, prefersDark, entry, theme, storedTheme>>
    BY DEF Console!Logout, Console!SaveRole, Console!Replaced, Console!LoginPage,
           Console!rigidVars
  <1>2. /\ entries' \in Seq(Console!Hashes) /\ entry' \in 1 .. Len(entries')
        /\ entries'[entry'] = ""
    <2>1. PICK h \in Console!Hashes : h = ""
      BY DEF Console!Hashes
    <2>2. entries \in Seq(Console!Hashes) /\ entry \in 1 .. Len(entries)
      BY DEF ConsoleIsTrue, ConsoleTypes
    <2>3. entries' = [entries EXCEPT ![entry] = h] /\ entry' = entry
      BY <1>1, <2>1
    <2>4. /\ [entries EXCEPT ![entry] = h] \in Seq(Console!Hashes)
          /\ Len([entries EXCEPT ![entry] = h]) = Len(entries)
          /\ [entries EXCEPT ![entry] = h][entry] = h
      BY <2>2, ReplacedTypes
    <2> QED
      BY <2>1, <2>2, <2>3, <2>4
  <1>3. ThemeIsKept' /\ theme' \in Console!Themes
        /\ storedTheme' \in Console!Themes \cup {"none"}
    BY <1>1 DEF ConsoleIsTrue, ConsoleTypes, ThemeIsKept, Console!InitialTheme
  <1>4. LoginIsForgotten' /\ stored' \in NoRoleOr
    BY <1>1 DEF LoginIsForgotten, NoRoleOr, ConsoleIsTrue, ConsoleTypes
  <1> QED
    BY <1>1, <1>2, <1>3, <1>4, RoleFromHashTypes, LoginShown

LEMMA NavigateStep ==
    ASSUME ConsoleIsTrue, Console!Navigate
    PROVE  ConsoleIsTrue'
  <1>1. role \in Console!Roles
    BY DEF Console!Navigate, ConsoleIsTrue, ConsoleTypes, NoRoleOr
  <1>2. PICK v \in Console!rolePolicies[role].views :
          /\ view' = v
          /\ IF Console!Hash = Console!dashboardViews[v].hash THEN UNCHANGED <<entries, entry>>
             ELSE /\ entries' = Console!Pushed(Console!dashboardViews[v].hash)
                  /\ entry' = entry + 1
          /\ failed' = IF v = view THEN failed ELSE "none"
    BY DEF Console!Navigate
  <1>3. Console!dashboardViews[v].hash \in Console!Hashes
    BY <1>1, ViewsOfRoles, HashesOfViews
  <1>4. /\ entries' \in Seq(Console!Hashes) /\ entry' \in 1 .. Len(entries')
        /\ entries'[entry'] = Console!dashboardViews[v].hash
    BY <1>2, <1>3, PushedTypes DEF ConsoleIsTrue, ConsoleTypes, Console!Hash
  <1>5. UNCHANGED <<storage, prefersDark, role, stored, theme, storedTheme>>
    BY DEF Console!Navigate, Console!rigidVars
  <1>6. /\ ThemeIsKept' /\ theme' \in Console!Themes /\ stored' \in NoRoleOr
        /\ storedTheme' \in Console!Themes \cup {"none"}
    BY <1>5 DEF ConsoleIsTrue, ConsoleTypes, ThemeIsKept, Console!InitialTheme
  <1>7. failed' \in {"none", view'}
    BY <1>2 DEF ConsoleIsTrue, Console!RoleSeesItsViews
  <1> QED
    BY <1>1, <1>2, <1>4, <1>5, <1>6, <1>7, ConsoleShown

\* The browser moves first: what the page shows stays what it was.
LEMMA BrowserMoves ==
    ASSUME ConsoleIsTrue, pending',
           entries' \in Seq(Console!Hashes), entry' \in 1 .. Len(entries'),
           UNCHANGED <<storage, prefersDark, role, view, stored, theme, storedTheme, failed>>
    PROVE  ConsoleIsTrue'
  <1>1. ConsoleTypes' /\ LoginIsForgotten'
    BY DEF ConsoleIsTrue, ConsoleTypes, LoginIsForgotten
  <1>2. ThemeIsKept' /\ Console!RoleSeesItsViews' /\ Console!ReloadKeepsTheConsole'
    BY DEF ConsoleIsTrue, ThemeIsKept, Console!InitialTheme, Console!RoleSeesItsViews,
           Console!ReloadKeepsTheConsole
  <1> QED
    BY <1>1, <1>2 DEF ConsoleIsTrue

LEMMA TraverseStep ==
    ASSUME ConsoleIsTrue, Console!Traverse
    PROVE  ConsoleIsTrue'
  <1>1. entries' \in Seq(Console!Hashes) /\ entry' \in 1 .. Len(entries')
    BY DEF Console!Traverse, ConsoleIsTrue, ConsoleTypes
  <1> QED
    BY <1>1, BrowserMoves DEF Console!Traverse, Console!rigidVars

LEMMA FollowHashStep ==
    ASSUME ConsoleIsTrue, Console!FollowHash
    PROVE  ConsoleIsTrue'
  <1>1. entries' \in Seq(Console!Hashes) /\ entry' \in 1 .. Len(entries')
    BY PushedTypes DEF Console!FollowHash, ConsoleIsTrue
  <1> QED
    BY <1>1, BrowserMoves DEF Console!FollowHash, Console!rigidVars

LEMMA LocationChangedStep ==
    ASSUME ConsoleIsTrue, Console!LocationChanged
    PROVE  ConsoleIsTrue'
  <1> DEFINE target == Console!RoleFromHash(Console!Hash)
  <1>1. UNCHANGED <<storage, prefersDark, entry, theme, storedTheme>>
    BY DEF Console!LocationChanged, Console!rigidVars
  <1>2. /\ entries \in Seq(Console!Hashes) /\ entry \in 1 .. Len(entries)
        /\ stored \in NoRoleOr /\ role \in NoRoleOr
        /\ target \in NoRoleOr
    BY RoleFromHashTypes DEF ConsoleIsTrue, ConsoleTypes, NoRoleOr
  <1>3. CASE target # "none" /\ target # role
    <2>1. Console!SaveRole(target) /\ Console!Enter(target, Console!Hash, entries)
      BY <1>3 DEF Console!LocationChanged
    <2> HIDE DEF target
    <2>2. target \in Console!Roles
      BY <1>2, <1>3 DEF NoRoleOr
    <2>3. stored' \in NoRoleOr
      BY <1>2, <2>1 DEF Console!SaveRole
    <2> QED
      BY <1>1, <1>2, <2>1, <2>2, <2>3, EnterStep
  <1>4. CASE target \in {"none", role} /\ role # "none"
    <2>1. stored' = stored /\ Console!Enter(role, Console!Hash, entries)
      BY <1>4 DEF Console!LocationChanged
    <2>2. role \in Console!Roles
      BY <1>2, <1>4 DEF NoRoleOr
    <2> QED
      BY <1>1, <1>2, <2>1, <2>2, EnterStep
  <1>5. CASE target = "none" /\ role = "none"
    <2>1. UNCHANGED <<stored, entries, role, view, failed>>
      BY <1>5 DEF Console!LocationChanged
    <2>2. role' = "none" /\ view' = "none" /\ failed' = "none"
      BY <1>5, <2>1 DEF ConsoleIsTrue, Console!RoleSeesItsViews
    <2>3. ThemeIsKept' /\ LoginIsForgotten'
      BY <1>1, <2>1 DEF ConsoleIsTrue, ThemeIsKept, LoginIsForgotten, Console!InitialTheme
    <2>4. theme' \in Console!Themes /\ storedTheme' \in Console!Themes \cup {"none"}
      BY <1>1 DEF ConsoleIsTrue, ConsoleTypes
    <2>5. Console!RoleFromHash(entries'[entry']) = "none"
      BY <1>1, <1>5, <2>1 DEF Console!Hash
    <2> QED
      BY <1>1, <1>2, <2>1, <2>2, <2>3, <2>4, <2>5, LoginShown
  <1> QED
    BY <1>3, <1>4, <1>5

LEMMA ChangeThemeStep ==
    ASSUME ConsoleIsTrue, Console!ChangeTheme
    PROVE  ConsoleIsTrue'
  <1>1. /\ theme' = (IF theme = "dark" THEN "light" ELSE "dark")
        /\ storedTheme' = (IF storage THEN theme' ELSE storedTheme)
        /\ UNCHANGED <<storage, prefersDark, entries, entry, pending, role, view, stored,
                      failed>>
    BY DEF Console!ChangeTheme, Console!rigidVars
  <1>2. /\ theme' \in Console!Themes /\ storedTheme' \in Console!Themes \cup {"none"}
        /\ ThemeIsKept'
    BY <1>1 DEF ConsoleIsTrue, ConsoleTypes, ThemeIsKept, Console!InitialTheme, Console!Themes
  <1>3. ConsoleTypes' /\ LoginIsForgotten' /\ Console!RoleSeesItsViews'
    BY <1>1, <1>2 DEF ConsoleIsTrue, ConsoleTypes, LoginIsForgotten, Console!RoleSeesItsViews
  <1>4. Console!ReloadKeepsTheConsole'
    BY <1>1, <1>2 DEF ConsoleIsTrue, ThemeIsKept, Console!ReloadKeepsTheConsole,
                      Console!InitialRole, Console!Hash
  <1> QED
    BY <1>2, <1>3, <1>4 DEF ConsoleIsTrue

LEMMA ViewThrowsStep ==
    ASSUME ConsoleIsTrue, Console!ViewThrows
    PROVE  ConsoleIsTrue'
  <1>1. /\ role # "none" /\ failed' = view
        /\ UNCHANGED <<storage, prefersDark, entries, entry, pending, role, view, stored, theme,
                      storedTheme>>
    BY DEF Console!ViewThrows, Console!rigidVars
  <1> QED
    BY <1>1 DEF ConsoleIsTrue, ConsoleTypes, LoginIsForgotten, ThemeIsKept, Console!InitialTheme,
                Console!RoleSeesItsViews, Console!ReloadKeepsTheConsole, Console!InitialRole,
                Console!Hash

LEMMA ReloadStep ==
    ASSUME ConsoleIsTrue, Console!Reload
    PROVE  ConsoleIsTrue'
  <1> DEFINE r == Console!InitialRole(Console!Hash, stored)
             v == Console!Resolve(r, Console!LinkedView(Console!Hash))
  <1>1. /\ Console!Load(Console!Hash, stored, storedTheme) /\ pending' = FALSE
        /\ UNCHANGED <<storage, prefersDark, entry, stored, storedTheme>>
    BY DEF Console!Reload, Console!rigidVars
  <1>2. /\ entries \in Seq(Console!Hashes) /\ entry \in 1 .. Len(entries)
        /\ stored \in NoRoleOr /\ storedTheme \in Console!Themes \cup {"none"}
    BY DEF ConsoleIsTrue, ConsoleTypes
  <1>3. r \in NoRoleOr /\ (r = "none" /\ storage => stored = "none")
    BY <1>2, InitialRoleTypes
  <1>4. theme' = Console!InitialTheme(storedTheme)
    BY <1>1 DEF Console!Load
  <1>5. /\ ThemeIsKept' /\ theme' \in Console!Themes
        /\ storedTheme' \in Console!Themes \cup {"none"}
    BY <1>1, <1>2, <1>4 DEF ThemeIsKept, Console!InitialTheme, Console!Themes
  <1>6. CASE r = "none"
    <2>1. role' = "none" /\ view' = "none" /\ failed' = "none" /\ entries' = entries
      BY <1>1, <1>6 DEF Console!Load, Console!LoginPage
    <2>2. Console!RoleFromHash(entries'[entry']) = "none"
      BY <1>1, <1>6, <2>1 DEF Console!InitialRole, Console!Hash
    <2>3. LoginIsForgotten'
      BY <1>1, <1>3, <1>6 DEF LoginIsForgotten
    <2> QED
      BY <1>1, <1>2, <1>5, <2>1, <2>2, <2>3, LoginShown
  <1>7. CASE r # "none"
    <2>1. /\ role' = r /\ view' = v /\ failed' = "none"
          /\ entries' = [entries EXCEPT ![entry] = Console!dashboardViews[v].hash]
      BY <1>1, <1>7 DEF Console!Load, Console!Replaced
    <2>2. r \in Console!Roles
      BY <1>3, <1>7 DEF NoRoleOr
    <2> HIDE DEF r
    <2>3. v \in Console!rolePolicies[r].views
      BY <2>2, ResolvedIsAllowed
    <2> HIDE DEF v
    <2>4. Console!dashboardViews[v].hash \in Console!Hashes
      BY <2>2, <2>3, ViewsOfRoles, HashesOfViews
    <2>5. /\ entries' \in Seq(Console!Hashes) /\ entry' \in 1 .. Len(entries')
          /\ entries'[entry'] = Console!dashboardViews[v].hash
      BY <1>1, <1>2, <2>1, <2>4, ReplacedTypes
    <2> QED
      BY <1>1, <1>2, <1>5, <2>1, <2>2, <2>3, <2>5, ConsoleShown
  <1> QED
    BY <1>6, <1>7

LEMMA ConsoleUnchanged ==
    ASSUME ConsoleIsTrue, UNCHANGED consoleVars
    PROVE  ConsoleIsTrue'
  BY DEF consoleVars, ConsoleIsTrue, ConsoleTypes, LoginIsForgotten, ThemeIsKept,
         Console!InitialTheme, Console!RoleSeesItsViews, Console!ReloadKeepsTheConsole,
         Console!InitialRole, Console!Hash

LEMMA ConsoleInitIsTrue ==
    ASSUME Console!ConsoleInit
    PROVE  ConsoleIsTrue
  <1>1. PICK h \in Console!Hashes, s \in {"none", "DRIVER"} :
          LET r == Console!InitialRole(h, s) IN
          /\ role = r
          /\ view = IF r = "none" THEN "none" ELSE Console!Resolve(r, Console!LinkedView(h))
          /\ entries = <<IF r = "none" THEN h ELSE Console!dashboardViews[view].hash>>
          /\ stored = IF storage THEN s ELSE "none"
    BY DEF Console!ConsoleInit
  <1>2. /\ storage \in BOOLEAN /\ entry = 1 /\ pending = FALSE /\ storedTheme = "none"
        /\ theme = Console!InitialTheme("none") /\ failed = "none"
    BY DEF Console!ConsoleInit
  <1>3. /\ theme \in Console!Themes /\ storedTheme \in Console!Themes \cup {"none"}
        /\ ThemeIsKept
    BY <1>2 DEF Console!InitialTheme, Console!Themes, ThemeIsKept
  <1>4. /\ s \in NoRoleOr /\ stored \in NoRoleOr
        /\ role = Console!InitialRole(h, s) /\ role \in NoRoleOr
        /\ role = "none" /\ storage => s = "none"
    BY <1>1, InitialRoleTypes DEF NoRoleOr, Console!Roles
  <1>5. LoginIsForgotten
    BY <1>1, <1>4 DEF LoginIsForgotten
  <1>6. Console!InitialRole(h, stored) = role
    BY <1>1, <1>2, <1>4 DEF Console!InitialRole
  <1>7. CASE role = "none"
    <2>1. view = "none" /\ entries = <<h>>
      BY <1>1, <1>7
    <2>2. entries \in Seq(Console!Hashes) /\ entry \in 1 .. Len(entries) /\ entries[entry] = h
      BY <1>2, <2>1
    <2> QED
      BY <1>2, <1>3, <1>4, <1>5, <1>6, <1>7, <2>1, <2>2
         DEF ConsoleIsTrue, ConsoleTypes, Console!RoleSeesItsViews,
             Console!ReloadKeepsTheConsole, Console!Hash, ThemeIsKept
  <1>8. CASE role # "none"
    <2>1. /\ view = Console!Resolve(role, Console!LinkedView(h))
          /\ entries = <<Console!dashboardViews[view].hash>>
      BY <1>1, <1>8
    <2>2. role \in Console!Roles /\ role # "none"
      BY <1>4, <1>8 DEF NoRoleOr
    <2>3. view \in Console!rolePolicies[role].views
      BY <2>1, <2>2, ResolvedIsAllowed
    <2>4. view # "none"
      BY <2>2, <2>3 DEF Console!Roles, Console!rolePolicies
    <2>5. Console!dashboardViews[view].hash \in Console!Hashes
      BY <2>2, <2>3, ViewsOfRoles, HashesOfViews
    <2>6. /\ entries \in Seq(Console!Hashes) /\ entry \in 1 .. Len(entries)
          /\ entries[entry] = Console!dashboardViews[view].hash
      BY <1>2, <2>1, <2>5
    <2>7. Console!InitialRole(Console!Hash, stored) = role
      BY <2>2, <2>3, <2>6, LocationKeeps DEF Console!Hash
    <2> QED
      BY <1>2, <1>3, <1>4, <1>5, <2>2, <2>3, <2>4, <2>6, <2>7
         DEF ConsoleIsTrue, ConsoleTypes, Console!RoleSeesItsViews,
             Console!ReloadKeepsTheConsole, Console!Hash, ThemeIsKept
  <1> QED
    BY <1>7, <1>8

-----------------------------------------------------------------------------
(* The theorems *)

\* The role and its view, the location's hash, the session storage and the theme never
\* drift apart (App.tsx 35-130, useDashboardNavigation.ts): the invariant they rest on.
THEOREM ConsoleInvariant == DashboardSpec => []ConsoleInv
  <1>1. DashboardInit => ConsoleInv
    BY ConsoleInitIsTrue DEF DashboardInit, ConsoleInv
  <1>2. ConsoleInv /\ [DashboardNext]_dashboardVars => ConsoleInv'
    <2> SUFFICES ASSUME ConsoleInv, [DashboardNext]_dashboardVars, part' = "console"
                 PROVE  ConsoleIsTrue'
      BY DEF ConsoleInv
    <2>1. CASE DashboardNext
      <3>1. part = "console" /\ Console!ConsoleNext
        BY <2>1 DEF DashboardNext, OthersUnchanged
      <3>2. ConsoleIsTrue
        BY <3>1 DEF ConsoleInv
      <3> QED
        BY <3>1, <3>2, SelectRoleStep, LogoutStep, NavigateStep, TraverseStep, FollowHashStep,
           LocationChangedStep, ChangeThemeStep, ViewThrowsStep, ReloadStep
           DEF Console!ConsoleNext
    <2>2. CASE UNCHANGED dashboardVars
      <3>1. part = "console" /\ UNCHANGED consoleVars
        BY <2>2 DEF dashboardVars
      <3> QED
        BY <3>1, ConsoleUnchanged DEF ConsoleInv
    <2> QED
      BY <2>1, <2>2
  <1> QED
    BY <1>1, <1>2, PTL DEF DashboardSpec

\* Once the page knows where it is, a reload brings back the same console, view and
\* theme, and a role is shown only its own views, for a history of any length and in
\* whatever order clicks and moves of the browser come (App.tsx, dashboardViews.ts).
THEOREM ConsoleKeepsItsLocation == DashboardSpec => []ConsoleIsItsLocation
  <1>1. ConsoleInv => ConsoleIsItsLocation
    BY DEF ConsoleInv, ConsoleIsTrue, ConsoleIsItsLocation
  <1> QED
    BY <1>1, ConsoleInvariant, PTL

-----------------------------------------------------------------------------
(* The WebGL pictures *)

SceneType ==
  [life : {"live", "fallback"}, lost : BOOLEAN, visible : BOOLEAN, frame : BOOLEAN,
   latest : Nat, drawn : Nat, settled : BOOLEAN, eased : BOOLEAN, recent : BOOLEAN,
   animating : BOOLEAN, preview : BOOLEAN, loaded : BOOLEAN]
PageType ==
  [hidden : BOOLEAN, onscreen : BOOLEAN, entries : Seq(BOOLEAN), still : BOOLEAN]

\* A frame is asked for only of a picture that may be seen.
FrameIsSeen(s, p) == s.frame => s.visible /\ ~p.hidden /\ (s.lost => kind \in Scene!Cameras)

\* Only the mapping view shows a moving scan.
OnlyMappingPreviews(s) == s.preview => kind = "mapping"

NoneIsLost(s, p) ==
  /\ s.drawn # s.latest \/ ~s.settled \/ (s.preview /\ ~p.still)
  /\ Scene!MayDraw(s, p.hidden) /\ ~s.lost
  => s.frame

\* The observer of the mine has told, or will tell, what the page shows now.
MineIsTold(s, p) ==
  kind = "mine" => (IF p.entries = << >> THEN s.visible ELSE p.entries[Len(p.entries)])
                     = p.onscreen

Good(s, p) ==
  /\ s \in SceneType
  /\ s.life = "live" => FrameIsSeen(s, p) /\ NoneIsLost(s, p) /\ OnlyMappingPreviews(s)
                          /\ MineIsTold(s, p)

SceneIsTrue ==
  /\ kind \in Scene!Kinds /\ page \in PageType
  /\ scene = Scene!Absent \/ Good(scene, page)

SceneInv == part = "scene" => SceneIsTrue

LEMMA LiveScene ==
    ASSUME SceneIsTrue, Scene!Live
    PROVE  scene \in SceneType /\ scene.life = "live" /\ Good(scene, page)
  BY DEF SceneIsTrue, Scene!Live, Scene!Absent, Good

\* requestRender, of a picture that may have anything to draw.
LEMMA Requested ==
    ASSUME NEW s \in SceneType, NEW p \in PageType, s.life = "live",
           FrameIsSeen(s, p), OnlyMappingPreviews(s), MineIsTold(s, p)
    PROVE  Good(Scene!RequestRender(s, p.hidden), p)
  <1> DEFINE r == Scene!RequestRender(s, p.hidden)
  <1>1. r = IF Scene!MayDraw(s, p.hidden) THEN [s EXCEPT !.frame = TRUE] ELSE s
    BY DEF Scene!RequestRender
  <1>2. r \in SceneType
    BY <1>1 DEF SceneType
  <1>3. CASE Scene!MayDraw(s, p.hidden)
    <2>1. /\ r.frame /\ r.life = s.life /\ r.visible = s.visible /\ r.lost = s.lost
          /\ r.preview = s.preview
      BY <1>1, <1>3 DEF SceneType
    <2>2. s.visible /\ ~p.hidden /\ (s.lost => kind \in Scene!Cameras)
      BY <1>3 DEF Scene!MayDraw
    <2> HIDE DEF r
    <2> QED
      BY <1>2, <2>1, <2>2 DEF Good, FrameIsSeen, NoneIsLost, OnlyMappingPreviews, MineIsTold, r
  <1>4. CASE ~Scene!MayDraw(s, p.hidden)
    BY <1>1, <1>2, <1>4 DEF Good, NoneIsLost
  <1> QED
    BY <1>3, <1>4

\* pause, or requestRender: whatever was asked for before.
LEMMA WokenIsGood ==
    ASSUME NEW s \in SceneType, NEW p \in PageType, s.life = "live",
           OnlyMappingPreviews(s), MineIsTold(s, p)
    PROVE  Good(Scene!Woken(s, p.hidden), p)
  <1> DEFINE r == Scene!Woken(s, p.hidden)
  <1>1. CASE Scene!MayDraw(s, p.hidden)
    <2>1. r = [s EXCEPT !.frame = TRUE]
      BY <1>1 DEF Scene!Woken, Scene!RequestRender
    <2>2. /\ r \in SceneType /\ r.frame /\ r.life = s.life /\ r.visible = s.visible
          /\ r.lost = s.lost /\ r.preview = s.preview
      BY <2>1 DEF SceneType
    <2>3. s.visible /\ ~p.hidden /\ (s.lost => kind \in Scene!Cameras)
      BY <1>1 DEF Scene!MayDraw
    <2> HIDE DEF r
    <2> QED
      BY <2>2, <2>3 DEF Good, FrameIsSeen, NoneIsLost, OnlyMappingPreviews, MineIsTold, r
  <1>2. CASE ~Scene!MayDraw(s, p.hidden)
    <2>1. r = Scene!Pause(s)
      BY <1>2 DEF Scene!Woken
    <2>2. /\ r \in SceneType /\ ~r.frame /\ r.life = s.life /\ r.visible = s.visible
          /\ r.lost = s.lost /\ r.preview = s.preview /\ r.loaded = s.loaded
      BY <2>1 DEF SceneType, Scene!Pause
    <2>3. ~Scene!MayDraw(r, p.hidden)
      BY <1>2, <2>2 DEF Scene!MayDraw
    <2> HIDE DEF r
    <2> QED
      BY <2>2, <2>3 DEF Good, FrameIsSeen, NoneIsLost, OnlyMappingPreviews, MineIsTold, r
  <1> QED
    BY <1>1, <1>2

LEMMA NewIsGood ==
    ASSUME NEW n \in Nat, NEW b \in BOOLEAN, NEW p \in PageType
    PROVE  LET s == Scene!New(n, b) IN
           /\ s \in SceneType /\ s.life = "live" /\ ~s.frame /\ s.visible = b
           /\ ~s.preview /\ ~s.loaded /\ ~s.lost
           /\ FrameIsSeen(s, p) /\ OnlyMappingPreviews(s)
           /\ kind \in Scene!Cameras => Good(s, p)
  <1> DEFINE s == Scene!New(n, b)
  <1>1. /\ s \in SceneType /\ s.life = "live" /\ ~s.frame /\ s.visible = b
        /\ ~s.preview /\ ~s.loaded /\ ~s.lost
    BY DEF Scene!New, SceneType
  <1> HIDE DEF s
  <1>2. kind \in Scene!Cameras => ~Scene!MayDraw(s, p.hidden) /\ kind # "mine"
    BY <1>1 DEF Scene!MayDraw, Scene!Cameras
  <1> QED
    BY <1>1, <1>2 DEF s, Good, FrameIsSeen, NoneIsLost, OnlyMappingPreviews, MineIsTold

\* What observe() leads to: the observer will first report what it sees.
LEMMA ObservedTypes ==
    ASSUME page \in PageType
    PROVE  /\ Scene!Observed \in PageType
           /\ Scene!Observed.hidden = page.hidden /\ Scene!Observed.still = page.still
           /\ Scene!Observed.entries # << >>
           /\ Scene!Observed.entries[Len(Scene!Observed.entries)] = Scene!Observed.onscreen
  <1>1. <<page.onscreen>> \in Seq(BOOLEAN) /\ Len(<<page.onscreen>>) = 1
        /\ <<page.onscreen>>[1] = page.onscreen /\ <<page.onscreen>> # << >>
    BY DEF PageType
  <1>2. /\ Scene!Observed \in PageType /\ Scene!Observed.entries = <<page.onscreen>>
        /\ Scene!Observed.onscreen = page.onscreen
        /\ Scene!Observed.hidden = page.hidden /\ Scene!Observed.still = page.still
    BY <1>1 DEF Scene!Observed, PageType
  <1> QED
    BY <1>1, <1>2

LEMMA SceneStays ==
    ASSUME SceneIsTrue, NEW s, NEW p \in PageType, Good(s, p),
           scene' = s, page' = p, kind' = kind
    PROVE  SceneIsTrue'
  BY DEF SceneIsTrue, Good, FrameIsSeen, NoneIsLost, OnlyMappingPreviews, MineIsTold,
         Scene!MayDraw

\* Other data, or another state of its movement, as seen as before, and a frame asked for.
LEMMA ChangedAndRequested ==
    ASSUME SceneIsTrue, Scene!Live, NEW s \in SceneType,
           s.life = scene.life, s.frame = scene.frame, s.visible = scene.visible,
           s.lost => scene.lost, OnlyMappingPreviews(s),
           NEW p \in PageType, p.hidden = page.hidden, p.entries = page.entries,
           p.onscreen = page.onscreen,
           scene' = Scene!RequestRender(s, p.hidden), page' = p, kind' = kind
    PROVE  SceneIsTrue'
  <1>1. s.life = "live" /\ FrameIsSeen(s, p) /\ MineIsTold(s, p)
    BY LiveScene DEF Good, FrameIsSeen, MineIsTold
  <1>2. Good(Scene!RequestRender(s, p.hidden), p)
    BY <1>1, Requested
  <1> QED
    BY <1>2, SceneStays

\* A camera begins anew.
LEMMA BegunAnew ==
    ASSUME SceneIsTrue, kind \in Scene!Cameras, NEW n \in Nat, scene' = Scene!New(n, TRUE),
           page' = Scene!Observed, kind' = kind
    PROVE  SceneIsTrue'
  <1>1. Scene!Observed \in PageType
    BY ObservedTypes DEF SceneIsTrue
  <1>2. Good(Scene!New(n, TRUE), Scene!Observed)
    BY <1>1, NewIsGood
  <1> QED
    BY <1>1, <1>2, SceneStays

\* A renderer that gave way to the plain picture.
LEMMA GivenWay ==
    ASSUME SceneIsTrue, scene' \in SceneType, scene'.life = "fallback",
           page' \in PageType, kind' = kind
    PROVE  SceneIsTrue'
  BY DEF SceneIsTrue, Good

LEMMA MountStep ==
    ASSUME SceneIsTrue, Scene!Mount
    PROVE  SceneIsTrue'
  <1> DEFINE s == Scene!New(1, kind # "mine")
             p == Scene!Observed
  <1>1. kind' = kind /\ page' = p /\ scene' = Scene!RequestRender(s, page.hidden)
    BY DEF Scene!Mount
  <1>2. p \in PageType /\ p.hidden = page.hidden /\ (\A v : MineIsTold(v, p))
    BY ObservedTypes DEF SceneIsTrue, MineIsTold
  <1>3. s \in SceneType /\ s.life = "live" /\ FrameIsSeen(s, p) /\ OnlyMappingPreviews(s)
    BY <1>2, NewIsGood
  <1> HIDE DEF s, p
  <1>4. Good(Scene!RequestRender(s, p.hidden), p)
    BY <1>2, <1>3, Requested
  <1> QED
    BY <1>1, <1>2, <1>4 DEF SceneIsTrue, Good, FrameIsSeen, NoneIsLost, OnlyMappingPreviews,
                            MineIsTold, Scene!MayDraw

LEMMA SceneUpdateStep ==
    ASSUME SceneAssumption, SceneIsTrue, Scene!Update
    PROVE  SceneIsTrue'
  <1>1. PICK v \in 1 .. Versions :
          \/ kind = "lidar" /\ Scene!UpdateLidar(v)
          \/ kind = "mapping" /\ Scene!UpdateMapping(v)
          \/ kind = "mine" /\ Scene!UpdateMine(v)
          \/ kind \in Scene!Cameras /\ Scene!UpdateCamera(v)
    BY DEF Scene!Update
  <1>2. v \in Nat /\ scene \in SceneType /\ Scene!Live /\ page \in PageType
        /\ OnlyMappingPreviews(scene) /\ kind' = kind
        /\ page' = IF kind \in Scene!Cameras THEN Scene!Observed ELSE page
    BY LiveScene DEF Scene!Update, SceneAssumption, SceneIsTrue, Good
  <1>3. kind \notin Scene!Cameras => page' = page
    BY <1>2
  <1>4. CASE kind = "lidar" /\ Scene!UpdateLidar(v)
    <2> DEFINE s == [scene EXCEPT !.latest = v, !.settled = TRUE]
    <2>1. s \in SceneType /\ s.life = scene.life /\ s.frame = scene.frame
          /\ s.visible = scene.visible /\ s.lost = scene.lost /\ s.preview = scene.preview
      BY <1>2 DEF SceneType
    <2>2. scene' = Scene!RequestRender(s, page.hidden)
      BY <1>4 DEF Scene!UpdateLidar
    <2> HIDE DEF s
    <2> QED
      BY <1>2, <1>3, <1>4, <2>1, <2>2, ChangedAndRequested DEF OnlyMappingPreviews, Scene!Cameras
  <1>5. CASE kind = "mapping" /\ Scene!UpdateMapping(v)
    <2>1. PICK b \in BOOLEAN :
            scene' = Scene!RequestRender(
              [scene EXCEPT !.latest = v, !.settled = FALSE, !.animating = TRUE, !.preview = b],
              page.hidden)
      BY <1>5 DEF Scene!UpdateMapping
    <2> DEFINE s == [scene EXCEPT !.latest = v, !.settled = FALSE, !.animating = TRUE,
                                  !.preview = b]
    <2>2. s \in SceneType /\ s.life = scene.life /\ s.frame = scene.frame
          /\ s.visible = scene.visible /\ s.lost = scene.lost
      BY <1>2 DEF SceneType
    <2>3. scene' = Scene!RequestRender(s, page.hidden)
      BY <2>1
    <2> HIDE DEF s
    <2> QED
      BY <1>2, <1>3, <1>5, <2>2, <2>3, ChangedAndRequested DEF OnlyMappingPreviews, Scene!Cameras
  <1>6. CASE kind = "mine" /\ Scene!UpdateMine(v)
    <2>1. PICK b \in BOOLEAN, e \in BOOLEAN :
            scene' = Scene!RequestRender(
              [scene EXCEPT !.latest = v, !.settled = b, !.eased = e], page.hidden)
      BY <1>6 DEF Scene!UpdateMine
    <2> DEFINE s == [scene EXCEPT !.latest = v, !.settled = b, !.eased = e]
    <2>2. s \in SceneType /\ s.life = scene.life /\ s.frame = scene.frame
          /\ s.visible = scene.visible /\ s.lost = scene.lost /\ s.preview = scene.preview
      BY <1>2 DEF SceneType
    <2>3. scene' = Scene!RequestRender(s, page.hidden)
      BY <2>1
    <2> HIDE DEF s
    <2> QED
      BY <1>2, <1>3, <1>6, <2>2, <2>3, ChangedAndRequested DEF OnlyMappingPreviews, Scene!Cameras
  <1>7. CASE kind \in Scene!Cameras /\ Scene!UpdateCamera(v)
    <2>1. Scene!Observed \in PageType /\ page' = Scene!Observed
      BY <1>2, <1>7, ObservedTypes
    <2>2. CASE scene.lost
      <3>1. scene' = [scene EXCEPT !.life = "fallback", !.frame = FALSE]
        BY <1>7, <2>2 DEF Scene!UpdateCamera
      <3>2. scene' \in SceneType /\ scene'.life = "fallback"
        BY <1>2, <3>1 DEF SceneType
      <3> QED
        BY <1>2, <2>1, <3>2, GivenWay
    <2>3. CASE ~scene.lost
      <3> DEFINE new == Scene!New(v, TRUE)
                 s == [new EXCEPT !.drawn = scene.drawn]
      <3>1. scene' = s
        BY <1>7, <2>3 DEF Scene!UpdateCamera
      <3>2. new \in SceneType /\ ~new.frame /\ ~new.preview /\ ~new.loaded
        BY <1>2, NewIsGood
      <3> HIDE DEF new
      <3>3. s \in SceneType /\ ~s.frame /\ ~s.preview /\ ~s.loaded
        BY <1>2, <3>2 DEF SceneType
      <3> HIDE DEF s
      <3>4. Good(s, Scene!Observed)
        BY <1>7, <3>3 DEF Good, FrameIsSeen, NoneIsLost, OnlyMappingPreviews, MineIsTold,
                          Scene!MayDraw, Scene!Cameras
      <3> QED
        BY <1>2, <2>1, <3>1, <3>4, SceneStays
    <2> QED
      BY <2>2, <2>3
  <1> QED
    BY <1>1, <1>4, <1>5, <1>6, <1>7

LEMMA DisturbedStep ==
    ASSUME SceneIsTrue, Scene!Disturbed
    PROVE  SceneIsTrue'
  <1> DEFINE s == [scene EXCEPT !.drawn = 0]
  <1>1. scene \in SceneType /\ Scene!Live /\ page \in PageType /\ OnlyMappingPreviews(scene)
        /\ kind' = kind /\ page' = page /\ scene' = Scene!RequestRender(s, page.hidden)
    BY LiveScene DEF Scene!Disturbed, SceneIsTrue, Good
  <1>2. s \in SceneType /\ s.life = scene.life /\ s.frame = scene.frame
        /\ s.visible = scene.visible /\ s.lost = scene.lost /\ s.preview = scene.preview
    BY <1>1 DEF SceneType
  <1> HIDE DEF s
  <1> QED
    BY <1>1, <1>2, ChangedAndRequested DEF OnlyMappingPreviews

LEMMA ScrolledStep ==
    ASSUME SceneIsTrue, Scene!Scrolled
    PROVE  SceneIsTrue'
  <1> DEFINE es == Append(page.entries, ~page.onscreen)
  <1>1. page \in PageType /\ Good(scene, page)
        /\ page' = [page EXCEPT !.onscreen = ~@, !.entries = Append(@, ~page.onscreen)]
        /\ kind' = kind /\ scene' = scene
    BY LiveScene DEF Scene!Scrolled, SceneIsTrue
  <1>2. es \in Seq(BOOLEAN) /\ es # << >> /\ es[Len(es)] = ~page.onscreen
    <2>1. PICK b \in BOOLEAN : b = ~page.onscreen
      BY <1>1 DEF PageType
    <2>2. page.entries \in Seq(BOOLEAN)
      BY <1>1 DEF PageType
    <2> QED
      BY <2>1, <2>2, AppendProperties, LenProperties
  <1>3. page' = [page EXCEPT !.onscreen = ~page.onscreen, !.entries = es]
    BY <1>1 DEF PageType
  <1> HIDE DEF es
  <1>4. page' \in PageType /\ page'.entries = es /\ page'.onscreen = ~page.onscreen
        /\ page'.hidden = page.hidden /\ page'.still = page.still
    BY <1>1, <1>2, <1>3 DEF PageType
  <1>5. PICK p : p = page'
    OBVIOUS
  <1>6. Good(scene, p)
    BY <1>1, <1>2, <1>4, <1>5 DEF Good, FrameIsSeen, NoneIsLost, OnlyMappingPreviews, MineIsTold
  <1> QED
    BY <1>1, <1>4, <1>5, <1>6, SceneStays

LEMMA ObserveStep ==
    ASSUME SceneIsTrue, Scene!Observe
    PROVE  SceneIsTrue'
  <1> DEFINE s == [scene EXCEPT !.visible = Scene!Seen(page.entries)]
             p == [page EXCEPT !.entries = << >>]
  <1>1. scene \in SceneType /\ scene.life = "live" /\ Good(scene, page) /\ page \in PageType
        /\ page.entries # << >> /\ kind' = kind /\ page' = p
        /\ scene' = Scene!Woken(s, page.hidden)
    BY LiveScene DEF Scene!Observe, SceneIsTrue
  <1>2. page.entries \in Seq(BOOLEAN)
    BY <1>1 DEF PageType
  <1>3. Len(page.entries) \in 1 .. Len(page.entries)
    BY <1>1, <1>2, EmptySeq
  <1>4. Scene!Seen(page.entries) \in BOOLEAN
    BY <1>1, <1>2, <1>3, ElementOfSeq, HeadTailProperties DEF Scene!Seen
  <1>5. kind = "mine" => Scene!Seen(page.entries) = page.onscreen
    BY <1>1 DEF Good, MineIsTold, Scene!Seen
  <1>6. p \in PageType /\ p.entries = << >> /\ p.onscreen = page.onscreen
        /\ p.hidden = page.hidden
    <2>1. << >> \in Seq(BOOLEAN)
      BY EmptySeq
    <2> QED
      BY <1>1, <2>1 DEF PageType
  <1>7. s \in SceneType /\ s.life = "live" /\ s.visible = Scene!Seen(page.entries)
        /\ s.preview = scene.preview
    BY <1>1, <1>4 DEF SceneType
  <1> HIDE DEF s, p
  <1>8. OnlyMappingPreviews(s) /\ MineIsTold(s, p)
    BY <1>1, <1>5, <1>6, <1>7 DEF Good, OnlyMappingPreviews, MineIsTold
  <1>9. Good(Scene!Woken(s, p.hidden), p)
    BY <1>6, <1>7, <1>8, WokenIsGood
  <1> QED
    BY <1>1, <1>6, <1>9, SceneStays

LEMMA VisibilityChangedStep ==
    ASSUME SceneIsTrue, Scene!VisibilityChanged
    PROVE  SceneIsTrue'
  <1> DEFINE p == [page EXCEPT !.hidden = ~page.hidden]
  <1>1. page \in PageType /\ kind' = kind /\ page' = p
        /\ scene' = IF Scene!Live THEN Scene!Woken(scene, ~page.hidden) ELSE scene
    BY DEF Scene!VisibilityChanged, SceneIsTrue, PageType
  <1>2. p \in PageType /\ p.entries = page.entries /\ p.onscreen = page.onscreen
        /\ p.hidden = ~page.hidden
    BY <1>1 DEF PageType
  <1> HIDE DEF p
  <1>3. CASE Scene!Live
    <2>1. scene \in SceneType /\ scene.life = "live" /\ OnlyMappingPreviews(scene)
          /\ MineIsTold(scene, p)
      BY <1>2, <1>3, LiveScene DEF Good, MineIsTold
    <2>2. Good(Scene!Woken(scene, p.hidden), p)
      BY <1>2, <2>1, WokenIsGood
    <2> QED
      BY <1>1, <1>2, <1>3, <2>2, SceneStays
  <1>4. CASE ~Scene!Live
    <2>1. scene' = scene /\ kind' = kind /\ page' \in PageType
      BY <1>1, <1>2, <1>4
    <2> QED
      BY <1>4, <2>1 DEF SceneIsTrue, Good, Scene!Live
  <1> QED
    BY <1>3, <1>4

LEMMA PauseTypes ==
    ASSUME NEW s \in SceneType
    PROVE  /\ Scene!Pause(s) \in SceneType /\ ~Scene!Pause(s).frame
           /\ Scene!Pause(s).life = s.life /\ Scene!Pause(s).lost = s.lost
           /\ Scene!Pause(s).visible = s.visible /\ Scene!Pause(s).preview = s.preview
  BY DEF SceneType, Scene!Pause

LEMMA ContextLostStep ==
    ASSUME SceneIsTrue, Scene!ContextLost
    PROVE  SceneIsTrue'
  <1> DEFINE t == [scene EXCEPT !.lost = TRUE]
             s == Scene!Pause(t)
  <1>1. scene \in SceneType /\ Good(scene, page) /\ scene.life = "live" /\ page \in PageType
        /\ kind' = kind /\ page' = page /\ scene' = s
    BY LiveScene DEF Scene!ContextLost, SceneIsTrue
  <1>2. t \in SceneType /\ t.life = "live" /\ t.lost /\ t.visible = scene.visible
        /\ t.preview = scene.preview
    BY <1>1 DEF SceneType
  <1> HIDE DEF t
  <1>3. s \in SceneType /\ ~s.frame /\ s.lost /\ s.visible = scene.visible
        /\ s.preview = scene.preview
    BY <1>2, PauseTypes
  <1> HIDE DEF s
  <1>4. Good(s, page)
    BY <1>1, <1>3 DEF Good, FrameIsSeen, NoneIsLost, OnlyMappingPreviews, MineIsTold
  <1> QED
    BY <1>1, <1>4, SceneStays

LEMMA ContextRestoredStep ==
    ASSUME SceneIsTrue, Scene!ContextRestored
    PROVE  SceneIsTrue'
  <1>1. scene \in SceneType /\ Good(scene, page) /\ Scene!Live /\ page \in PageType
        /\ scene.lost /\ kind' = kind
    BY LiveScene DEF Scene!ContextRestored, SceneIsTrue
  <1>2. CASE kind \in Scene!Cameras
    <2>1. scene.latest \in Nat
      BY <1>1 DEF SceneType
    <2>2. scene' = Scene!New(scene.latest, TRUE) /\ page' = Scene!Observed
      BY <1>2 DEF Scene!ContextRestored
    <2> QED
      BY <1>1, <1>2, <2>1, <2>2, BegunAnew
  <1>3. CASE kind \notin Scene!Cameras
    <2> DEFINE s == [scene EXCEPT !.lost = FALSE, !.drawn = 0]
    <2>1. s \in SceneType /\ s.life = scene.life /\ s.frame = scene.frame
          /\ s.visible = scene.visible /\ ~s.lost /\ s.preview = scene.preview
      BY <1>1 DEF SceneType
    <2>2. scene' = Scene!RequestRender(s, page.hidden) /\ page' = page
      BY <1>3 DEF Scene!ContextRestored
    <2> HIDE DEF s
    <2>3. OnlyMappingPreviews(s)
      BY <1>1, <2>1, LiveScene DEF Good, OnlyMappingPreviews
    <2> QED
      BY <1>1, <2>1, <2>2, <2>3, ChangedAndRequested
  <1> QED
    BY <1>2, <1>3

LEMMA ImageLoadedStep ==
    ASSUME SceneIsTrue, Scene!ImageLoaded
    PROVE  SceneIsTrue'
  <1> DEFINE s == [scene EXCEPT !.loaded = TRUE]
  <1>1. scene \in SceneType /\ Scene!Live /\ page \in PageType /\ OnlyMappingPreviews(scene)
        /\ kind' = kind /\ page' = page /\ scene' = Scene!RequestRender(s, page.hidden)
    BY LiveScene DEF Scene!ImageLoaded, SceneIsTrue, Good
  <1>2. s \in SceneType /\ s.life = scene.life /\ s.frame = scene.frame
        /\ s.visible = scene.visible /\ s.lost = scene.lost /\ s.preview = scene.preview
    BY <1>1 DEF SceneType
  <1> HIDE DEF s
  <1> QED
    BY <1>1, <1>2, ChangedAndRequested DEF OnlyMappingPreviews

LEMMA ImageFailsStep ==
    ASSUME SceneIsTrue, Scene!ImageFails
    PROVE  SceneIsTrue'
  <1> DEFINE t == Scene!Pause(scene)
  <1>1. scene \in SceneType /\ page' \in PageType /\ kind' = kind
        /\ scene' = [t EXCEPT !.life = "fallback"]
    BY LiveScene DEF Scene!ImageFails, SceneIsTrue
  <1>2. t \in SceneType
    BY <1>1, PauseTypes
  <1> HIDE DEF t
  <1>3. scene' \in SceneType /\ scene'.life = "fallback"
    BY <1>1, <1>2 DEF SceneType
  <1> QED
    BY <1>1, <1>3, GivenWay

LEMMA SourceChangesStep ==
    ASSUME SceneIsTrue, Scene!SourceChanges
    PROVE  SceneIsTrue'
  <1>1. kind \in Scene!Cameras /\ kind' = kind /\ page' = Scene!Observed
        /\ Scene!Observed \in PageType
    BY ObservedTypes DEF Scene!SourceChanges, SceneIsTrue
  <1>2. CASE Scene!Live /\ scene.lost
    <2>1. scene \in SceneType /\ scene' = [scene EXCEPT !.life = "fallback", !.frame = FALSE]
      BY <1>2, LiveScene DEF Scene!SourceChanges
    <2>2. scene' \in SceneType /\ scene'.life = "fallback"
      BY <2>1 DEF SceneType
    <2> QED
      BY <1>1, <2>2, GivenWay
  <1>3. CASE ~(Scene!Live /\ scene.lost)
    <2>1. scene' = Scene!New(1, TRUE)
      BY <1>3 DEF Scene!SourceChanges
    <2> QED
      BY <1>1, <2>1, BegunAnew
  <1> QED
    BY <1>2, <1>3

LEMMA MotionChangesStep ==
    ASSUME SceneIsTrue, Scene!MotionChanges
    PROVE  SceneIsTrue'
  <1> DEFINE p == [page EXCEPT !.still = ~page.still]
  <1>1. page \in PageType /\ kind' = kind /\ page' = p
        /\ scene' = IF Scene!Live THEN Scene!RequestRender(scene, page.hidden) ELSE scene
    BY DEF Scene!MotionChanges, SceneIsTrue, PageType
  <1>2. p \in PageType /\ p.hidden = page.hidden /\ p.entries = page.entries
        /\ p.onscreen = page.onscreen
    BY <1>1 DEF PageType
  <1> HIDE DEF p
  <1>3. CASE Scene!Live
    <2>1. scene \in SceneType /\ OnlyMappingPreviews(scene)
      BY <1>3, LiveScene DEF Good
    <2>2. scene' = Scene!RequestRender(scene, p.hidden)
      BY <1>1, <1>2, <1>3
    <2> QED
      BY <1>1, <1>2, <1>3, <2>1, <2>2, ChangedAndRequested
  <1>4. CASE ~Scene!Live
    <2>1. scene' = scene /\ page' \in PageType
      BY <1>1, <1>2, <1>4
    <2> QED
      BY <1>1, <1>4, <2>1 DEF SceneIsTrue, Good, Scene!Live
  <1> QED
    BY <1>3, <1>4

\* A frame that is drawn: nothing is out of date, and what still moves asks for another.
LEMMA DrawnIsGood ==
    ASSUME SceneIsTrue, Scene!Live, scene.frame, NEW s \in SceneType,
           s.life = scene.life, s.visible = scene.visible, s.lost = scene.lost,
           s.preview = scene.preview, s.loaded = scene.loaded, s.drawn = s.latest, ~s.frame,
           \/ /\ s.settled /\ (s.preview => page.still) /\ scene' = s
           \/ scene' = Scene!RequestRender(s, page.hidden),
           page' = page, kind' = kind
    PROVE  SceneIsTrue'
  <1>1. page \in PageType /\ Good(scene, page) /\ scene.life = "live"
    BY LiveScene DEF SceneIsTrue
  <1>2. FrameIsSeen(s, page) /\ OnlyMappingPreviews(s) /\ MineIsTold(s, page)
    BY <1>1 DEF Good, FrameIsSeen, OnlyMappingPreviews, MineIsTold
  <1>3. CASE scene' = s /\ s.settled /\ (s.preview => page.still)
    <2>1. Good(s, page)
      BY <1>1, <1>2, <1>3 DEF Good, NoneIsLost
    <2> QED
      BY <1>1, <1>3, <2>1, SceneStays
  <1>4. CASE scene' = Scene!RequestRender(s, page.hidden)
    <2>1. Good(Scene!RequestRender(s, page.hidden), page)
      BY <1>1, <1>2, Requested
    <2> QED
      BY <1>1, <1>4, <2>1, SceneStays
  <1> QED
    BY <1>3, <1>4

LEMMA RenderIsKept ==
    ASSUME SceneIsTrue, Scene!Render
    PROVE  SceneIsTrue'
  <1>1. scene \in SceneType /\ Good(scene, page) /\ Scene!Live /\ scene.frame
        /\ page \in PageType /\ OnlyMappingPreviews(scene) /\ kind' = kind /\ page' = page
    BY LiveScene DEF Scene!Render, SceneIsTrue, Good, Scene!Live
  <1>2. CASE UNCHANGED scene
    BY <1>1, <1>2, SceneStays
  <1>3. CASE kind = "lidar" /\ Scene!RenderLidar
    <2> DEFINE s == [Scene!Drawn(scene) EXCEPT !.settled = TRUE]
    <2>1. s \in SceneType /\ s.life = scene.life /\ s.visible = scene.visible
          /\ s.lost = scene.lost /\ s.preview = scene.preview /\ s.loaded = scene.loaded
          /\ s.drawn = s.latest /\ ~s.frame /\ s.settled
      BY <1>1 DEF SceneType, Scene!Drawn
    <2>2. scene' = s
      BY <1>3 DEF Scene!RenderLidar
    <2> HIDE DEF s
    <2> QED
      BY <1>1, <1>3, <2>1, <2>2, DrawnIsGood DEF OnlyMappingPreviews
  <1>4. CASE kind = "mapping" /\ Scene!RenderMapping /\ scene' # scene
    <2> DEFINE s == [Scene!Drawn(scene) EXCEPT !.settled = page.still \/ ~scene.animating,
                                               !.recent = TRUE]
    <2>1. page.still \in BOOLEAN
      BY <1>1 DEF PageType
    <2>2. s \in SceneType /\ s.life = scene.life /\ s.visible = scene.visible
          /\ s.lost = scene.lost /\ s.preview = scene.preview /\ s.loaded = scene.loaded
          /\ s.drawn = s.latest /\ ~s.frame /\ s.settled = (page.still \/ ~scene.animating)
      BY <1>1, <2>1 DEF SceneType, Scene!Drawn
    <2>3. scene' = IF ~page.still /\ (scene.preview \/ scene.animating)
                   THEN Scene!RequestRender(s, page.hidden) ELSE s
      BY <1>4 DEF Scene!RenderMapping
    <2> HIDE DEF s
    <2>4. \/ scene' = Scene!RequestRender(s, page.hidden)
          \/ s.settled /\ (s.preview => page.still) /\ scene' = s
      BY <2>2, <2>3
    <2> QED
      BY <1>1, <2>2, <2>4, DrawnIsGood
  <1>5. CASE kind = "mine" /\ Scene!RenderMine /\ scene' # scene
    <2>1. PICK b \in IF scene.settled THEN {TRUE} ELSE BOOLEAN,
               e \in IF scene.settled /\ scene.eased THEN {TRUE} ELSE BOOLEAN :
            LET moved == [Scene!Drawn(scene) EXCEPT !.settled = b, !.eased = e,
                                                    !.recent = TRUE] IN
            scene' = IF scene.settled THEN moved ELSE Scene!RequestRender(moved, page.hidden)
      BY <1>5 DEF Scene!RenderMine
    <2> DEFINE s == [Scene!Drawn(scene) EXCEPT !.settled = b, !.eased = e, !.recent = TRUE]
    <2>2. b \in BOOLEAN /\ e \in BOOLEAN /\ (scene.settled => b)
      BY <2>1
    <2>3. s \in SceneType /\ s.life = scene.life /\ s.visible = scene.visible
          /\ s.lost = scene.lost /\ s.preview = scene.preview /\ s.loaded = scene.loaded
          /\ s.drawn = s.latest /\ ~s.frame /\ s.settled = b
      <3> DEFINE d == Scene!Drawn(scene)
      <3>1. d \in SceneType /\ d.life = scene.life /\ d.visible = scene.visible
            /\ d.lost = scene.lost /\ d.preview = scene.preview /\ d.loaded = scene.loaded
            /\ d.drawn = d.latest /\ ~d.frame
        BY <1>1 DEF SceneType, Scene!Drawn
      <3> HIDE DEF d
      <3>2. s = [d EXCEPT !.settled = b, !.eased = e, !.recent = TRUE]
        BY DEF d
      <3> HIDE DEF s
      <3> QED
        BY <2>2, <3>1, <3>2 DEF SceneType
    <2>4. scene' = IF scene.settled THEN s ELSE Scene!RequestRender(s, page.hidden)
      BY <2>1
    <2> HIDE DEF s
    <2>5. ~s.preview
      BY <1>1, <1>5, <2>3 DEF OnlyMappingPreviews
    <2> QED
      BY <1>1, <2>2, <2>3, <2>4, <2>5, DrawnIsGood
  <1>6. CASE kind \in Scene!Cameras /\ Scene!RenderCamera /\ scene.lost
    <2> DEFINE s == [scene EXCEPT !.frame = FALSE]
    <2>1. s \in SceneType /\ ~s.frame /\ s.lost /\ s.preview = scene.preview
          /\ scene' = s
      BY <1>1, <1>6 DEF SceneType, Scene!RenderCamera
    <2>2. kind # "mine"
      BY <1>6 DEF Scene!Cameras
    <2> HIDE DEF s
    <2>3. Good(s, page)
      BY <1>1, <2>1, <2>2
         DEF Good, FrameIsSeen, NoneIsLost, OnlyMappingPreviews, MineIsTold
    <2> QED
      BY <1>1, <2>1, <2>3, SceneStays
  <1>7. CASE kind \in Scene!Cameras /\ Scene!RenderCamera /\ ~scene.lost
    <2> DEFINE s == [Scene!Drawn(scene) EXCEPT !.settled = kind # "video"]
    <2>1. s \in SceneType /\ s.life = scene.life /\ s.visible = scene.visible
          /\ s.lost = scene.lost /\ s.preview = scene.preview /\ s.loaded = scene.loaded
          /\ s.drawn = s.latest /\ ~s.frame /\ s.settled = (kind # "video")
      BY <1>1 DEF SceneType, Scene!Drawn
    <2>2. scene' = IF kind = "video" THEN Scene!RequestRender(s, page.hidden) ELSE s
      BY <1>7 DEF Scene!RenderCamera
    <2> HIDE DEF s
    <2>3. ~s.preview
      BY <1>1, <1>7, <2>1 DEF OnlyMappingPreviews, Scene!Cameras
    <2> QED
      BY <1>1, <2>1, <2>2, <2>3, DrawnIsGood
  <1> QED
    BY <1>2, <1>3, <1>4, <1>5, <1>6, <1>7 DEF Scene!Render

LEMMA TimePassesStep ==
    ASSUME SceneIsTrue, Scene!TimePasses
    PROVE  SceneIsTrue'
  <1>1. scene \in SceneType /\ Good(scene, page) /\ page \in PageType
        /\ kind' = kind /\ page' = page
        /\ \/ scene' = [scene EXCEPT !.recent = FALSE]
           \/ scene' = [scene EXCEPT !.animating = FALSE]
    BY LiveScene DEF Scene!TimePasses, SceneIsTrue
  <1>2. PICK s : s = scene'
    OBVIOUS
  <1>3. s \in SceneType /\ s.life = scene.life /\ s.frame = scene.frame
        /\ s.visible = scene.visible /\ s.lost = scene.lost /\ s.preview = scene.preview
        /\ s.drawn = scene.drawn /\ s.latest = scene.latest /\ s.settled = scene.settled
        /\ s.loaded = scene.loaded
    BY <1>1, <1>2 DEF SceneType
  <1>4. Good(s, page)
    BY <1>1, <1>3 DEF Good, FrameIsSeen, NoneIsLost, OnlyMappingPreviews, MineIsTold,
                      Scene!MayDraw
  <1> QED
    BY <1>1, <1>2, <1>4, SceneStays

LEMMA DisposeStep ==
    ASSUME SceneIsTrue, Scene!Dispose
    PROVE  SceneIsTrue'
  <1>1. << >> \in Seq(BOOLEAN)
    BY EmptySeq
  <1> QED
    BY <1>1 DEF Scene!Dispose, SceneIsTrue, PageType

\* A picture out of date or on its way, and seen, has a frame coming
\* (docs/haul-simulation.md 178-181): the invariant it rests on.
THEOREM SceneInvariant == DashboardSpec => []SceneInv
  <1>1. DashboardInit => SceneInv
    <2>1. << >> \in Seq(BOOLEAN)
      BY EmptySeq
    <2> SUFFICES ASSUME Scene!SceneInit
                 PROVE  SceneIsTrue
      BY DEF DashboardInit, SceneInv
    <2>2. page \in PageType
      BY <2>1 DEF PageType, Scene!SceneInit
    <2> QED
      BY <2>2 DEF SceneIsTrue, Scene!SceneInit
  <1>2. SceneInv /\ [DashboardNext]_dashboardVars => SceneInv'
    <2> SUFFICES ASSUME SceneInv, [DashboardNext]_dashboardVars, part' = "scene"
                 PROVE  SceneIsTrue'
      BY DEF SceneInv
    <2>1. CASE DashboardNext
      <3>1. part = "scene" /\ Scene!SceneNext
        BY <2>1 DEF DashboardNext, OthersUnchanged
      <3>2. SceneIsTrue
        BY <3>1 DEF SceneInv
      <3> QED
        BY <3>1, <3>2, SceneAssumption, MountStep, SceneUpdateStep, DisturbedStep, ScrolledStep,
           ObserveStep, VisibilityChangedStep, ContextLostStep, ContextRestoredStep,
           ImageLoadedStep, ImageFailsStep, SourceChangesStep, MotionChangesStep, RenderIsKept,
           TimePassesStep, DisposeStep
           DEF Scene!SceneNext
    <2>2. CASE UNCHANGED dashboardVars
      <3>1. part = "scene" /\ UNCHANGED sceneVars
        BY <2>2 DEF dashboardVars
      <3> QED
        BY <3>1 DEF sceneVars, SceneInv, SceneIsTrue, Good, FrameIsSeen, NoneIsLost,
                    OnlyMappingPreviews, MineIsTold, Scene!MayDraw
    <2> QED
      BY <2>1, <2>2
  <1> QED
    BY <1>1, <1>2, PTL DEF DashboardSpec

\* No wake-up of a picture is lost, and none is drawn unseen, whatever happens in
\* whatever order (lidarRenderer.ts, mappingRenderer.ts, mineRenderer.ts,
\* IRCameraCanvas.tsx).
THEOREM NoWakeUpIsLost == DashboardSpec => []SceneIsAwake
  <1>1. SceneInv => SceneIsAwake
    <2> SUFFICES ASSUME SceneInv, part = "scene", Scene!Live
                 PROVE  Scene!SceneIsAwake
      BY DEF SceneIsAwake, Scene!SceneIsAwake
    <2>1. Good(scene, page) /\ scene.life = "live"
      BY LiveScene DEF SceneInv
    <2> QED
      BY <2>1 DEF Good, FrameIsSeen, NoneIsLost, MineIsTold, Scene!SceneIsAwake, Scene!Moving
  <1> QED
    BY <1>1, SceneInvariant, PTL

-----------------------------------------------------------------------------
(* The supervisor's list of vehicles, supervisorViewModel.ts *)

\* Each vehicle of the world has one row, from the first source that speaks of it.
RowOf(w, v) ==
  IF v \in DOMAIN w.placed THEN Fleet!PoseRow(w, v)
  ELSE IF v \in DOMAIN w.peers THEN Fleet!PeerRow(w, v) ELSE Fleet!DirectRow(w, v)

Known(w) == DOMAIN w.placed \cup DOMAIN w.peers \cup DOMAIN w.direct

LEMMA OneRowEach ==
    ASSUME NEW w
    PROVE  /\ Fleet!Rows(w) = {RowOf(w, v) : v \in Known(w)}
           /\ \A v : RowOf(w, v).id = v
           /\ \A r \in Fleet!Rows(w) : r.id \in Known(w) /\ r = RowOf(w, r.id)
           /\ \A v \in Known(w) : RowOf(w, v) \in Fleet!Rows(w)
           /\ Fleet!Ids(w) = Known(w)
  <1> DEFINE Posed == DOMAIN w.placed  Heard == DOMAIN w.peers  Direct == DOMAIN w.direct
  <1>1. \A v : RowOf(w, v).id = v
    BY DEF RowOf, Fleet!PoseRow, Fleet!PeerRow, Fleet!DirectRow, Fleet!Row
  <1>2. /\ \A v \in Posed : Fleet!PoseRow(w, v) = RowOf(w, v)
        /\ \A v \in Heard \ Posed : Fleet!PeerRow(w, v) = RowOf(w, v)
        /\ \A v \in Direct \ (Posed \cup Heard) : Fleet!DirectRow(w, v) = RowOf(w, v)
    BY DEF RowOf
  <1>3. Fleet!Rows(w) = {RowOf(w, v) : v \in Known(w)}
    <2>1. /\ {Fleet!PoseRow(w, v) : v \in Posed} = {RowOf(w, v) : v \in Posed}
          /\ {Fleet!PeerRow(w, v) : v \in Heard \ Posed} = {RowOf(w, v) : v \in Heard \ Posed}
          /\ {Fleet!DirectRow(w, v) : v \in Direct \ (Posed \cup Heard)}
               = {RowOf(w, v) : v \in Direct \ (Posed \cup Heard)}
      BY <1>2
    <2>2. Known(w) = Posed \cup (Heard \ Posed) \cup (Direct \ (Posed \cup Heard))
      BY DEF Known
    <2> QED
      BY <2>1, <2>2 DEF Fleet!Rows
  <1>4. /\ \A r \in Fleet!Rows(w) : r.id \in Known(w) /\ r = RowOf(w, r.id)
        /\ \A v \in Known(w) : RowOf(w, v) \in Fleet!Rows(w)
    BY <1>1, <1>3
  <1>5. Fleet!Ids(w) = Known(w)
    BY <1>1, <1>3 DEF Fleet!Ids
  <1> QED
    BY <1>1, <1>3, <1>4, <1>5

LEMMA PartialTypes ==
    ASSUME NEW S, NEW T, NEW f \in Fleet!PartialOn(S, T)
    PROVE  DOMAIN f \subseteq S /\ \A u \in DOMAIN f : f[u] \in T
  <1>1. PICK D \in SUBSET S : f \in [D -> T]
    BY DEF Fleet!PartialOn
  <1> QED
    BY <1>1

LEMMA FleetFields ==
    ASSUME NEW w \in Fleet!FleetType
    PROVE  /\ w.emergency \in Fleet!Levels
           /\ DOMAIN w.placed \subseteq Vehicles /\ DOMAIN w.peers \subseteq Vehicles
           /\ DOMAIN w.direct \subseteq Vehicles
           /\ \A u \in DOMAIN w.placed : w.placed[u] \in BOOLEAN
           /\ \A u \in DOMAIN w.peers : w.peers[u].emergency \in Fleet!Levels
  <1> DEFINE Heard == [emergency : Fleet!Levels, link : Fleet!Links]
  <1>1. /\ w.emergency \in Fleet!Levels
        /\ w.placed \in Fleet!PartialOn(Vehicles, BOOLEAN)
        /\ w.peers \in Fleet!PartialOn(Vehicles, Heard)
        /\ w.direct \in Fleet!PartialOn(Vehicles, BOOLEAN)
    BY DEF Fleet!FleetType
  <1>2. \A u \in DOMAIN w.peers : w.peers[u] \in Heard
    <2> HIDE DEF Heard
    <2> QED
      BY <1>1, PartialTypes
  <1>3. DOMAIN w.placed \subseteq Vehicles /\ \A u \in DOMAIN w.placed : w.placed[u] \in BOOLEAN
    BY <1>1, PartialTypes
  <1>4. DOMAIN w.peers \subseteq Vehicles
    BY <1>1, PartialTypes
  <1>5. DOMAIN w.direct \subseteq Vehicles
    BY <1>1, PartialTypes
  <1> QED
    BY <1>1, <1>2, <1>3, <1>4, <1>5

LEMMA RowTypes ==
    ASSUME FleetAssumption, NEW w \in Fleet!FleetType, NEW v \in Known(w)
    PROVE  /\ v \in Vehicles /\ v \in Nat \ {0}
           /\ RowOf(w, v).tone \in Fleet!Tones
           /\ RowOf(w, v).placed \in BOOLEAN
  <1>1. /\ DOMAIN w.placed \subseteq Vehicles /\ DOMAIN w.peers \subseteq Vehicles
        /\ DOMAIN w.direct \subseteq Vehicles
        /\ \A u \in DOMAIN w.placed : w.placed[u] \in BOOLEAN
    BY FleetFields
  <1>2. v \in Vehicles /\ v \in Nat \ {0}
    BY <1>1 DEF Known, FleetAssumption
  <1>3. \A e, l, b : Fleet!VehicleTone(w, e, l, b) \in Fleet!Tones
    BY DEF Fleet!VehicleTone, Fleet!Tones
  <1>4. RowOf(w, v).tone \in Fleet!Tones
    BY <1>3 DEF RowOf, Fleet!PoseRow, Fleet!PeerRow, Fleet!DirectRow, Fleet!Row, Fleet!Tones
  <1>5. RowOf(w, v).placed \in BOOLEAN
    BY <1>1 DEF RowOf, Fleet!PoseRow, Fleet!PeerRow, Fleet!DirectRow, Fleet!Row
  <1> QED
    BY <1>2, <1>4, <1>5

LEMMA SameCardinality == \A S : Fleet!Cardinality(S) = Cardinality(S)
  BY DEF Fleet!Cardinality, Cardinality

\* counts: as many rows as vehicles.
LEMMA RowsAreCounted ==
    ASSUME FleetAssumption, NEW w \in Fleet!FleetType
    PROVE  Fleet!Count(w, Fleet!Tones) = Fleet!Cardinality(Known(w))
  <1>1. \A r \in Fleet!Rows(w) : r.tone \in Fleet!Tones
    BY OneRowEach, RowTypes
  <1>2. {r \in Fleet!Rows(w) : r.tone \in Fleet!Tones} = Fleet!Rows(w)
    BY <1>1
  <1>3. IsFiniteSet(Known(w))
    <2>1. Known(w) \in SUBSET Vehicles
      BY RowTypes
    <2> QED
      BY <2>1, FS_Subset DEF FleetAssumption
  <1> DEFINE f == [v \in Known(w) |-> RowOf(w, v)]
  <1>4. f \in Bijection(Known(w), Fleet!Rows(w))
    <2>1. f \in [Known(w) -> Fleet!Rows(w)]
      BY OneRowEach
    <2>2. \A u, v \in Known(w) : f[u] = f[v] => u = v
      BY OneRowEach
    <2>3. \A r \in Fleet!Rows(w) : \E v \in Known(w) : f[v] = r
      BY OneRowEach
    <2> HIDE DEF f
    <2>4. f \in Injection(Known(w), Fleet!Rows(w))
      BY <2>1, <2>2 DEF Injection, IsInjective
    <2>5. f \in Surjection(Known(w), Fleet!Rows(w))
      BY <2>1, <2>3 DEF Surjection
    <2> QED
      BY <2>4, <2>5 DEF Bijection
  <1>5. ExistsBijection(Known(w), Fleet!Rows(w))
    BY <1>4 DEF ExistsBijection
  <1>6. Cardinality(Fleet!Rows(w)) = Cardinality(Known(w))
    BY <1>3, <1>5, FS_Bijection
  <1> QED
    BY <1>2, <1>6, SameCardinality DEF Fleet!Count

\* Nothing is called nominal that a source contradicts.
LEMMA NominalIsSound ==
    ASSUME NEW w \in Fleet!PublishedFleets, NEW v \in Known(w), RowOf(w, v).tone = "nominal"
    PROVE  ~Fleet!Wrong(w, v)
  <1>1. /\ w \in Fleet!FleetType /\ w.emergency \in Fleet!Levels
        /\ \A u \in DOMAIN w.peers : w.peers[u].emergency \in Fleet!Levels
        /\ Primary \in DOMAIN w.peers => Primary \in DOMAIN w.placed
    BY FleetFields DEF Fleet!PublishedFleets
  <1>2. ASSUME NEW e, NEW l, NEW b, Fleet!VehicleTone(w, e, l, b) = "nominal"
        PROVE  /\ l \notin {"LOST", "DEGRADED"} /\ (e \in Fleet!Levels => e = "SAFE")
               /\ b => ~Fleet!Degraded(w) /\ ~Fleet!Dim(w)
    BY <1>2 DEF Fleet!VehicleTone, Fleet!Levels
  <1>3. CASE v \in DOMAIN w.placed
    <2> DEFINE heard     == v \in DOMAIN w.peers
               emergency == IF v = Primary THEN w.emergency
                            ELSE IF heard THEN w.peers[v].emergency ELSE "none"
               lnk       == IF heard THEN w.peers[v].link ELSE "none"
    <2>1. RowOf(w, v).tone = Fleet!VehicleTone(w, emergency, lnk, v = Primary)
      BY <1>3 DEF RowOf, Fleet!PoseRow, Fleet!Row
    <2> HIDE DEF emergency, lnk
    <2>2. /\ lnk \notin {"LOST", "DEGRADED"}
          /\ emergency \in Fleet!Levels => emergency = "SAFE"
          /\ v = Primary => ~Fleet!Degraded(w) /\ ~Fleet!Dim(w)
      BY <2>1 DEF Fleet!VehicleTone, Fleet!Levels
    <2> QED
      BY <1>1, <2>2 DEF Fleet!Wrong, emergency, lnk
  <1>4. CASE v \in DOMAIN w.peers \ DOMAIN w.placed
    <2>1. RowOf(w, v).tone = Fleet!VehicleTone(w, w.peers[v].emergency, w.peers[v].link, FALSE)
      BY <1>4 DEF RowOf, Fleet!PeerRow, Fleet!Row
    <2>2. v # Primary
      BY <1>1, <1>4
    <2> QED
      BY <1>1, <1>2, <1>4, <2>1, <2>2 DEF Fleet!Wrong
  <1>5. CASE v \notin DOMAIN w.placed \cup DOMAIN w.peers
    BY <1>5 DEF RowOf, Fleet!DirectRow, Fleet!Row
  <1> QED
    BY <1>3, <1>4, <1>5

\* The exceptions: those of each vehicle, and those of the vehicle's own sensors and sight.
LEMMA IssueParts ==
    ASSUME NEW w
    PROVE  /\ Fleet!VehicleIssues(w) \subseteq Fleet!Issues(w)
           /\ Fleet!Degraded(w) \/ Fleet!Dim(w) => \E i \in Fleet!Issues(w) : i.vehicle = Primary
  <1>1. PICK s : s = IF w.healthy = 0 THEN "CRITICAL" ELSE "WARNING"
    OBVIOUS
  <1>2. PICK v : v = IF w.visibility = "VERY_LOW" THEN "CRITICAL" ELSE "WARNING"
    OBVIOUS
  <1>3. PICK hauls : hauls = Fleet!When(w.mode = "SIMULATED" /\ w.haul = "encounter",
                                        Fleet!Issue("HAUL", "WARNING", Primary))
    OBVIOUS
  <1>4. Fleet!Issues(w)
          = Fleet!VehicleIssues(w)
              \cup Fleet!When(Fleet!Degraded(w), Fleet!Issue("SENSOR", s, Primary))
              \cup Fleet!When(Fleet!Dim(w), Fleet!Issue("VISIBILITY", v, Primary))
              \cup hauls
    BY <1>1, <1>2, <1>3 DEF Fleet!Issues
  <1>5. \A k, l : Fleet!Issue(k, l, Primary).vehicle = Primary
    BY DEF Fleet!Issue
  <1> QED
    BY <1>4, <1>5 DEF Fleet!When

\* What is wrong with a vehicle is among the exceptions.
LEMMA WrongIsAnIssue ==
    ASSUME NEW w \in Fleet!FleetType, NEW v \in Known(w), Fleet!Wrong(w, v)
    PROVE  \E i \in Fleet!Issues(w) : i.vehicle = v
  <1>1. /\ w.emergency \in Fleet!Levels
        /\ \A u \in DOMAIN w.peers : w.peers[u].emergency \in Fleet!Levels
    BY FleetFields
  <1>2. ASSUME RowOf(w, v).emergency \notin {"none", "SAFE"}
               \/ RowOf(w, v).link \in {"LOST", "DEGRADED"}
        PROVE  \E i \in Fleet!Issues(w) : i.vehicle = v
    <2>1. RowOf(w, v) \in Fleet!Rows(w) /\ RowOf(w, v).id = v
      BY OneRowEach
    <2>2. \E i \in Fleet!IssuesOf(RowOf(w, v)) : i.vehicle = v
      BY <1>2, <2>1 DEF Fleet!IssuesOf, Fleet!Issue
    <2>3. Fleet!IssuesOf(RowOf(w, v)) \subseteq Fleet!Issues(w)
      BY <2>1, IssueParts DEF Fleet!VehicleIssues
    <2> QED
      BY <2>2, <2>3
  <1>3. CASE v = Primary /\ Fleet!Degraded(w)
    BY <1>3, IssueParts
  <1>4. CASE v = Primary /\ Fleet!Dim(w)
    BY <1>4, IssueParts
  <1>5. CASE v = Primary /\ v \in DOMAIN w.placed /\ w.emergency # "SAFE"
    <2>1. RowOf(w, v).emergency = w.emergency
      BY <1>5 DEF RowOf, Fleet!PoseRow, Fleet!Row
    <2> QED
      BY <1>1, <1>2, <1>5, <2>1 DEF Fleet!Levels
  <1>6. CASE v \in DOMAIN w.peers /\ w.peers[v].link \in {"LOST", "DEGRADED"}
    <2>1. RowOf(w, v).link = w.peers[v].link
      BY <1>6 DEF RowOf, Fleet!PoseRow, Fleet!PeerRow, Fleet!Row
    <2> QED
      BY <1>2, <1>6, <2>1
  <1>7. CASE v \in DOMAIN w.peers \ {Primary} /\ w.peers[v].emergency # "SAFE"
    <2>1. RowOf(w, v).emergency = w.peers[v].emergency
      BY <1>7 DEF RowOf, Fleet!PoseRow, Fleet!PeerRow, Fleet!Row
    <2> QED
      BY <1>1, <1>2, <1>7, <2>1 DEF Fleet!Levels
  <1> QED
    BY <1>3, <1>4, <1>5, <1>6, <1>7 DEF Fleet!Wrong

-----------------------------------------------------------------------------
(* The vehicle inspected and the markers of the road map, TwinMap.tsx *)

StandardShape(c) ==
  \E on, held, over, once :
    c = [kind |-> "standard", road |-> on, trucks |-> held, panned |-> over, fitted |-> once]
MineShape(c) == \E tilt, way : c = [kind |-> "mine", tilted |-> tilt, route |-> way]

\* A road map that some render has left, and no other map, holds markers.
Drawable(c) ==
  /\ StandardShape(c) /\ c.road \in BOOLEAN
  /\ IF c.road THEN \E S : OneMarkerEach(c.trucks, S) ELSE c.trucks = NoMarkers

MarkersAgree(c, w, v) ==
  c.road =>
    /\ OneMarkerEach(c.trucks, Fleet!PlacedIds(w))
    /\ \A l \in DOMAIN c.trucks.layers : c.trucks.layers[l] = Fleet!Marker(w, l.of, v)
    /\ c.panned = IF v \in Fleet!PlacedIds(w) THEN v ELSE 0

ChartIsTrue(c, w, v) ==
  \/ c = Fleet!NoChart
  \/ MineShape(c)
  \/ Drawable(c) /\ MarkersAgree(c, w, v)

LEMMA FleetMarkers ==
    /\ Fleet!NoMarkers = NoMarkers
    /\ \A m : Fleet!CleanedUp(m) = NoMarkers
    /\ \A m, looks : Fleet!ReconciledAndPainted(m, looks) = ReconciledAndPainted(m, looks)
    /\ \A m, S : Fleet!OneMarkerEach(m, S) <=> OneMarkerEach(m, S)
  <1>1. Fleet!NoMarkers = NoMarkers /\ \A m : Fleet!CleanedUp(m) = NoMarkers
    BY DEF Fleet!CleanedUp, Fleet!NoMarkers, NoMarkers
  <1>2. \A m, looks : Fleet!Added(m, looks) = Added(m, looks)
    BY DEF Fleet!Added, Added, Fleet!NewLayer, NewLayer
  <1>3. \A m, looks : Fleet!Repainted(m, looks) = Repainted(m, looks)
    BY DEF Fleet!Repainted, Repainted
  <1>4. \A m, S : Fleet!Pruned(m, S) = Pruned(m, S)
    BY DEF Fleet!Pruned, Pruned
  <1>5. \A m, S : Fleet!OneMarkerEach(m, S) <=> OneMarkerEach(m, S)
    BY DEF Fleet!OneMarkerEach, OneMarkerEach
  <1> QED
    BY <1>1, <1>2, <1>3, <1>4, <1>5 DEF Fleet!ReconciledAndPainted, ReconciledAndPainted

\* The effects of StandardTwinMap reconcile what the last render left with this one.
LEMMA DrawnIsTrue ==
    ASSUME NEW c, Drawable(c), NEW w, NEW v
    PROVE  ChartIsTrue(Fleet!Drawn(c, w, v), w, v)
  <1>1. CASE ~c.road
    <2>1. Fleet!Drawn(c, w, v) = c
      BY <1>1 DEF Fleet!Drawn
    <2> QED
      BY <1>1, <2>1 DEF ChartIsTrue, MarkersAgree
  <1>2. CASE c.road
    <2> DEFINE looks == Fleet!Paints(w, v)
               t == ReconciledAndPainted(c.trucks, looks)
               p == IF v \in Fleet!PlacedIds(w) THEN v ELSE 0
    <2>1. PICK f : Fleet!Drawn(c, w, v) = [c EXCEPT !.trucks = t, !.panned = p, !.fitted = f]
      BY <1>2, FleetMarkers DEF Fleet!Drawn
    <2>2. /\ DOMAIN looks = Fleet!PlacedIds(w)
          /\ \A u \in Fleet!PlacedIds(w) : looks[u] = Fleet!Marker(w, u, v)
      BY DEF Fleet!Paints
    <2> HIDE DEF looks
    <2>3. OneMarkerEach(t, DOMAIN looks) /\ \A l \in DOMAIN t.layers : t.layers[l] = looks[l.of]
      BY <1>2, PaintedIsOfNow DEF Drawable
    <2> HIDE DEF t, p
    <2>4. \A l \in DOMAIN t.layers : t.layers[l] = Fleet!Marker(w, l.of, v)
      BY <2>2, <2>3 DEF OneMarkerEach
    <2>5. PICK on, held, over, once :
            c = [kind |-> "standard", road |-> on, trucks |-> held, panned |-> over,
                 fitted |-> once]
      BY DEF Drawable, StandardShape
    <2>6. on \in BOOLEAN
      BY <2>5 DEF Drawable
    <2>7. PICK d : d = [kind |-> "standard", road |-> on, trucks |-> t, panned |-> p,
                        fitted |-> f]
      OBVIOUS
    <2>8. Fleet!Drawn(c, w, v) = d
      BY <2>1, <2>5, <2>7
    <2>9. StandardShape(d) /\ d.road = on /\ d.trucks = t /\ d.panned = p
      BY <2>7 DEF StandardShape
    <2>10. on
      BY <1>2, <2>5
    <2>11. Drawable(d)
      BY <2>3, <2>6, <2>9, <2>10 DEF Drawable
    <2>12. MarkersAgree(d, w, v)
      BY <2>2, <2>3, <2>4, <2>9 DEF MarkersAgree, p
    <2> QED
      BY <2>8, <2>11, <2>12 DEF ChartIsTrue
  <1> QED
    BY <1>1, <1>2 DEF Drawable

\* The road map and the other take each other's place, without their markers.
LEMMA SwitchedIsTrue ==
    ASSUME NEW c, Drawable(c), NEW w, NEW v
    PROVE  ChartIsTrue(Fleet!Switched(c, w, v), w, v)
  <1>1. PICK on, held, over, once :
          c = [kind |-> "standard", road |-> on, trucks |-> held, panned |-> over,
               fitted |-> once]
    BY DEF Drawable, StandardShape
  <1>2. CASE c.road
    <2>1. PICK d : d = [c EXCEPT !.road = FALSE, !.trucks = NoMarkers, !.panned = 0,
                                 !.fitted = FALSE]
      OBVIOUS
    <2>2. Fleet!Switched(c, w, v) = d
      BY <1>2, <2>1, FleetMarkers DEF Fleet!Switched
    <2>4. d = [kind |-> "standard", road |-> FALSE, trucks |-> NoMarkers, panned |-> 0,
               fitted |-> FALSE]
      BY <1>1, <2>1
    <2>3. Drawable(d) /\ d.road = FALSE
      BY <2>4 DEF Drawable, StandardShape
    <2> QED
      BY <2>2, <2>3 DEF ChartIsTrue, MarkersAgree
  <1>3. CASE ~c.road
    <2>1. held = NoMarkers
      BY <1>1, <1>3 DEF Drawable
    <2>2. PICK d : d = [c EXCEPT !.road = TRUE, !.fitted = FALSE]
      OBVIOUS
    <2>3. Fleet!Switched(c, w, v) = Fleet!Drawn(d, w, v)
      BY <1>3, <2>2 DEF Fleet!Switched
    <2>5. d = [kind |-> "standard", road |-> TRUE, trucks |-> NoMarkers, panned |-> over,
               fitted |-> FALSE]
      BY <1>1, <2>1, <2>2
    <2>4. Drawable(d)
      BY <2>5, NoMarkersForNobody DEF Drawable, StandardShape
    <2> QED
      BY <2>3, <2>4, DrawnIsTrue
  <1> QED
    BY <1>2, <1>3

LEMMA NextChartIsTrue ==
    ASSUME ChartIsTrue(chart, fleet, selected), NEW w, NEW c, NEW sec, NEW v, NEW b \in BOOLEAN,
           NEW m \in {chart, Fleet!NoChart}
    PROVE  ChartIsTrue(Fleet!NextChart(m, w, c, sec, v, b), w, v)
  <1> DEFINE n == Fleet!NextChart(m, w, c, sec, v, b)
             base == IF b /\ m.kind = "standard" THEN m ELSE Fleet!NewStandard
  <1>1. CASE n = Fleet!NoChart
    BY <1>1 DEF ChartIsTrue
  <1>2. MineShape(Fleet!NewMine)
    BY DEF MineShape, Fleet!NewMine
  <1>3. m.kind = "mine" => MineShape(m)
    BY DEF ChartIsTrue, Drawable, StandardShape, MineShape, Fleet!NoChart
  <1>8. Drawable(Fleet!NewStandard)
    BY FleetMarkers DEF Drawable, StandardShape, Fleet!NewStandard
  <1>9. m.kind = "standard" => Drawable(m)
    BY DEF ChartIsTrue, MineShape, Fleet!NoChart
  <1>4. Drawable(base)
    BY <1>8, <1>9
  <1>5. \/ n = Fleet!NoChart \/ n = Fleet!NewMine \/ n = Fleet!Drawn(base, w, v)
        \/ (n = m /\ m.kind = "mine")
    BY DEF Fleet!NextChart
  <1> HIDE DEF n, base
  <1>6. CASE n = Fleet!Drawn(base, w, v)
    <2>1. ChartIsTrue(Fleet!Drawn(base, w, v), w, v)
      BY <1>4, DrawnIsTrue
    <2> QED
      BY <1>6, <2>1 DEF n
  <1>7. CASE n = Fleet!NewMine \/ (n = m /\ m.kind = "mine")
    BY <1>2, <1>3, <1>7 DEF ChartIsTrue, n
  <1> QED
    BY <1>1, <1>5, <1>6, <1>7 DEF n

-----------------------------------------------------------------------------
(* The panel of the advisories, V2XPanel.tsx *)

PostType  == [at : {"sent", "taken", "done", "failed"}, mine : BOOLEAN]
PanelType == [tab : {"none", "links", "advisories", "log"}, busy : BOOLEAN,
              notice : {"none", "info", "success", "error"}]

\* A POST of this panel that has not ended.
UnderWay(i) == sends[i].mine /\ sends[i].at \in {"sent", "taken"}

PanelIsTrue ==
  /\ sends \in Seq(PostType) /\ panel \in PanelType /\ timers \in Nat
  /\ \A i, j \in DOMAIN sends : UnderWay(i) /\ UnderWay(j) => i = j
  /\ panel.busy <=> \E i \in DOMAIN sends : UnderWay(i)
  /\ panel.notice = "success" => \E i \in DOMAIN sends : sends[i].mine /\ sends[i].at = "done"
  /\ panel.notice \in {"success", "error"} => timers > 0

\* A panel that has just come or gone: what earlier POSTs do, nobody sees.
LEMMA PanelAnew ==
    ASSUME sends \in Seq(PostType), sends' = Fleet!Orphaned, timers' = 0,
           panel' \in {Fleet!NewPanel, Fleet!NoPanel}
    PROVE  PanelIsTrue'
  <1> DEFINE n == Len(sends)
  <1>1. n \in Nat /\ DOMAIN sends = 1 .. n /\ \A i \in 1 .. n : sends[i] \in PostType
    BY LenProperties, ElementOfSeq
  <1>2. sends' = [i \in 1 .. n |-> [sends[i] EXCEPT !.mine = FALSE]]
    BY <1>1 DEF Fleet!Orphaned
  <1> HIDE DEF n
  <1>3. \A i \in 1 .. n : sends'[i] \in PostType /\ sends'[i].mine = FALSE
    <2> SUFFICES ASSUME NEW i \in 1 .. n
                 PROVE  sends'[i] \in PostType /\ sends'[i].mine = FALSE
      OBVIOUS
    <2>1. PICK p \in PostType : p = sends[i]
      BY <1>1
    <2>2. sends'[i] = [p EXCEPT !.mine = FALSE]
      BY <1>2, <2>1
    <2> QED
      BY <2>2 DEF PostType
  <1>4. DOMAIN sends' = 1 .. n /\ sends' \in [1 .. n -> PostType]
    BY <1>2, <1>3
  <1>5. sends' \in Seq(PostType)
    BY <1>1, <1>4, SeqDef
  <1>6. /\ panel' \in PanelType /\ ~panel'.busy /\ panel'.notice = "none"
    <2>1. CASE panel' = Fleet!NewPanel
      <3>1. Fleet!NewPanel \in PanelType /\ ~Fleet!NewPanel.busy /\ Fleet!NewPanel.notice = "none"
        BY DEF Fleet!NewPanel, PanelType
      <3> QED
        BY <2>1, <3>1
    <2>2. CASE panel' = Fleet!NoPanel
      <3>1. Fleet!NoPanel \in PanelType /\ ~Fleet!NoPanel.busy /\ Fleet!NoPanel.notice = "none"
        BY DEF Fleet!NoPanel, PanelType
      <3> QED
        BY <2>2, <3>1
    <2> QED
      BY <2>1, <2>2
  <1> QED
    BY <1>3, <1>4, <1>5, <1>6 DEF PanelIsTrue, UnderWay

LEMMA PanelStays ==
    ASSUME PanelIsTrue, UNCHANGED <<panel, sends, timers>>
    PROVE  PanelIsTrue'
  BY DEF PanelIsTrue, UnderWay

LEMMA PanelShows ==
    ASSUME PanelIsTrue, NEW w, NEW c, NEW sec, NEW v, Fleet!Show(w, c, sec, v)
    PROVE  PanelIsTrue'
  <1>1. \/ UNCHANGED <<panel, sends, timers>>
        \/ /\ sends' = Fleet!Orphaned /\ timers' = 0
           /\ panel' \in {Fleet!NewPanel, Fleet!NoPanel}
    BY DEF Fleet!Show
  <1>2. sends \in Seq(PostType)
    BY DEF PanelIsTrue
  <1> QED
    BY <1>1, <1>2, PanelStays, PanelAnew

LEMMA ChooseTabStep ==
    ASSUME PanelIsTrue, Fleet!ChooseTab
    PROVE  PanelIsTrue'
  <1>1. PICK tab \in {"links", "advisories", "log"} : panel' = [panel EXCEPT !.tab = tab]
    BY DEF Fleet!ChooseTab
  <1>2. panel' \in PanelType /\ panel'.busy = panel.busy /\ panel'.notice = panel.notice
    BY <1>1 DEF PanelIsTrue, PanelType
  <1>3. sends' = sends /\ timers' = timers
    BY DEF Fleet!ChooseTab
  <1> QED
    BY <1>2, <1>3 DEF PanelIsTrue, UnderWay

LEMMA BroadcastStep ==
    ASSUME PanelIsTrue, Fleet!Broadcast
    PROVE  PanelIsTrue'
  <1> DEFINE n == Len(sends)
             p == [at |-> "sent", mine |-> TRUE]
  <1>1. n \in Nat /\ DOMAIN sends = 1 .. n /\ sends \in Seq(PostType)
    BY LenProperties DEF PanelIsTrue
  <1>2. ~panel.busy /\ panel' = [panel EXCEPT !.busy = TRUE, !.notice = "info"]
        /\ sends' = Append(sends, p) /\ timers' = timers
    BY DEF Fleet!Broadcast
  <1>3. p \in PostType
    BY DEF PostType
  <1>4. /\ sends' \in Seq(PostType) /\ DOMAIN sends' = 1 .. (n + 1)
        /\ \A i \in 1 .. n : sends'[i] = sends[i]
        /\ sends'[n + 1] = p
    BY <1>1, <1>2, <1>3, AppendProperties, LenProperties
  <1> HIDE DEF n
  <1>5. \A i \in 1 .. n : ~UnderWay(i)
    BY <1>1, <1>2 DEF PanelIsTrue
  <1>6. \A i \in 1 .. n + 1 : UnderWay(i)' <=> i = n + 1
    BY <1>1, <1>4, <1>5 DEF UnderWay
  <1>7. panel' \in PanelType /\ panel'.busy /\ panel'.notice = "info"
    BY <1>2 DEF PanelIsTrue, PanelType
  <1>8. timers' \in Nat
    BY <1>2 DEF PanelIsTrue
  <1>9. n + 1 \in DOMAIN sends'
    BY <1>1, <1>4
  <1> QED
    BY <1>4, <1>6, <1>7, <1>8, <1>9 DEF PanelIsTrue

\* One POST goes on, which changes where it is and not whose it is.
LEMMA PostMoves ==
    ASSUME PanelIsTrue, NEW i \in DOMAIN sends, NEW s \in {"sent", "taken", "done", "failed"},
           sends' = [sends EXCEPT ![i].at = s]
    PROVE  /\ sends' \in Seq(PostType) /\ DOMAIN sends' = DOMAIN sends
           /\ \A j \in DOMAIN sends : sends'[j].mine = sends[j].mine
           /\ \A j \in DOMAIN sends : sends'[j].at = IF j = i THEN s ELSE sends[j].at
  <1>1. DOMAIN sends = 1 .. Len(sends) /\ sends \in Seq(PostType)
        /\ \A j \in DOMAIN sends : sends[j] \in PostType
    BY LenProperties, ElementOfSeq DEF PanelIsTrue
  <1> DEFINE p == [sends[i] EXCEPT !.at = s]
  <1>2. p \in PostType /\ p.at = s /\ p.mine = sends[i].mine
    BY <1>1 DEF PostType
  <1>3. sends' = [sends EXCEPT ![i] = p]
    OBVIOUS
  <1> HIDE DEF p
  <1>4. i \in 1 .. Len(sends)
    BY <1>1
  <1>5. /\ sends' \in Seq(PostType) /\ Len(sends') = Len(sends)
        /\ \A j \in 1 .. Len(sends) : sends'[j] = IF j = i THEN p ELSE sends[j]
    BY <1>1, <1>2, <1>3, <1>4, ExceptSeq
  <1>6. DOMAIN sends' = DOMAIN sends
    BY <1>3
  <1> QED
    BY <1>1, <1>2, <1>5, <1>6

LEMMA AdvisoryTakenStep ==
    ASSUME PanelIsTrue, Fleet!AdvisoryTaken
    PROVE  PanelIsTrue'
  <1>1. PICK i \in DOMAIN sends : sends[i].at = "sent" /\ sends' = [sends EXCEPT ![i].at = "taken"]
    BY DEF Fleet!AdvisoryTaken
  <1>2. /\ sends' \in Seq(PostType) /\ DOMAIN sends' = DOMAIN sends
        /\ \A j \in DOMAIN sends : sends'[j].mine = sends[j].mine
        /\ \A j \in DOMAIN sends : sends'[j].at = IF j = i THEN "taken" ELSE sends[j].at
    BY <1>1, PostMoves
  <1>3. panel' = panel /\ timers' = timers
    BY DEF Fleet!AdvisoryTaken
  <1>4. \A j \in DOMAIN sends : UnderWay(j)' <=> UnderWay(j)
    BY <1>1, <1>2 DEF UnderWay
  <1>5. \A j \in DOMAIN sends : sends[j].at = "done" => sends'[j].at = "done"
    BY <1>1, <1>2
  <1> QED
    BY <1>2, <1>3, <1>4, <1>5 DEF PanelIsTrue

\* An end of a POST is shown by the panel that sent it, and by no other.
LEMMA SettleStep ==
    ASSUME PanelIsTrue, NEW i \in DOMAIN sends, sends[i].at \in {"sent", "taken"},
           NEW ok \in BOOLEAN, ok => sends[i].at = "taken", Fleet!Settle(i, ok)
    PROVE  PanelIsTrue'
  <1> DEFINE s == IF sends[i].at = "taken" THEN "done" ELSE "failed"
  <1>1. sends' = [sends EXCEPT ![i].at = s]
    BY DEF Fleet!Settle
  <1>2. s \in {"done", "failed"} /\ (ok => s = "done")
    OBVIOUS
  <1>10. s \in {"sent", "taken", "done", "failed"}
    BY <1>2
  <1> HIDE DEF s
  <1>3. /\ sends' \in Seq(PostType) /\ DOMAIN sends' = DOMAIN sends
        /\ \A j \in DOMAIN sends : sends'[j].mine = sends[j].mine
        /\ \A j \in DOMAIN sends : sends'[j].at = IF j = i THEN s ELSE sends[j].at
    BY <1>1, <1>10, PostMoves
  <1>4. \A j \in DOMAIN sends : UnderWay(j)' <=> UnderWay(j) /\ j # i
    BY <1>2, <1>3 DEF UnderWay
  <1>5. \A j \in DOMAIN sends : sends[j].at = "done" => sends'[j].at = "done"
    BY <1>3
  <1>6. CASE sends[i].mine
    <2>1. /\ panel' = [panel EXCEPT !.busy = FALSE, !.notice = IF ok THEN "success" ELSE "error"]
          /\ timers' = timers + 1
      BY <1>6 DEF Fleet!Settle
    <2>2. panel' \in PanelType /\ ~panel'.busy /\ panel'.notice = IF ok THEN "success" ELSE "error"
      BY <2>1 DEF PanelIsTrue, PanelType
    <2>3. \A j \in DOMAIN sends : ~UnderWay(j)'
      BY <1>4, <1>6 DEF PanelIsTrue, UnderWay
    <2>4. timers' \in Nat /\ timers' > 0
      BY <2>1 DEF PanelIsTrue
    <2>5. panel'.notice = "success" => sends'[i].mine /\ sends'[i].at = "done"
      BY <1>2, <1>3, <1>6, <2>2
    <2> QED
      BY <1>3, <2>2, <2>3, <2>4, <2>5 DEF PanelIsTrue
  <1>7. CASE ~sends[i].mine
    <2>1. panel' = panel /\ timers' = timers
      BY <1>7 DEF Fleet!Settle
    <2>2. \A j \in DOMAIN sends : UnderWay(j)' <=> UnderWay(j)
      BY <1>4, <1>7 DEF UnderWay
    <2> QED
      BY <1>3, <1>5, <2>1, <2>2 DEF PanelIsTrue
  <1> QED
    BY <1>6, <1>7

LEMMA NoticeTimerFiresStep ==
    ASSUME PanelIsTrue, Fleet!NoticeTimerFires
    PROVE  PanelIsTrue'
  <1>1. timers > 0 /\ timers' = timers - 1 /\ panel' = [panel EXCEPT !.notice = "none"]
        /\ sends' = sends
    BY DEF Fleet!NoticeTimerFires
  <1>2. panel' \in PanelType /\ panel'.busy = panel.busy /\ panel'.notice = "none"
    BY <1>1 DEF PanelIsTrue, PanelType
  <1>3. timers' \in Nat
    BY <1>1 DEF PanelIsTrue
  <1> QED
    BY <1>1, <1>2, <1>3 DEF PanelIsTrue, UnderWay

-----------------------------------------------------------------------------
(* The supervisor's view *)

SelectionIsTrue ==
  /\ fleet \in Fleets
  /\ ChartIsTrue(chart, fleet, selected)

FleetIsTrue == SelectionIsTrue /\ PanelIsTrue

FleetInv == part = "fleet" => FleetIsTrue

LEMMA FleetsAreTyped ==
    ASSUME FleetAssumption, NEW w \in Fleets
    PROVE  w \in Fleet!PublishedFleets /\ w \in Fleet!FleetType
  BY DEF FleetAssumption, Fleet!PublishedFleets

\* Whatever is shown next, with whatever selection.
LEMMA ShowStep ==
    ASSUME FleetAssumption, FleetIsTrue, NEW w \in Fleets, NEW c, NEW sec, NEW v,
           Fleet!Show(w, c, sec, v)
    PROVE  FleetIsTrue'
  <1> DEFINE stays == sec = section
  <1>1. /\ fleet' = w /\ selected' = v
        /\ chart' = Fleet!NextChart(chart, w, c, sec, v, stays)
    BY DEF Fleet!Show
  <1>2. ChartIsTrue(Fleet!NextChart(chart, w, c, sec, v, stays), w, v)
    <2>1. stays \in BOOLEAN
      OBVIOUS
    <2> HIDE DEF stays
    <2> QED
      BY <2>1, NextChartIsTrue DEF FleetIsTrue, SelectionIsTrue
  <1>3. SelectionIsTrue'
    BY <1>1, <1>2 DEF SelectionIsTrue
  <1>4. PanelIsTrue'
    BY PanelShows DEF FleetIsTrue
  <1> QED
    BY <1>3, <1>4 DEF FleetIsTrue

LEMMA SwitchMapStep ==
    ASSUME FleetIsTrue, Fleet!SwitchMap
    PROVE  FleetIsTrue'
  <1>1. UNCHANGED <<fleet, selected, panel, sends, timers>>
    BY DEF Fleet!SwitchMap
  <1>2. ChartIsTrue(chart, fleet, selected)
    BY DEF FleetIsTrue, SelectionIsTrue
  <1>3. CASE chart.kind = "standard" /\ chart' = Fleet!Switched(chart, fleet, selected)
    <2>1. Drawable(chart)
      BY <1>2, <1>3 DEF ChartIsTrue, MineShape, Fleet!NoChart
    <2>2. ChartIsTrue(chart', fleet, selected)
      BY <1>3, <2>1, SwitchedIsTrue
    <2> QED
      BY <1>1, <2>2, PanelStays DEF FleetIsTrue, SelectionIsTrue
  <1>4. CASE chart.kind = "mine" /\ (\/ chart' = [chart EXCEPT !.tilted = ~@]
                                    \/ chart' = [chart EXCEPT !.route = ~@])
    <2>1. MineShape(chart)
      BY <1>2, <1>4 DEF ChartIsTrue, Drawable, StandardShape, Fleet!NoChart
    <2>2. MineShape(chart')
      BY <1>4, <2>1 DEF MineShape
    <2>3. ChartIsTrue(chart', fleet, selected)
      BY <2>2 DEF ChartIsTrue
    <2> QED
      BY <1>1, <2>3, PanelStays DEF FleetIsTrue, SelectionIsTrue
  <1> QED
    BY <1>3, <1>4 DEF Fleet!SwitchMap

LEMMA ReopenedStep ==
    ASSUME FleetAssumption, FleetIsTrue, Fleet!Reopened
    PROVE  FleetIsTrue'
  <1> DEFINE sec == Fleet!FirstSection(fleet)
  <1>1. /\ fleet \in Fleets /\ fleet' = fleet /\ selected' = Primary
        /\ chart' = Fleet!NextChart(Fleet!NoChart, fleet, feed, sec, Primary, FALSE)
    BY DEF Fleet!Reopened, FleetIsTrue, SelectionIsTrue
  <1> HIDE DEF sec
  <1>2. ChartIsTrue(Fleet!NextChart(Fleet!NoChart, fleet, feed, sec, Primary, FALSE), fleet, Primary)
    BY NextChartIsTrue DEF FleetIsTrue, SelectionIsTrue
  <1>3. SelectionIsTrue'
    BY <1>1, <1>2 DEF SelectionIsTrue
  <1>4. PanelIsTrue'
    BY PanelAnew DEF Fleet!Reopened, FleetIsTrue, PanelIsTrue
  <1> QED
    BY <1>3, <1>4 DEF FleetIsTrue

LEMMA ViewStays ==
    ASSUME FleetIsTrue, Fleet!ViewUnchanged, PanelIsTrue'
    PROVE  FleetIsTrue'
  BY DEF FleetIsTrue, SelectionIsTrue, Fleet!ViewUnchanged

LEMMA FleetStep ==
    ASSUME FleetAssumption, FleetIsTrue, Fleet!FleetNext
    PROVE  FleetIsTrue'
  <1>1. PanelIsTrue /\ fleet \in Fleets
    BY DEF FleetIsTrue, SelectionIsTrue
  <1>2. CASE \E w \in Fleets : \E c, sec, v : Fleet!Show(w, c, sec, v)
    BY <1>2, ShowStep
  <1>3. CASE Fleet!SwitchMap
    BY <1>3, SwitchMapStep
  <1>4. CASE Fleet!Reopened
    BY <1>4, ReopenedStep
  <1>5. CASE Fleet!ChooseTab
    BY <1>1, <1>5, ChooseTabStep, ViewStays DEF Fleet!ChooseTab
  <1>6. CASE Fleet!Broadcast
    BY <1>1, <1>6, BroadcastStep, ViewStays DEF Fleet!Broadcast
  <1>7. CASE Fleet!AdvisoryTaken
    BY <1>1, <1>7, AdvisoryTakenStep, ViewStays DEF Fleet!AdvisoryTaken
  <1>8. CASE Fleet!AdvisoryAnswered
    <2>1. PICK i \in DOMAIN sends : sends[i].at = "taken" /\ Fleet!Settle(i, TRUE)
      BY <1>8 DEF Fleet!AdvisoryAnswered
    <2>2. PanelIsTrue'
      BY <1>1, <2>1, SettleStep
    <2> QED
      BY <2>1, <2>2, ViewStays DEF Fleet!Settle
  <1>9. CASE Fleet!AdvisoryFails
    <2>1. PICK i \in DOMAIN sends : sends[i].at \in {"sent", "taken"} /\ Fleet!Settle(i, FALSE)
      BY <1>9 DEF Fleet!AdvisoryFails
    <2>2. PanelIsTrue'
      BY <1>1, <2>1, SettleStep
    <2> QED
      BY <2>1, <2>2, ViewStays DEF Fleet!Settle
  <1>10. CASE Fleet!NoticeTimerFires
    BY <1>1, <1>10, NoticeTimerFiresStep, ViewStays DEF Fleet!NoticeTimerFires
  <1>11. Fleet!FleetShown \/ Fleet!FeedReported \/ Fleet!ChooseSection \/ Fleet!SelectVehicle
           \/ Fleet!OpenVehicle \/ Fleet!CorrectSelection
         => \E w \in Fleets : \E c, sec, v : Fleet!Show(w, c, sec, v)
    BY <1>1 DEF Fleet!FleetShown, Fleet!FeedReported, Fleet!ChooseSection, Fleet!SelectVehicle,
                Fleet!OpenVehicle, Fleet!CorrectSelection
  <1> QED
    BY <1>2, <1>3, <1>4, <1>5, <1>6, <1>7, <1>8, <1>9, <1>10, <1>11 DEF Fleet!FleetNext

LEMMA FleetInitIsTrue ==
    ASSUME FleetAssumption, Fleet!FleetInit
    PROVE  FleetIsTrue
  <1>1. /\ fleet \in Fleets
        /\ chart = Fleet!NoChart /\ panel = Fleet!NoPanel /\ sends = << >> /\ timers = 0
    BY DEF Fleet!FleetInit
  <1>2. SelectionIsTrue
    BY <1>1 DEF SelectionIsTrue, ChartIsTrue
  <1>3. << >> \in Seq(PostType) /\ DOMAIN << >> = {}
    BY EmptySeq
  <1>4. panel \in PanelType /\ ~panel.busy /\ panel.notice = "none"
    BY <1>1 DEF Fleet!NoPanel, PanelType
  <1>5. PanelIsTrue
    BY <1>1, <1>3, <1>4 DEF PanelIsTrue
  <1> QED
    BY <1>2, <1>5 DEF FleetIsTrue

\* The selection and its marker follow the world shown, and the panel its POSTs
\* (SupervisorDashboard.tsx, TwinMap.tsx, V2XPanel.tsx): the invariant they rest on.
THEOREM FleetInvariant == DashboardSpec => []FleetInv
  <1>1. DashboardInit => FleetInv
    BY FleetAssumption, FleetInitIsTrue DEF DashboardInit, FleetInv
  <1>2. FleetInv /\ [DashboardNext]_dashboardVars => FleetInv'
    <2> SUFFICES ASSUME FleetInv, [DashboardNext]_dashboardVars, part' = "fleet"
                 PROVE  FleetIsTrue'
      BY DEF FleetInv
    <2>1. CASE DashboardNext
      <3>1. part = "fleet" /\ Fleet!FleetNext
        BY <2>1 DEF DashboardNext, OthersUnchanged
      <3> QED
        BY <3>1, FleetAssumption, FleetStep DEF FleetInv
    <2>2. CASE UNCHANGED dashboardVars
      <3>1. part = "fleet" /\ UNCHANGED fleetVars
        BY <2>2 DEF dashboardVars
      <3> QED
        BY <3>1, PanelStays, ViewStays DEF fleetVars, FleetInv, FleetIsTrue, Fleet!ViewUnchanged
    <2> QED
      BY <2>1, <2>2
  <1> QED
    BY <1>1, <1>2, PTL DEF DashboardSpec

\* Every vehicle that any source names is listed once, none that a source contradicts is
\* called nominal, and what a vehicle reports wrong is an exception, for fleets of any
\* size (supervisorViewModel.ts).
THEOREM FleetIsListed == DashboardSpec => []FleetIsWhole
  <1>1. FleetInv => FleetIsWhole
    <2> SUFFICES ASSUME FleetInv, part = "fleet"
                 PROVE  Fleet!FleetIsWhole
      BY DEF FleetIsWhole
    <2>1. fleet \in Fleet!PublishedFleets /\ fleet \in Fleet!FleetType
      BY FleetAssumption, FleetsAreTyped DEF FleetInv, FleetIsTrue, SelectionIsTrue
    <2>2. Fleet!Ids(fleet) = Known(fleet)
          /\ Fleet!Count(fleet, Fleet!Tones) = Fleet!Cardinality(Known(fleet))
      BY <2>1, OneRowEach, RowsAreCounted, FleetAssumption
    <2>3. \A r \in Fleet!Rows(fleet) : r.tone = "nominal" => ~Fleet!Wrong(fleet, r.id)
      BY <2>1, OneRowEach, NominalIsSound
    <2>4. \A v \in Known(fleet) :
            Fleet!Wrong(fleet, v) => v \in {i.vehicle : i \in Fleet!Issues(fleet)}
      BY <2>1, WrongIsAnIssue
    <2> QED
      BY <2>2, <2>3, <2>4 DEF Fleet!FleetIsWhole, Known
  <1> QED
    BY <1>1, FleetInvariant, PTL

\* However vehicles come, go and lose their position, the road map has one marker for
\* each vehicle with a position and none it has lost hold of, with its tone of now and
\* marked if it is the one inspected; away from it no marker is held (TwinMap.tsx).
THEOREM RoadMapIsOfNow == DashboardSpec => []RoadMapMarksTheFleet
  <1>1. FleetInv => RoadMapMarksTheFleet
    <2> SUFFICES ASSUME SelectionIsTrue, chart.kind = "standard"
                 PROVE  IF chart.road
                        THEN /\ OneMarkerEach(chart.trucks, Fleet!PlacedIds(fleet))
                             /\ \A l \in DOMAIN chart.trucks.layers :
                                  chart.trucks.layers[l] = Fleet!Marker(fleet, l.of, selected)
                             /\ chart.panned = IF selected \in Fleet!PlacedIds(fleet)
                                               THEN selected ELSE 0
                        ELSE chart.trucks = NoMarkers
      BY FleetMarkers
         DEF FleetInv, FleetIsTrue, RoadMapMarksTheFleet, Fleet!RoadMapMarksTheFleet
    <2>1. Drawable(chart) /\ MarkersAgree(chart, fleet, selected)
      BY DEF SelectionIsTrue, ChartIsTrue, MineShape, Fleet!NoChart
    <2> QED
      BY <2>1 DEF Drawable, MarkersAgree
  <1> QED
    BY <1>1, FleetInvariant, PTL

\* The panel says sent only of an advisory the backend has, is busy exactly while a POST
\* of its own is under way, and takes every outcome away again (V2XPanel.tsx 70-116).
THEOREM NoticesAreOfOwnPosts == DashboardSpec => []NoticesAreTrue
  <1>1. FleetInv => NoticesAreTrue
    <2> SUFFICES ASSUME PanelIsTrue
                 PROVE  Fleet!NoticesAreTrue
      BY DEF FleetInv, FleetIsTrue, NoticesAreTrue
    <2> QED
      BY DEF PanelIsTrue, UnderWay, Fleet!NoticesAreTrue
  <1> QED
    BY <1>1, FleetInvariant, PTL

-----------------------------------------------------------------------------
(* The guard of the snapshots: worldStateSnapshot.ts *)

Kinds == Snapshots!Models!Published

\* An object of model i, each of its fields holding anything the model can.
Published(i, object) ==
  /\ i \in DOMAIN Kinds /\ DOMAIN object = DOMAIN Kinds[i]
  /\ \A f \in DOMAIN object : object[f] \in Kinds[i][f]

\* The same, but one field of it holds any kind there is.
Foreign(i, object) ==
  /\ i \in DOMAIN Kinds /\ i \in DOMAIN Snapshots!Guards
  /\ DOMAIN object = DOMAIN Kinds[i]
  /\ \A f \in DOMAIN object : object[f] \in Kinds[i][f] \cup Snapshots!BaseKinds

FixIsWhole(m) == m.interface = "GpsTelemetry" => Snapshots!WholeFix(m.object)

\* What a message says can be shown as the types it was declared with.
IsDeclared(m) ==
  LET doubtful == IF m.genuine THEN {} ELSE Snapshots!Trusted(m.interface)
      declared == Snapshots!Declared[m.interface]
  IN  /\ \A f \in (DOMAIN declared \cap DOMAIN m.object) \ doubtful :
           Snapshots!Fits(m.object[f], declared[f])
      /\ m.genuine => \A f \in DOMAIN declared \ DOMAIN m.object : "absent" \in declared[f]
      /\ FixIsWhole(m)

Accepted(m) == Snapshots!Accepts(m.interface, m.object)

\* What is sent: nothing, what passes and is declared, or what is declared if it passes.
Sound(m) == m.genuine = TRUE /\ Accepted(m) /\ IsDeclared(m)
Alien(m) == m.genuine = FALSE /\ (Accepted(m) => IsDeclared(m))

SnapshotIsJudged ==
  /\ received \in BOOLEAN /\ connected \in BOOLEAN
  /\ sent = Snapshots!None \/ Sound(sent) \/ Alien(sent)
       \/ (received /\ connected /\ shown = sent /\ sent.genuine = TRUE /\ IsDeclared(sent))
  /\ sent = Snapshots!None => received /\ shown = Snapshots!None
  /\ shown # Snapshots!None => received /\ shown = sent /\ IsDeclared(sent)
  /\ ~received => connected
  /\ received /\ sent # Snapshots!None /\ sent.genuine => connected /\ shown = sent

SnapshotInv == part = "snapshots" => SnapshotIsJudged

LEMMA TablesFit ==
    /\ Snapshots!ModelsFitTypes /\ Snapshots!GuardsFitModels
    /\ Snapshots!DefaultsFitTypes /\ Snapshots!ValidatedFits
  BY SnapshotsAssumption DEF Snapshots!TablesAgree

\* valid_fix and valid_load leave an object their model can hold, and a fix only with a
\* position and an age.
LEMMA ValidatedIsPublished ==
    ASSUME NEW i, NEW o, Published(i, o)
    PROVE  LET v == Snapshots!Validated(i, o)
           IN  Published(i, v) /\ (i = "GpsTelemetry" => Snapshots!WholeFix(v))
  <1>1. CASE i = "GpsTelemetry"
    <2> DEFINE v == Snapshots!Models!ValidFix(o)
               cut == [o EXCEPT !.fix = "false", !.lat = "null", !.lon = "null",
                                !.alt_m = "null", !.speed_mps = "null", !.hdop = "null"]
               whole == o.fix = "true" /\ "null" \notin {o.lat, o.lon} /\ o.age = "finite"
    <2>1. Snapshots!Validated(i, o) = v
      BY <1>1 DEF Snapshots!Validated
    <2>2. v = IF whole THEN o ELSE cut
      BY DEF Snapshots!Models!ValidFix
    <2>3. CASE whole
      BY <1>1, <2>1, <2>2, <2>3 DEF Snapshots!WholeFix
    <2>4. CASE ~whole
      <3>1. DOMAIN cut = DOMAIN o /\ cut.fix = "false"
        BY <1>1, TablesFit DEF Published, Kinds, Snapshots!ValidatedFits
      <3>2. \A f \in DOMAIN o : cut[f] \in Kinds[i][f]
        BY <1>1, TablesFit DEF Published, Kinds, Snapshots!ValidatedFits
      <3> HIDE DEF cut, whole
      <3> QED
        BY <2>1, <2>2, <2>4, <3>1, <3>2 DEF Published, Snapshots!WholeFix
    <2> QED
      BY <2>3, <2>4
  <1>2. CASE i = "LoadTelemetry"
    <2> DEFINE ready == o.ready = "true" /\ o.age = "finite" /\ o.raw # "null"
               kept  == IF ready THEN o
                        ELSE [o EXCEPT !.ready = "false", !.raw = "null", !.net_raw = "null",
                                       !.taring = "false"]
               cut   == [kept EXCEPT !.kg = "null"]
    <2>1. Snapshots!Validated(i, o) = IF ready /\ o.calibrated = "true" THEN kept ELSE cut
      BY <1>2 DEF Snapshots!Validated, Snapshots!Models!ValidLoad
    <2>2. Published(i, kept)
      BY <1>2, TablesFit DEF Published, Kinds, Snapshots!ValidatedFits
    <2> HIDE DEF kept
    <2>3. Published(i, cut)
      BY <1>2, <2>2, TablesFit DEF Published, Kinds, Snapshots!ValidatedFits
    <2> QED
      BY <1>2, <2>1, <2>2, <2>3
  <1>3. CASE i \notin {"GpsTelemetry", "LoadTelemetry"}
    BY <1>3 DEF Snapshots!Validated
  <1> QED
    BY <1>1, <1>2, <1>3

(***************************************************************************)
(* Whatever the backend's models can hold in their fields, in any number   *)
(* of them at once, the guard accepts once the validators have seen it,    *)
(* and it is of the type the page was compiled against                     *)
(* (models/device.py, worldStateSnapshot.ts, types.ts).                    *)
(***************************************************************************)
THEOREM WhatIsPublishedPasses ==
    ASSUME NEW i, NEW o, Published(i, o)
    PROVE  Sound(Snapshots!Message(i, Snapshots!Validated(i, o), TRUE))
  <1> DEFINE v == Snapshots!Validated(i, o)
             m == Snapshots!Message(i, v, TRUE)
  <1>1. Published(i, v) /\ (i = "GpsTelemetry" => Snapshots!WholeFix(v))
    BY ValidatedIsPublished
  <1> HIDE DEF v
  <1>2. m.interface = i /\ m.object = v /\ m.genuine = TRUE
    BY DEF Snapshots!Message
  <1> HIDE DEF m
  <1>3. Accepted(m)
    <2> SUFFICES ASSUME i \in DOMAIN Snapshots!Guards
                 PROVE  /\ \A f \in DOMAIN Snapshots!Guards[i] :
                             Snapshots!Conforms(v[f], Snapshots!Guards[i][f])
                        /\ i = "GpsTelemetry" => Snapshots!WholeFix(v)
      BY <1>2 DEF Accepted, Snapshots!Accepts
    <2> QED
      BY <1>1, TablesFit DEF Published, Kinds, Snapshots!GuardsFitModels
  <1>4. IsDeclared(m)
    BY <1>1, <1>2, TablesFit DEF IsDeclared, FixIsWhole, Published, Kinds,
                                 Snapshots!ModelsFitTypes
  <1> QED
    BY <1>2, <1>3, <1>4 DEF Sound, m, v

\* What any other publisher sends is declared where the guard looked, if it passed.
LEMMA ForeignIsAlien ==
    ASSUME NEW i, NEW o, Foreign(i, o)
    PROVE  Alien(Snapshots!Message(i, o, FALSE))
  <1> DEFINE m == Snapshots!Message(i, o, FALSE)
  <1>1. m.interface = i /\ m.object = o /\ m.genuine = FALSE
    BY DEF Snapshots!Message
  <1> HIDE DEF m
  <1>2. ASSUME Accepted(m)
        PROVE  IsDeclared(m)
    <2>1. /\ \A f \in DOMAIN Snapshots!Guards[i] :
               Snapshots!Conforms(o[f], Snapshots!Guards[i][f])
          /\ i = "GpsTelemetry" => Snapshots!WholeFix(o)
      BY <1>1, <1>2 DEF Accepted, Snapshots!Accepts, Foreign
    <2>2. ASSUME NEW f \in (DOMAIN Snapshots!Declared[i] \cap DOMAIN o) \ Snapshots!Trusted(i)
          PROVE  Snapshots!Fits(o[f], Snapshots!Declared[i][f])
      <3>1. CASE o[f] \in Kinds[i][f]
        BY <3>1, TablesFit DEF Foreign, Kinds, Snapshots!ModelsFitTypes
      <3>2. CASE o[f] \in Snapshots!BaseKinds
        <4>1. f \in DOMAIN Snapshots!Guards[i]
              /\ (Snapshots!Conforms(o[f], Snapshots!Guards[i][f])
                    => Snapshots!Fits(o[f], Snapshots!Declared[i][f]))
          BY <3>2, TablesFit DEF Foreign, Kinds, Snapshots!GuardsFitModels
        <4> QED
          BY <2>1, <4>1
      <3> QED
        BY <3>1, <3>2 DEF Foreign
    <2> QED
      BY <1>1, <2>1, <2>2 DEF IsDeclared, FixIsWhole
  <1> QED
    BY <1>1, <1>2 DEF Alien, m

\* The objects of the model's behaviours are such objects.
LEMMA OrdinaryIsPublished ==
    ASSUME NEW i \in DOMAIN Kinds
    PROVE  Published(i, Snapshots!Ordinary(i))
  <1> DEFINE usual(f) == CHOOSE k \in Kinds[i][f] : k \notin Snapshots!Unusual
  <1>1. Snapshots!Ordinary(i) = [f \in DOMAIN Kinds[i] |-> usual(f)]
    BY DEF Snapshots!Ordinary, Kinds
  <1>2. \A f \in DOMAIN Kinds[i] : \E k \in Kinds[i][f] : k \notin Snapshots!Unusual
    BY TablesFit DEF Kinds, Snapshots!ModelsFitTypes
  <1>3. \A f \in DOMAIN Kinds[i] : usual(f) \in Kinds[i][f]
    BY <1>2
  <1> HIDE DEF usual
  <1> QED
    BY <1>1, <1>3 DEF Published

LEMMA MessagesAreTold ==
    \A i, o, g : /\ Snapshots!Message(i, o, g).interface = i
                 /\ Snapshots!Message(i, o, g).genuine = g
  BY DEF Snapshots!Message

LEMMA PublishedIsNew ==
    ASSUME Snapshots!Publish
    PROVE  Sound(sent') /\ sent' # Snapshots!None
  <1>0. PICK i \in DOMAIN Kinds : \E f, g \in DOMAIN Kinds[i] :
          \E k \in Kinds[i][f], l \in Kinds[i][g] :
            sent' = Snapshots!Message(i,
                      Snapshots!Validated(i, [Snapshots!Ordinary(i) EXCEPT ![f] = k, ![g] = l]),
                      TRUE)
    BY DEF Snapshots!Publish, Kinds
  <1>a. PICK f \in DOMAIN Kinds[i], g \in DOMAIN Kinds[i] :
          \E k \in Kinds[i][f], l \in Kinds[i][g] :
            sent' = Snapshots!Message(i,
                      Snapshots!Validated(i, [Snapshots!Ordinary(i) EXCEPT ![f] = k, ![g] = l]),
                      TRUE)
    BY <1>0
  <1>1. PICK k \in Kinds[i][f], l \in Kinds[i][g] :
          sent' = Snapshots!Message(i,
                    Snapshots!Validated(i, [Snapshots!Ordinary(i) EXCEPT ![f] = k, ![g] = l]),
                    TRUE)
    BY <1>a
  <1> DEFINE o == [Snapshots!Ordinary(i) EXCEPT ![f] = k, ![g] = l]
  <1>2. Published(i, o)
    BY OrdinaryIsPublished DEF Published
  <1> HIDE DEF o
  <1>3. Sound(sent')
    BY <1>1, <1>2, WhatIsPublishedPasses DEF o
  <1>4. sent'.interface = i /\ Snapshots!None.interface = "none" /\ i # "none"
    BY <1>1, MessagesAreTold, TablesFit DEF Snapshots!None, Kinds, Snapshots!ModelsFitTypes
  <1> QED
    BY <1>3, <1>4

LEMMA ForeignIsNew ==
    ASSUME Snapshots!PublishForeign
    PROVE  Alien(sent') /\ sent' # Snapshots!None
  <1>0. PICK i \in DOMAIN Snapshots!Guards :
          \E f \in DOMAIN Kinds[i] : \E k \in Snapshots!BaseKinds :
            sent' = Snapshots!Message(i, [Snapshots!Ordinary(i) EXCEPT ![f] = k], FALSE)
    BY DEF Snapshots!PublishForeign, Kinds
  <1>1. PICK f \in DOMAIN Kinds[i], k \in Snapshots!BaseKinds :
          sent' = Snapshots!Message(i, [Snapshots!Ordinary(i) EXCEPT ![f] = k], FALSE)
    BY <1>0
  <1> DEFINE o == [Snapshots!Ordinary(i) EXCEPT ![f] = k]
  <1>2. i \in DOMAIN Kinds
    BY TablesFit DEF Kinds, Snapshots!GuardsFitModels
  <1>3. Foreign(i, o)
    BY <1>2, OrdinaryIsPublished DEF Published, Foreign
  <1> HIDE DEF o
  <1>4. Alien(sent')
    BY <1>1, <1>3, ForeignIsAlien DEF o
  <1>5. sent'.genuine = FALSE /\ Snapshots!None.genuine = TRUE
    <2>1. sent'.genuine = FALSE
      BY <1>4 DEF Alien
    <2>2. Snapshots!None.genuine = TRUE
      BY MessagesAreTold DEF Snapshots!None
    <2> QED
      BY <2>1, <2>2
  <1> QED
    BY <1>4, <1>5

LEMMA DefaultsAreDeclared ==
    ASSUME NEW i \in DOMAIN Snapshots!defaultWorldState
    PROVE  LET m == Snapshots!Message(i, Snapshots!defaultWorldState[i], TRUE)
           IN  m.genuine = TRUE /\ IsDeclared(m) /\ m # Snapshots!None
  <1> DEFINE m == Snapshots!Message(i, Snapshots!defaultWorldState[i], TRUE)
  <1>1. m.interface = i /\ m.object = Snapshots!defaultWorldState[i] /\ m.genuine = TRUE
        /\ Snapshots!None.interface = "none"
    BY DEF Snapshots!Message, Snapshots!None
  <1> HIDE DEF m
  <1>2. IsDeclared(m)
    BY <1>1, TablesFit DEF IsDeclared, FixIsWhole, Snapshots!DefaultsFitTypes
  <1>3. i # "none"
    BY TablesFit DEF Snapshots!DefaultsFitTypes
  <1> QED
    BY <1>1, <1>2, <1>3 DEF m

LEMMA SnapshotStep ==
    ASSUME SnapshotIsJudged, Snapshots!Next
    PROVE  SnapshotIsJudged'
  <1>1. CASE Snapshots!Publish
    <2>1. Sound(sent') /\ sent' # Snapshots!None
      BY <1>1, PublishedIsNew
    <2>2. shown' = Snapshots!None /\ received' = FALSE /\ connected' = TRUE
      BY <1>1 DEF Snapshots!Publish, SnapshotIsJudged
    <2> QED
      BY <2>1, <2>2 DEF SnapshotIsJudged, Sound, Accepted, IsDeclared, FixIsWhole
  <1>2. CASE Snapshots!PublishForeign
    <2>1. Alien(sent') /\ sent' # Snapshots!None
      BY <1>2, ForeignIsNew
    <2>2. shown' = Snapshots!None /\ received' = FALSE /\ connected' = TRUE
      BY <1>2 DEF Snapshots!PublishForeign, SnapshotIsJudged
    <2> QED
      BY <2>1, <2>2 DEF SnapshotIsJudged, Alien, Accepted, IsDeclared, FixIsWhole
  <1>3. CASE Snapshots!Receive
    <2>1. ~received /\ received' = TRUE /\ sent' = sent /\ connected = TRUE
          /\ sent # Snapshots!None /\ shown = Snapshots!None /\ (Sound(sent) \/ Alien(sent))
      BY <1>3 DEF Snapshots!Receive, SnapshotIsJudged
    <2>2. CASE Accepted(sent)
      <3>1. shown' = sent /\ connected' = TRUE /\ IsDeclared(sent)
        BY <1>3, <2>1, <2>2 DEF Snapshots!Receive, Accepted, Sound, Alien
      <3> QED
        BY <2>1, <3>1 DEF SnapshotIsJudged, Sound, Alien, Accepted, IsDeclared, FixIsWhole
    <2>3. CASE ~Accepted(sent)
      <3>1. shown' = shown /\ connected' = FALSE /\ Alien(sent) /\ sent.genuine = FALSE
        BY <1>3, <2>1, <2>3 DEF Snapshots!Receive, Accepted, Sound, Alien
      <3> QED
        BY <2>1, <3>1 DEF SnapshotIsJudged, Sound, Alien, Accepted, IsDeclared, FixIsWhole
    <2> QED
      BY <2>2, <2>3
  <1>4. CASE Snapshots!Await
    BY <1>4 DEF Snapshots!Await, SnapshotIsJudged
  <1> QED
    BY <1>1, <1>2, <1>3, <1>4 DEF Snapshots!Next

LEMMA SnapshotInitIsTrue == ASSUME Snapshots!Init PROVE SnapshotIsJudged
  <1>1. /\ sent = shown /\ received = TRUE /\ connected = TRUE
        /\ shown.genuine = TRUE /\ IsDeclared(shown) /\ shown # Snapshots!None
    BY DefaultsAreDeclared DEF Snapshots!Init
  <1> QED
    BY <1>1 DEF SnapshotIsJudged

(***************************************************************************)
(* While the page judges one object at a time: what the backend sent       *)
(* passes and is declared, what anyone else sent is declared if it passes, *)
(* and what is shown is what was judged (worldStateSnapshot.ts,            *)
(* useTelemetry.ts onmessage).                                             *)
(***************************************************************************)
THEOREM SnapshotInvariant == DashboardSpec => []SnapshotInv
  <1>1. DashboardInit => SnapshotInv
    BY SnapshotInitIsTrue DEF DashboardInit, SnapshotInv
  <1>2. SnapshotInv /\ [DashboardNext]_dashboardVars => SnapshotInv'
    <2> SUFFICES ASSUME SnapshotInv, [DashboardNext]_dashboardVars, part' = "snapshots"
                 PROVE  SnapshotIsJudged'
      BY DEF SnapshotInv
    <2>1. CASE DashboardNext
      <3>1. part = "snapshots" /\ Snapshots!Next
        BY <2>1 DEF DashboardNext, OthersUnchanged
      <3> QED
        BY <3>1, SnapshotStep DEF SnapshotInv
    <2>2. CASE UNCHANGED dashboardVars
      <3>1. part = "snapshots" /\ UNCHANGED snapshotVars
        BY <2>2 DEF dashboardVars
      <3>2. SnapshotIsJudged
        BY <3>1 DEF SnapshotInv
      <3> QED
        BY <3>1, <3>2 DEF SnapshotIsJudged, snapshotVars, Sound, Alien, Accepted, IsDeclared,
                          FixIsWhole
    <2> QED
      BY <2>1, <2>2
  <1> QED
    BY <1>1, <1>2, PTL DEF DashboardSpec

(***************************************************************************)
(* The guard neither refuses a snapshot of the backend nor lets the page   *)
(* show what its components were not compiled for: no field that drifted   *)
(* closes the socket, no infinite number or fix without a position arrives *)
(* (worldStateSnapshot.ts, types.ts, models/device.py).                    *)
(***************************************************************************)
THEOREM SnapshotsPassAsDeclared == DashboardSpec => []GuardIsExact
  <1>1. SnapshotInv => GuardIsExact
    <2> SUFFICES ASSUME SnapshotIsJudged
                 PROVE  Snapshots!PublishedIsShown /\ Snapshots!ShownIsDeclared
      BY DEF SnapshotInv, GuardIsExact
    <2>1. Snapshots!PublishedIsShown
      BY DEF SnapshotIsJudged, Snapshots!PublishedIsShown
    <2>2. shown # Snapshots!None => IsDeclared(shown)
      BY DEF SnapshotIsJudged
    <2>3. Snapshots!ShownIsDeclared
      BY <2>2 DEF IsDeclared, FixIsWhole, Snapshots!ShownIsDeclared, Snapshots!AsDeclared,
                  Snapshots!ShownFields, Snapshots!Fits
    <2> QED
      BY <2>1, <2>3
  <1> QED
    BY <1>1, SnapshotInvariant, PTL
==============================================================================
