------------------------------- MODULE AppShell -------------------------------
(***************************************************************************)
(* What is around every page of the dashboard: the sidebar                 *)
(* (frontend/src/components/ui/sidebar.tsx, app-sidebar.tsx, nav-*.tsx),   *)
(* the width of the window (hooks/use-mobile.ts) and the links.  The       *)
(* layout stays mounted when pages change, and so does its state; only a   *)
(* reload of the document sets it back.                                    *)
(***************************************************************************)
EXTENDS Naturals

CONSTANTS
  MaxShellClicks   \* bound: toggles of the sidebar and changes of the width

ASSUME ShellAssumption == MaxShellClicks \in Nat

VARIABLES
  shell,        \* the state of SidebarProvider and useIsMobile, and the cookie
  shellClicks   \* number of toggles and changes of the width
shellVars == <<shell, shellClicks>>

ShellTypeOK ==
  /\ shell \in [mobile : BOOLEAN, open : BOOLEAN, openMobile : BOOLEAN,
                cookie : {"none", "true", "false"},
                reloaded : BOOLEAN]   \* history: since the cookie was last written?
  /\ shellClicks \in 0 .. MaxShellClicks

(* defaultOpen = true: the layout does not pass what the cookie holds.     *)
ShellMounted(mobile, cookie) ==
  [mobile |-> mobile, open |-> TRUE, openMobile |-> FALSE, cookie |-> cookie,
   reloaded |-> cookie # "none"]

ShellInit ==
  /\ shellClicks = 0
  /\ \E mobile \in BOOLEAN : shell = ShellMounted(mobile, "none")

ShellClick == shellClicks < MaxShellClicks /\ shellClicks' = shellClicks + 1

-----------------------------------------------------------------------------
(* What is shown.                                                          *)

(* The sidebar: a sheet over the page, or beside it unless collapsed.      *)
SidebarShows == IF shell.mobile THEN shell.openMobile ELSE shell.open

NavMain      == {"dashboard", "nodes", "metrics", "gossip", "convergence", "simulation", "inference"}
NavSecondary == {"config"}

(* The navigation of the detection pages, which other pages do not have.   *)
DetectionLinks(page) == IF page \in {"yolo", "fastsam"} THEN {"yolo", "fastsam"} ELSE {}

(* Where a click leads from here; the page "inference" only redirects.     *)
Redirected(url) == IF url = "inference" THEN "yolo" ELSE url
Links(page) ==
  (IF SidebarShows THEN { Redirected(url) : url \in NavMain \cup NavSecondary } ELSE {})
    \cup DetectionLinks(page)

-----------------------------------------------------------------------------
(* toggleSidebar; setOpen also writes the cookie, setOpenMobile does not.  *)
Toggled(sh) ==
  IF sh.mobile THEN [sh EXCEPT !.openMobile = ~@]
               ELSE [sh EXCEPT !.open = ~@, !.cookie = IF sh.open THEN "false" ELSE "true",
                               !.reloaded = FALSE]

(* The trigger in the header, under the sheet when there is one.           *)
Trigger ==
  /\ ShellClick
  /\ ~(shell.mobile /\ shell.openMobile)
  /\ shell' = Toggled(shell)

(* Ctrl-B, wherever the focus is.                                          *)
Shortcut == ShellClick /\ shell' = Toggled(shell)

(* Escape, or a click beside the sheet.                                    *)
SheetCloses ==
  /\ shell.mobile /\ shell.openMobile
  /\ shell' = [shell EXCEPT !.openMobile = FALSE]
  /\ UNCHANGED shellClicks

(* The window is made narrow or wide; an open sheet is only out of sight.  *)
Resize ==
  /\ ShellClick
  /\ shell' = [shell EXCEPT !.mobile = ~@]

(* The document is loaded again.                                           *)
Reloaded == shell' = ShellMounted(shell.mobile, shell.cookie) /\ UNCHANGED shellClicks

-----------------------------------------------------------------------------
(* Properties.                                                             *)

(* "This sets the cookie to keep the sidebar state" (ui/sidebar.tsx:85):   *)
(* whatever is toggled, in whatever width, the cookie has the state of the *)
(* sidebar - until the document is loaded again, since nothing reads it.   *)
CookieAgrees ==
  shell.cookie = "none" \/ shell.reloaded \/ (shell.cookie = "true" <=> shell.open)
=============================================================================
