-------------------------------- MODULE Shell --------------------------------
(***************************************************************************)
(* The layout that every page brings along: the keyboard shortcuts with    *)
(* their one-second prefix, the command palette, the sidebar, and what a   *)
(* page takes from the URL when it mounts, and only then.                  *)
(***************************************************************************)
EXTENDS Naturals

CONSTANTS MaxKeys                                (* bound: on keys pressed *)

NavPaths == {"/", "/mitigations", "/events", "/audit-log", "/inventory", "/config", "/ip-history", "/admin"}
Lettered == NavPaths \ {"/admin"}          (* by letter, or in the palette *)
(* A mitigation's own page, which another one's replaces.                  *)
OwnPages == {"/mitigations/1", "/mitigations/2"}
Paths == NavPaths \cup OwnPages
(* What a link's query asks for: Mitigate Now, or one address or event.    *)
Asks(p) ==
  CASE p = "/mitigations" -> {"nothing", "mitigate", "one"}
    [] p \in {"/events", "/ip-history"} -> {"nothing", "one"}
    [] OTHER -> {"nothing"}
Commands ==
  ((Lettered \cup OwnPages) \X {"nothing"})
  \cup {<<"/mitigations", "mitigate">>, <<"/events", "one">>}
(* The links in the pages themselves.                                      *)
PageLinks(p) ==
  CASE p = "/" -> ({"/mitigations", "/events"} \cup OwnPages) \X {"nothing"}
                  \cup {<<"/ip-history", "one">>, <<"/mitigations", "one">>}
    [] p = "/inventory" -> {<<"/mitigations", "one">>}
    [] p = "/mitigations" -> OwnPages \X {"nothing"} \cup {<<"/ip-history", "one">>}
    [] p = "/events" -> {<<"/ip-history", "one">>, <<"/mitigations", "one">>}
    [] p \in {"/audit-log", "/ip-history"} -> OwnPages \X {"nothing"}
    [] p \in OwnPages -> {<<"/mitigations", "nothing">>, <<"/ip-history", "one">>, <<"/events", "one">>}
    [] OTHER -> {}

ASSUME ShellAssumption == MaxKeys \in Nat

VARIABLES
  path, ask,       (* the URL                                               *)
  taken,           (* initialMitigateOpen, initialSearch, initialEventId,   *)
                   (* initialIp                                             *)
  isAdmin,
  paletteOpen, helpOpen, sidebarOpen, sidebarCollapsed,
  remembered,      (* what localStorage has of that                         *)
  gPressed, gTimeout,
  typing,          (* whether the focus is in an input                      *)
  keys
urlVars == <<path, ask, taken>>
overlays == <<paletteOpen, helpOpen, sidebarOpen>>
sidebarVars == <<sidebarCollapsed, remembered>>
prefixVars == <<gPressed, gTimeout>>
shellVars == <<urlVars, isAdmin, overlays, sidebarVars, prefixVars, typing, keys>>

(* Every render makes new callbacks, so the effect runs again; its cleanup *)
(* stops the timer and leaves gPressedRef.                                 *)
Rerendered(pressed) == gPressed' = pressed /\ gTimeout' = FALSE

(* router.push: another page mounts a layout of its own, which reads       *)
(* localStorage; the same page renders again and keeps its state.          *)
Mounts(a) ==
  /\ Rerendered(FALSE) /\ taken' = a /\ helpOpen' = FALSE
  /\ sidebarCollapsed' = remembered
Push(p, a, pressed) ==
  /\ path' = p /\ ask' = a
  /\ IF p # path THEN Mounts(a)
     ELSE Rerendered(pressed) /\ UNCHANGED <<taken, helpOpen, sidebarCollapsed>>
  /\ paletteOpen' = FALSE /\ typing' = FALSE
  /\ UNCHANGED <<isAdmin, remembered>>
Stays == UNCHANGED <<urlVars, isAdmin>>

(* handleKeyDown, in its order.                                            *)
KeyDown == ~typing /\ keys < MaxKeys /\ keys' = keys + 1
OpenPalette == paletteOpen' = TRUE /\ typing' = TRUE /\ Rerendered(gPressed)
KeyPalette == KeyDown /\ OpenPalette /\ Stays /\ UNCHANGED <<helpOpen, sidebarOpen, sidebarVars>>
ToggleCollapse ==
  /\ sidebarCollapsed' = ~sidebarCollapsed /\ remembered' = ~sidebarCollapsed
  /\ Rerendered(gPressed) /\ Stays /\ UNCHANGED <<overlays, typing>>
KeySidebar == KeyDown /\ ToggleCollapse
KeyHelp ==
  /\ KeyDown /\ helpOpen' = ~helpOpen /\ Rerendered(gPressed)
  /\ Stays /\ UNCHANGED <<paletteOpen, sidebarOpen, sidebarVars, typing>>
KeyMitigate ==
  /\ KeyDown /\ Push("/mitigations", "mitigate", gPressed) /\ sidebarOpen' = (sidebarOpen /\ path = path')
KeyG ==
  /\ KeyDown /\ gPressed' = TRUE /\ gTimeout' = TRUE
  /\ Stays /\ UNCHANGED <<overlays, sidebarVars, typing>>
KeyLetter ==
  /\ KeyDown /\ gPressed
  /\ \/ \E p \in Lettered : Push(p, "nothing", FALSE) /\ sidebarOpen' = (sidebarOpen /\ p = path)
     \/ /\ gPressed' = FALSE /\ gTimeout' = FALSE
        /\ Stays /\ UNCHANGED <<overlays, sidebarVars, typing>>
(* The timer set with the g.                                               *)
GTimesOut ==
  /\ gTimeout /\ gTimeout' = FALSE /\ gPressed' = FALSE
  /\ Stays /\ UNCHANGED <<overlays, sidebarVars, typing, keys>>
(* A page that hears from the daemon renders, and its layout with it.      *)
Renders ==
  /\ gTimeout /\ Rerendered(gPressed)
  /\ Stays /\ UNCHANGED <<overlays, sidebarVars, typing, keys>>

Focuses ==
  /\ ~paletteOpen /\ typing' = ~typing
  /\ Stays /\ UNCHANGED <<overlays, sidebarVars, prefixVars, keys>>
SearchClick ==
  /\ ~paletteOpen /\ ~helpOpen /\ OpenPalette
  /\ Stays /\ UNCHANGED <<helpOpen, sidebarOpen, sidebarVars, keys>>
(* runCommand closes the palette and goes; Escape only closes.             *)
RunCommand ==
  /\ paletteOpen
  /\ \E to \in Commands :
       Push(to[1], to[2], gPressed) /\ sidebarOpen' = (sidebarOpen /\ to[1] = path)
  /\ UNCHANGED keys
Escape ==
  /\ paletteOpen \/ helpOpen
  /\ paletteOpen' = FALSE /\ helpOpen' = (helpOpen /\ paletteOpen)
  /\ typing' = (typing /\ ~paletteOpen) /\ Rerendered(gPressed)
  /\ Stays /\ UNCHANGED <<sidebarOpen, sidebarVars, keys>>
(* On a small screen the menu opens the sidebar over the page, and a link  *)
(* of it closes it. Only admins are shown Admin.                           *)
MenuClick ==
  /\ ~paletteOpen /\ ~helpOpen /\ sidebarOpen' = ~sidebarOpen /\ Rerendered(gPressed)
  /\ Stays /\ UNCHANGED <<paletteOpen, helpOpen, sidebarVars, typing, keys>>
CollapseClick == ~paletteOpen /\ ~helpOpen /\ ToggleCollapse /\ UNCHANGED keys
LinkClick ==
  /\ ~paletteOpen /\ ~helpOpen
  /\ \E p \in NavPaths : (p = "/admin" => isAdmin) /\ Push(p, "nothing", gPressed)
  /\ sidebarOpen' = FALSE /\ UNCHANGED keys
PageLinkClick ==
  /\ ~paletteOpen /\ ~helpOpen /\ ~sidebarOpen
  /\ \E to \in PageLinks(path) : Push(to[1], to[2], gPressed)
  /\ UNCHANGED <<sidebarOpen, keys>>
(* The address page's form: router.replace, and its own activeIp.          *)
HandleSearch ==
  /\ path = "/ip-history" /\ ~paletteOpen /\ ~helpOpen /\ ~sidebarOpen
  /\ ask' = "one" /\ taken' = "one" /\ typing' \in {typing, FALSE} /\ Rerendered(gPressed)
  /\ UNCHANGED <<path, isAdmin, overlays, sidebarVars, keys>>
OtherTabToggles ==
  /\ remembered' = ~remembered
  /\ Stays /\ UNCHANGED <<overlays, sidebarCollapsed, prefixVars, typing, keys>>

ShellInit ==
  /\ path = "/" /\ ask = "nothing" /\ taken = "nothing" /\ isAdmin \in BOOLEAN
  /\ paletteOpen = FALSE /\ helpOpen = FALSE /\ sidebarOpen = FALSE
  /\ remembered \in BOOLEAN /\ sidebarCollapsed = remembered
  /\ gPressed = FALSE /\ gTimeout = FALSE /\ typing = FALSE /\ keys = 0

ShellNext ==
  \/ KeyPalette \/ KeyHelp \/ KeySidebar \/ KeyMitigate \/ KeyG \/ KeyLetter \/ GTimesOut \/ Renders
  \/ Focuses \/ SearchClick \/ RunCommand \/ Escape \/ MenuClick \/ CollapseClick \/ LinkClick
  \/ PageLinkClick \/ HandleSearch
  \/ OtherTabToggles

-----------------------------------------------------------------------------
(* Properties *)

ShellTypeOK ==
  /\ path \in Paths /\ ask \in Asks(path) /\ taken \in Asks(path)
  /\ path = "/admin" => isAdmin
  /\ {isAdmin, paletteOpen, helpOpen, sidebarOpen, sidebarCollapsed, remembered,
      gPressed, gTimeout, typing} \subseteq BOOLEAN
  /\ (paletteOpen => typing) /\ keys \in 0..MaxKeys
=============================================================================
