----------------------------- MODULE ContextMenu -----------------------------
(***************************************************************************)
(* The menu of jquery.contextMenu.js, as rightClickEvent of myJs.js makes  *)
(* it: once, for the pictures that the page has by then.  Showing it binds *)
(* a handler to clicks on the page that takes it away; hiding it unbinds   *)
(* the handler.                                                            *)
(***************************************************************************)
EXTENDS Integers

VARIABLES
  menu,       \* "none" before contextMenu(), then "hidden" or "visible"
  handlers    \* how many handlers hideMenu has on clicks on the page

menuVars == <<menu, handlers>>

MenuInit == menu = "none" /\ handlers = 0

(* hideMenu does something for a visible menu only; unbind takes every     *)
(* binding of the handler away.                                            *)
HideMenu ==
  IF menu = "visible" THEN menu' = "hidden" /\ handlers' = 0 ELSE UNCHANGED menuVars

MakeMenu == menu' = "hidden" /\ UNCHANGED handlers

(* Wrong on purpose: an open menu is moved without hiding it first.        *)
OpenMenuAgain ==
  /\ menu # "none"
  /\ menu' = "visible"
  /\ handlers' = handlers + 1

(* A right click on a picture that has the menu: hide it, then show it.    *)
OpenMenu ==
  /\ menu # "none"
  /\ menu' = "visible"
  /\ handlers' = IF menu = "visible" THEN 1 ELSE handlers + 1

(* A right click elsewhere, a click on an item or beside the menu, or the  *)
(* window loses the focus.                                                 *)
CloseMenu == menu = "visible" /\ HideMenu

(* Clicks on anything else of the page reach the handler as well.          *)
ClickReachesMenu == IF handlers > 0 THEN HideMenu ELSE UNCHANGED menuVars

(* A menu in view has exactly one handler that a click can close it with,  *)
(* and a menu out of view leaves none behind.                              *)
MenuCanClose == handlers = IF menu = "visible" THEN 1 ELSE 0
=============================================================================
