--------------------------- MODULE HhProcessProps ---------------------------
(***************************************************************************)
(* zd_hh_process_update() on every kind of context: a machine that takes   *)
(* one context of any attributes and dispatches it.                        *)
(***************************************************************************)
EXTENDS HhProcess

VARIABLES
  ctx,     \* the attributes of the context
  place,   \* "in", "dataplane" (queued as a request) or "out" (answered)
  status,  \* the result set on it, or "none"
  sent     \* what hh_process() returned

vars == <<ctx, place, status, sent>>

Init ==
  /\ ctx \in CtxAttrs
  /\ place = "in"
  /\ status = "none"
  /\ sent = Answer("none")

\* An answer is only given to a context that no request was queued for: the
\* response gives that one its result.
zd_hh_process_update ==
  /\ place = "in"
  /\ sent' = hh_process(ctx)
  /\ IF sent'.res = "HH_QUEUED"
     THEN place' = "dataplane" /\ UNCHANGED status
     ELSE place' = "out" /\ status' = hh_ret_to_zebra(sent'.res)
  /\ UNCHANGED ctx

Spec == Init /\ [][zd_hh_process_update]_vars

-----------------------------------------------------------------------------
(***************************************************************************)
(* The switch that dispatches and the switches it dispatches to agree: no  *)
(* operation reaches a BUG() default, which would abort a debug build and  *)
(* fail the context in a release build.                                    *)
(***************************************************************************)
NoBugReached == sent.res # "HH_BUG"

(***************************************************************************)
(* What is installed can be removed: for every context whose install is    *)
(* sent to the dataplane, the removal of the same object is sent too, as a *)
(* Del, and to the kernel or not alike.  Otherwise state the dataplane     *)
(* holds would outlive what zebra knows of it.                             *)
(***************************************************************************)
RemovalOf == [ROUTE_INSTALL |-> "ROUTE_DELETE", ROUTE_UPDATE |-> "ROUTE_DELETE",
              ADDR_INSTALL |-> "ADDR_UNINSTALL", MAC_INSTALL |-> "MAC_DELETE"]

RemovalMirrorsInstall ==
  place = "dataplane" /\ ctx.op \in DOMAIN RemovalOf =>
    LET removal == hh_process([ctx EXCEPT !.op = RemovalOf[ctx.op]])
    IN  removal.res = "HH_QUEUED" /\ removal.rpc = "Del"
          /\ removal.skip = sent.skip
=============================================================================
