----------------------------- MODULE MCInterface -----------------------------
(***************************************************************************)
(* The interface run: the touch protocol, the key actions and the loop.    *)
(* They share nothing but the order in which handlers are called, so a     *)
(* behaviour is of one of them.  After callbacks have crossed, only two    *)
(* widgets are followed further.                                           *)
(***************************************************************************)
EXTENDS Touch, KeyActions, UiLoop

VARIABLE focus  \* "touch", "keys", "loop" or "wishes"

MCPositions == <<2, 1, 1>>

\* The loop is explored twice: for the answers, and for what widgets and drives ask of
\* it.  The thread of a handler is never two behind.
Answering == loop_act = {} /\ ~At("refresh", "tell") /\ ~check_keys

Wishing ==
    /\ selected_rom = "none" \/ check_keys
    /\ Cardinality(loop_act) + (IF At("refresh", "tell") THEN 1 ELSE 0) <= 1
    /\ check_keys => lock["exit"] = NoOne /\ loop_act = {}

Bound ==
    /\ focus = "loop" => Answering
    /\ focus = "wishes" => Wishing
    /\ crossed => 3 \notin actions
    /\ pending.add + pending.rm <= 2 /\ ~overtaken

MCInit ==
    /\ TouchInit /\ KeysInit /\ UiInit
    /\ focus \in {"touch", "keys", "loop", "wishes"}
    /\ driver = "B" => focus = "touch"
    /\ check_keys => focus = "wishes"

MCNext ==
    /\ UNCHANGED focus
    /\ \/ focus = "touch" /\ TouchNext /\ UNCHANGED <<keyVars, cardVars, uiVars>>
       \/ focus = "keys" /\ KeysNext /\ UNCHANGED <<touchVars, cardVars, uiVars>>
       \/ focus \in {"loop", "wishes"} /\ UiNext /\ UNCHANGED <<touchVars, keyVars>>
    /\ Bound'
===============================================================================
