-------------------------------- MODULE Touch --------------------------------
(***************************************************************************)
(* From the events of a touch screen to the calls of the touch handlers:   *)
(* lib/input_type_a.c, lib/input_type_b.c and touch_commit_events.  A      *)
(* driver of type A reports in every frame all the contacts there are, by  *)
(* their ids; one of type B keeps a slot for each contact and reports what *)
(* changed.  Handlers are told of each contact when it is added, when it   *)
(* moves and when it is removed.                                           *)
(***************************************************************************)
EXTENDS Integers, Sequences, FiniteSets, FiniteSetsExt, SequencesExt

CONSTANTS
    MAX_FINGERS,    \* slots of mt_events
    Ids             \* tracking ids the driver gives out

ASSUME TouchAssumption == MAX_FINGERS \in Nat \ {0} /\ Ids \subseteq Nat /\ IsFiniteSet(Ids)

VARIABLES
    driver,         \* "A" or "B": which of the two files is built in
    contacts,       \* fingers on the screen: slot of the driver -> id, or NoId
    mt_events,      \* the id and the flags of every slot
    active_touches, \* type A: ids of the last frame, up to the last place that is taken
    curr_touches,   \* type A: what was left in the other list
    handlers,       \* somebody has registered a handler
    next,           \* touch_commit_events: the slot that comes next, or 0
    down,           \* history: the contacts the handlers know of
    unheard,        \* history: something was committed while there was no handler
    lost            \* history: type A: a lifted contact got no slot

touchVars == <<driver, contacts, mt_events, active_touches, curr_touches, handlers, next,
               down, unheard, lost>>

Slots == 1..MAX_FINGERS
NoId == -1
Flags == {"added", "removed", "pos"}
NoEvent == [id |-> NoId, changed |-> {}]

TouchInit ==
    /\ driver \in {"A", "B"}
    /\ contacts = [s \in Slots |-> NoId]
    /\ mt_events = [s \in Slots |-> NoEvent]
    /\ active_touches = <<>> /\ curr_touches = <<>>
    /\ handlers = TRUE
    /\ next = 0
    /\ down = {}
    /\ unheard = FALSE /\ lost = FALSE

Held == {contacts[s] : s \in Slots} \ {NoId}

\* What the fingers do between two frames: there are never more than the array has slots.
\* With type B a slot is not lifted and taken again in one frame; with type A a finger may
\* come while another is lifted.
Fingers ==
    {c \in [Slots -> Ids \cup {NoId}] :
        /\ \A s, r \in Slots : s # r /\ c[s] # NoId => c[s] # c[r]
        /\ driver = "B" => /\ \A s \in Slots : contacts[s] = NoId \/ c[s] \in {contacts[s], NoId}
                           /\ \A s \in Slots : c[s] \in Held => c[s] = contacts[s]}

-----------------------------------------------------------------------------
\* Type A.  Every contact: its place, then its id, which closes the slot.

Reported(c) == SetToSeq({c[s] : s \in Slots} \ {NoId})

handle_abs_event_A(c) ==
    LET r == Reported(c)
    IN [s \in Slots |->
          IF s <= Len(r)
          THEN [id |-> r[s], changed |-> mt_events[s].changed \cup {"pos"}]
          ELSE mt_events[s]]

\* A walk of a list ends at the first empty place.
Seen(list) ==
    IF NoId \in Range(list) THEN SubSeq(list, 1, SelectInSeq(list, LAMBDA x : x = NoId) - 1) ELSE list

\* idlist_add keeps one of each, in the first empty place; assert(0) if there is none.
idlist_add(list, id) ==
    IF id \in Range(Seen(list)) THEN list
    ELSE IF NoId \in Range(list) THEN [list EXCEPT ![Len(Seen(list)) + 1] = id]
    ELSE Append(list, id)

\* A removal that drops what stands behind the removed id.
idlist_rm_Shifted(list, id) ==
    IF id \in Range(list) THEN SubSeq(list, 1, SelectInSeq(list, LAMBDA x : x = id) - 1) ELSE list

\* idlist_rm takes one out, and those behind it move up, to the first empty place.
idlist_rm(list, id) ==
    IF NoId \notin Range(list) THEN RemoveFirst(list, id)
    ELSE IF id \in Range(Seen(list)) THEN RemoveFirst(InsertAt(list, Len(Seen(list)) + 1, NoId), id)
    ELSE list

\* The ids of this frame are put in the list that was the other; those that were not among
\* those of the last frame are added.
active_now(c) == FoldLeft(idlist_add, curr_touches, Reported(c))

\* They are taken out of those of the last frame.
gone_now(c) == FoldLeft(idlist_rm, active_touches, Reported(c))

\* What is left gets slots of its own, as removed, as long as there are slots.
handle_syn_event_A(events, c) ==
    LET r == Reported(c)
        gone == Seen(gone_now(c))
    IN [s \in Slots |->
          IF s <= Len(r)
          THEN IF r[s] \in Range(Seen(active_touches)) THEN events[s]
               ELSE [events[s] EXCEPT !.changed = @ \cup {"added"}]
          ELSE IF s <= Len(r) + Len(gone) THEN [id |-> gone[s - Len(r)], changed |-> {"removed"}]
          ELSE events[s]]

\* An id that got no slot stays in the list, behind the places of those that did, and the
\* next frame takes it for one of its own.
Overflow(c) == Len(Reported(c)) + Len(gone_now(c)) > MAX_FINGERS \/ NoId \in Range(gone_now(c))

\* left_over_Kept does not strike out those that got slots.
left_over_Kept(c) == gone_now(c)

left_over(c) ==
    LET gone == gone_now(c)
        told == Min({Len(Seen(gone)), MAX_FINGERS - Len(Reported(c))})
    IN IF Overflow(c) THEN [i \in 1..Len(gone) |-> IF i <= told THEN NoId ELSE gone[i]] ELSE <<>>

-----------------------------------------------------------------------------
\* Type B: what changed, slot by slot.  A lifted slot keeps its id.
handle_abs_event_B(c) ==
    [s \in Slots |->
        IF c[s] # NoId /\ contacts[s] = NoId
        THEN [id |-> c[s], changed |-> mt_events[s].changed \cup {"added", "pos"}]
        ELSE IF c[s] = NoId /\ contacts[s] # NoId
        THEN [mt_events[s] EXCEPT !.changed = @ \cup {"removed"}]
        ELSE IF c[s] # NoId THEN [mt_events[s] EXCEPT !.changed = @ \cup {"pos"}]
        ELSE mt_events[s]]

-----------------------------------------------------------------------------
\* The handlers look at ADDED first, then at REMOVED, of the id they follow.
Told(known, e) ==
    LET with == IF "added" \in e.changed THEN known \cup {e.id} ELSE known
    IN IF "removed" \in e.changed THEN with \ {e.id} ELSE with

\* touch_commit_events looks once whether there is a handler.  With none the flags are left as
\* they are.
Committed(events) ==
    /\ mt_events' = events
    /\ IF handlers THEN next' = 1 /\ UNCHANGED unheard
       ELSE unheard' = TRUE /\ UNCHANGED next

Frame ==
    /\ next = 0 /\ Len(active_touches) <= MAX_FINGERS
    /\ \E c \in Fingers :
        \/ /\ driver = "A" /\ Len(active_now(c)) <= MAX_FINGERS
           /\ contacts' = c
           /\ Committed(handle_syn_event_A(handle_abs_event_A(c), c))
           /\ active_touches' = active_now(c)
           /\ curr_touches' = left_over(c)
           /\ lost' = (lost \/ Overflow(c))
        \/ \* assert(0) in idlist_add
           /\ driver = "A" /\ Len(active_now(c)) > MAX_FINGERS
           /\ active_touches' = active_now(c)
           /\ UNCHANGED <<contacts, mt_events, curr_touches, next, unheard, lost>>
        \/ /\ driver = "B"
           /\ contacts' = c
           /\ Committed(handle_abs_event_B(c))
           /\ UNCHANGED <<active_touches, curr_touches, lost>>
    /\ UNCHANGED <<driver, handlers, down>>

\* Then slot by slot: what changed goes to the handlers there are, under touch_mutex, and the
\* flags are cleared, whether or not anybody is left to hear.
touch_commit_events ==
    /\ next # 0
    /\ next' = IF next = MAX_FINGERS THEN 0 ELSE next + 1
    /\ mt_events' = [mt_events EXCEPT ![next].changed = {}]
    /\ down' = IF handlers THEN Told(down, mt_events[next]) ELSE down
    /\ unheard' = (unheard \/ (~handlers /\ mt_events[next].changed # {}))
    /\ UNCHANGED <<driver, contacts, active_touches, curr_touches, handlers, lost>>

\* input_push_context takes all handlers away, for Pong; input_pop_context brings them back.
\* It may be between two slots.
HandlersChange ==
    /\ handlers' = ~handlers
    /\ UNCHANGED <<driver, contacts, mt_events, active_touches, curr_touches, next, down, unheard,
                   lost>>

TouchNext == Frame \/ touch_commit_events \/ HandlersChange

TouchSpec == TouchInit /\ [][TouchNext]_touchVars

-----------------------------------------------------------------------------
\* Whatever the fingers do in a frame, and with either kind of driver, the handlers know
\* of exactly the contacts there are once the frame is committed: each is added once and
\* removed once, though type A has to find out by comparing the ids of two frames, and slots
\* change from frame to frame.  Two things spoil it: changes that were committed while there
\* was no handler (flags of a whole frame stay set and are delivered with the next), and, with
\* type A, a frame with more contacts and lifted ones together than there are slots.
TouchesAgree == ~unheard /\ ~lost /\ next = 0 => down = Held

\* As the assertion of idlist_add has it (input_type_a.c:75), a list has a place for every
\* contact there is: the one a frame's ids are put in was emptied when it was that of the last
\* frame.  Not so once lifted contacts got no slots.
PlaceForEach == ~lost => Len(active_touches) <= MAX_FINGERS
===============================================================================
