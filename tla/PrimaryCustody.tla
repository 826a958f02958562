---------------------------- MODULE PrimaryCustody ----------------------------
(***************************************************************************)
(* What no_kexec.c promises about the primary boot image, without saying   *)
(* how: of the two places that can hold it, one gains it only by copying   *)
(* from the other and one gives it up only while the other keeps it.  Only *)
(* a mishap voids the promise, and installing a primary renews it.         *)
(***************************************************************************)
VARIABLES
    held,   \* the places that hold the primary image, complete and untagged
    lost    \* a mishap happened since the primary was installed

Places == {"slot", "backup"}

Init == held = {"slot"} /\ lost = FALSE

Copy(to) == ~lost /\ held # {} /\ held' = held \cup {to} /\ UNCHANGED lost

Release(from) ==
    /\ ~lost
    /\ held \ {from} # {}
    /\ held' = held \ {from}
    /\ UNCHANGED lost

Install == held' \in {{"slot"}, Places} /\ lost' = FALSE

Mishap == lost' = TRUE /\ held' \in SUBSET Places

Next ==
    \/ \E x \in Places : Copy(x) \/ Release(x)
    \/ Install
    \/ Mishap

Spec == Init /\ [][Next]_<<held, lost>>
=============================================================================
