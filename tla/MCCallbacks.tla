---------------------------- MODULE MCCallbacks ----------------------------
(***************************************************************************)
(* Two programs: one with a Deferred, one with a list of its own made with *)
(* any of the options.  L is the list of progress of the former.           *)
(***************************************************************************)
EXTENDS Deferred, CallbackList

CONSTANTS f, g, v, w

TwoFunctions == {f, g}
TwoValues == {v, w}

MCInit ==
    \/ DeferredInit /\ emptied = FALSE
    \/ ListInit /\ state = "pending" /\ added = NoCalls /\ called = NoCalls /\ noted = Data

MCNext ==
    \/ DOMAIN lists = Lists /\ DeferredNext /\ UNCHANGED emptied
    \/ DOMAIN lists = {L} /\ ListNext /\ UNCHANGED <<state, added, called, noted>>

MCSpec == MCInit /\ [][MCNext]_<<deferredVars, emptied>>
=============================================================================
