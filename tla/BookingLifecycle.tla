-------------------------- MODULE BookingLifecycle --------------------------
(***************************************************************************)
(* What the booking service promises, with no requests, flags or awaits:   *)
(* a slot belongs to at most one live intent, an intent is created once    *)
(* and ends at most once, and money goes back at most once, on the step    *)
(* that ends the intent.                                                   *)
(***************************************************************************)
EXTENDS Integers

CONSTANTS Intents, Slots

VARIABLES
  state,  \* where each intent is in its life
  place,  \* the slot each intent was made for, {} before it exists
  paid    \* how often each intent has been refunded

vars == <<state, place, paid>>

Waiting == {"pending", "hold_placed"}
Alive == Waiting \cup {"confirmed"}

Init ==
  /\ state = [i \in Intents |-> "absent"]
  /\ place = [i \in Intents |-> {}]
  /\ paid = [i \in Intents |-> 0]

\* A new intent takes a slot that no live intent has.
Book(i, s) ==
  /\ state[i] = "absent"
  /\ \A j \in Intents : state[j] \in Alive => place[j] # {s}
  /\ \E to \in Waiting : state' = [state EXCEPT ![i] = to]
  /\ place' = [place EXCEPT ![i] = {s}]
  /\ UNCHANGED paid

Confirm(i) ==
  /\ state[i] \in Waiting
  /\ state' = [state EXCEPT ![i] = "confirmed"]
  /\ UNCHANGED <<place, paid>>

\* A live intent ends, once, and is refunded then or never.
End(i, from, to, refund) ==
  /\ state[i] \in from
  /\ state' = [state EXCEPT ![i] = to]
  /\ paid' = [paid EXCEPT ![i] = @ + refund]
  /\ UNCHANGED place

Next ==
  \E i \in Intents :
    \/ \E s \in Slots : Book(i, s)
    \/ Confirm(i)
    \/ End(i, Waiting, "cancelled", 0)
    \/ End(i, Waiting, "expired", 0)
    \/ End(i, {"hold_placed"}, "hold_refunded", 1)
    \/ End(i, Alive, "cancelled", 1)
    \/ End(i, {"confirmed"}, "no_show", 0)

Spec == Init /\ [][Next]_vars
=============================================================================
