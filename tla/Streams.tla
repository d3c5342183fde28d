------------------------------- MODULE Streams -------------------------------
(* What a caller of print and printerr relies on: characters go to the     *)
(* descriptor of the call in the order in which they were printed, over    *)
(* all descriptors, and all of them are out when the call returns.         *)
EXTENDS Naturals, Sequences

CONSTANT Fds      \* the descriptors

VARIABLES
  issued,  \* every character printed, as its descriptor and its number
  out,     \* every character the system has been given
  busy     \* a call is in progress

(* Prefix order, character by character.                                   *)
PrefixOf(s, t) == Len(s) <= Len(t) /\ \A k \in 1 .. Len(s) : s[k] = t[k]

Init == issued = << >> /\ out = << >> /\ busy = FALSE

Call == ~busy /\ busy' = TRUE /\ UNCHANGED <<issued, out>>

(* A character is printed, or none; some of what waits may go out.         *)
Step ==
  /\ busy
  /\ \/ UNCHANGED issued
     \/ \E fd \in Fds : issued' = Append(issued, <<fd, Len(issued) + 1>>)
  /\ PrefixOf(out, out') /\ PrefixOf(out', issued')
  /\ busy' \in BOOLEAN
  /\ ~busy' => out' = issued'

Next == Call \/ Step

Spec == Init /\ [][Next]_<<issued, out, busy>>
=============================================================================
