------------------------------- MODULE Journal -------------------------------
(* What starting turns promises: a request is recorded before it is          *)
(* submitted, and it is submitted at most once, whatever is lost.            *)
EXTENDS Functions

VARIABLES
  recorded, \* the requests in the journal
  started   \* the turns that were started, with the request of each

Init == recorded = {} /\ started = <<>>

Record(r) == recorded' = recorded \cup {r} /\ UNCHANGED started
Start(r) ==
  /\ r \in recorded \ Range(started)
  /\ \E turn \in DOMAIN started' \ DOMAIN started :
       started' = [i \in DOMAIN started \cup {turn} |-> IF i = turn THEN r ELSE started[i]]
  /\ UNCHANGED recorded

Next == (\E r \in recorded' : Record(r)) \/ (\E r \in recorded : Start(r))

Spec == Init /\ [][Next]_<<recorded, started>>
=============================================================================
