------------------------------- MODULE Delivery -------------------------------
(***************************************************************************)
(* What provision_firewall promises its callers, without versions, stages or  *)
(* polls: after an Ok, and until the next call, idps-fw enforces the text that *)
(* was asked for, or none at all while it restarts - never another one.        *)
(***************************************************************************)
CONSTANTS Texts, Nil

VARIABLES
  asked,   \* the text of the last write
  ok,      \* the last call has returned Ok
  inforce  \* the text idps-fw enforces

dvars == <<asked, ok, inforce>>

DInit ==
  /\ asked = Nil /\ ok = FALSE /\ inforce \in Texts \cup {Nil}

\* A call begins, or reset_rules takes the promise back.
Withdraw == ok' = FALSE /\ UNCHANGED <<asked, inforce>>

\* Its text is written; whether the call will return Ok is open.
Submit == ~ ok /\ asked' \in Texts /\ UNCHANGED <<ok, inforce>>

\* Ok is returned only while the text is enforced.
Grant == inforce = asked /\ ok' = TRUE /\ UNCHANGED <<asked, inforce>>

\* idps-fw applies rules in its own time, anything before the Ok.
Enforce ==
  /\ inforce' \in IF ok THEN {asked, Nil} ELSE Texts \cup {Nil}
  /\ UNCHANGED <<asked, ok>>

DNext == Withdraw \/ Submit \/ Grant \/ Enforce

DSpec == DInit /\ [][DNext]_dvars

=============================================================================
