------------------------------ MODULE Findable ------------------------------
(***************************************************************************)
(* What the projection promises, without the outbox, the drains and the    *)
(* locks that keep the promise: a topic is either found saying what it     *)
(* says, or owed an update, or was given up on by hand.  A topic that is   *)
(* none of the last two keeps the document it has, through anything: no    *)
(* late write, crash or power loss touches it until it changes again.      *)
(***************************************************************************)
CONSTANTS Topics, Says, Document, Gone

VARIABLES
  says,      \* [Topics -> Says]: what each topic says
  finds,     \* [Topics -> Document]: what a search finds of it
  owed,      \* the topics owed an update
  givenUp    \* the topics whose update was given up on by hand

vars == <<says, finds, owed, givenUp>>

Init ==
  /\ says = [t \in Topics |-> Gone]
  /\ finds = [t \in Topics |-> Gone]
  /\ owed = {}
  /\ givenUp = {}

\* A write, or a removal: the topic is owed from the moment it says so.
Change(t) ==
  /\ \E saying \in Says : says' = [says EXCEPT ![t] = saying]
  /\ owed' = owed \cup {t}
  /\ givenUp' = givenUp \ {t}
  /\ UNCHANGED finds

\* The index changes, for the better or the worse.
Reindex ==
  /\ finds' \in [Topics -> Document]
  /\ \A t \in Topics : finds'[t] # finds[t] => t \in owed \cup givenUp
  /\ UNCHANGED <<says, owed, givenUp>>

\* Updates are recorded as done: only those that are.
Settle ==
  /\ owed' \subseteq owed
  /\ \A t \in owed \ owed' : finds[t] = says[t]
  /\ UNCHANGED <<says, finds, givenUp>>

GiveUp ==
  /\ owed' \subseteq owed
  /\ givenUp' = givenUp \cup (owed \ owed')
  /\ UNCHANGED <<says, finds>>

Next == (\E t \in Topics : Change(t)) \/ Reindex \/ Settle \/ GiveUp

Spec == Init /\ [][Next]_vars

=============================================================================
