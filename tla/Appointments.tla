---------------------------- MODULE Appointments ----------------------------
(***************************************************************************)
(* What registration and the role of administrator promise, as if every    *)
(* request ran alone: people join in turn, the first to join administers,  *)
(* and an administrator is dismissed only if another one remains.          *)
(***************************************************************************)
EXTENDS Integers

CONSTANT MaxPeople

VARIABLE standing   \* "nobody", "user" or "admin", by the order of joining

Persons  == 1 .. MaxPeople
Serving  == {p \in Persons : standing[p] = "admin"}
Outside  == {p \in Persons : standing[p] = "nobody"}

\* An empty server, or one that people have joined and somebody administers.
AppointmentsInit ==
    /\ standing \in [Persons -> {"nobody", "user", "admin"}]
    /\ \A p \in Outside : \A q \in p .. MaxPeople : q \in Outside
    /\ Serving # {} \/ Outside = Persons

Join(p) ==
    /\ p \in Outside /\ \A q \in 1 .. p - 1 : q \notin Outside
    /\ standing' = [standing EXCEPT ![p] = IF Serving = {} THEN "admin" ELSE "user"]

Appoint(p) ==
    /\ standing[p] = "user"
    /\ standing' = [standing EXCEPT ![p] = "admin"]

Dismiss(p) ==
    /\ p \in Serving /\ Serving # {p}
    /\ standing' = [standing EXCEPT ![p] = "user"]

AppointmentsNext == \E p \in Persons : Join(p) \/ Appoint(p) \/ Dismiss(p)

AppointmentsSpec == AppointmentsInit /\ [][AppointmentsNext]_standing

=============================================================================
