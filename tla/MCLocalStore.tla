---------------------------- MODULE MCLocalStore ----------------------------
(***************************************************************************)
(* Instance of LocalStore for TLC: one incident, two operation identities, *)
(* and databases of each earlier schema to start from.                     *)
(***************************************************************************)
EXTENDS LocalStore

CONSTANTS i1, o1, o2, f1

\* A first start: no tables yet.
EmptyDb ==
  [version |-> 0, snapshots |-> [i \in Incidents |-> NoSnapshot], rows |-> <<>>, next |-> 1]
\* A database of schema 1 whose first rows were acknowledged, with a photo.
OldDb ==
  [version |-> 1,
   snapshots |-> [i \in Incidents |-> [write |-> 1, photos |-> {f1}]],
   rows |-> << [sequence |-> 2, op |-> [id |-> o2, incident |-> i1], filled |-> FALSE,
                 sound |-> TRUE],
               [sequence |-> 4, op |-> [id |-> o1, incident |-> i1], filled |-> FALSE,
                 sound |-> TRUE] >>,
   next |-> 6]
DamagedDb == [OldDb EXCEPT !.rows[2].sound = FALSE]
AllDbs == {EmptyDb, OldDb, DamagedDb}
==============================================================================
