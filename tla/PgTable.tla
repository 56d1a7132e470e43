------------------------------ MODULE PgTable ------------------------------
(***************************************************************************)
(* One PostgreSQL table with unique indexes, used under READ COMMITTED by  *)
(* concurrent transactions of one statement sequence each.  PostgreSQL is  *)
(* not part of the repository: this module is what the storages under      *)
(* library/adapters/database/storages rely on.                             *)
(*                                                                         *)
(*   - an UPDATE locks its row until the end of the transaction and works  *)
(*     on the newest committed version of it;                              *)
(*   - a unique index entry made by an open transaction makes any other    *)
(*     transaction that wants the same entry wait for the outcome, and so  *)
(*     does an entry of a row that an open transaction is changing;        *)
(*   - an error or a ROLLBACK drops everything the transaction wrote.      *)
(*                                                                         *)
(* EntriesOf maps a row version to the set of unique index entries it      *)
(* needs: none when a partial index does not cover it.                     *)
(***************************************************************************)
EXTENDS Naturals, FiniteSets

CONSTANTS RowIds, Txns, Versions, Keys, Absent, EntriesOf

VARIABLES
    rows,     \* the committed version of each row, or Absent
    dirty,    \* what each open transaction wrote to each row, or Absent
    entered   \* the index entries each open transaction made

TypeInvariant ==
    /\ rows \in [RowIds -> Versions \cup {Absent}]
    /\ dirty \in [Txns -> [RowIds -> Versions \cup {Absent}]]
    /\ entered \in [Txns -> SUBSET Keys]

Entries(v) == IF v = Absent THEN {} ELSE EntriesOf[v]

Holds(t, i) == dirty[t][i] # Absent

Writers(i) == {t \in Txns : Holds(t, i)}

\* The ids no transaction has used: a fresh uuid4 is one of them.
FreeIds == {i \in RowIds : rows[i] = Absent /\ Writers(i) = {}}

\* The transactions whose outcome decides whether t may make the entries E.
Deciders(t, E) ==
    {s \in Txns \ {t} :
        \/ E \cap entered[s] # {}
        \/ \E j \in RowIds : Holds(s, j) /\ E \cap Entries(rows[j]) # {}}

\* Somebody has one of the entries E for good, or t itself made it.
Taken(t, E) ==
    \/ E \cap entered[t] # {}
    \/ \E j \in RowIds : ~Holds(t, j) /\ E \cap Entries(rows[j]) # {}

Write(t, i, v) == dirty' = [dirty EXCEPT ![t][i] = v]

Enter(t, E) == entered' = [entered EXCEPT ![t] = @ \cup E]

\* The locks, the row versions and the entries of t are gone.
Release(t) ==
    /\ dirty' = [dirty EXCEPT ![t] = [i \in RowIds |-> Absent]]
    /\ entered' = [entered EXCEPT ![t] = {}]

CommitTx(t) ==
    /\ rows' = [i \in RowIds |-> IF Holds(t, i) THEN dirty[t][i] ELSE rows[i]]
    /\ Release(t)

AbortTx(t) ==
    /\ Release(t)
    /\ UNCHANGED rows

\* t waits for itself, when blockers[s] are the transactions s waits for.
\* PostgreSQL breaks such a cycle by failing one of the statements in it.
InCycle(t, blockers) ==
    \E n \in 1..Cardinality(Txns) : \E cycle \in [1..n -> Txns] :
        /\ cycle[1] = t
        /\ \A k \in 1..n : cycle[(k % n) + 1] \in blockers[cycle[k]]
============================================================================
