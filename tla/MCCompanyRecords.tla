-------------------------- MODULE MCCompanyRecords --------------------------
(* Instances of CompanyRecords for TLC. *)
EXTENDS CompanyRecords, TLC

CONSTANTS n, m, x, y, i

\* Legacy rows have no keys yet, and a website that was verified is one.
LegacyRow == {r \in Row : r.key = None /\ r.known # Bad /\ (r.verified => r.site \in Sites)}
OneName(table) == \A a, b \in DOMAIN table : table[a].name = table[b].name

\* Two rows, whose websites and names are edited and imported.
Edited == [{1, 2} -> {r \in LegacyRow : r.known = r.site}]
\* Two duplicates that may be known by another website than their own.
Known == {t \in [{1, 2} -> LegacyRow] : OneName(t)}
\* Three duplicates.
Three == [{1, 2, 3} -> {r \in LegacyRow : r.known = r.site /\ r.site # Bad /\ r.name = n}]

\* Rows with higher ids are older.
Begin(t, e, r, f) == [rows |-> t, born |-> SetToSortSeq(DOMAIN t, >),
                      edits |-> e, reviews |-> r, faults |-> f]

Starts3 ==
    {Begin(t, 2, 0, 1) : t \in Edited} \cup {Begin(t, 0, 1, 1) : t \in Known}
        \cup {Begin(t, 0, 1, 0) : t \in Three}

\* A row of a file has an official website, a known one or neither.
Pairs == {<<None, None>>} \cup {<<s, None>> : s \in Sites} \cup {<<None, s>> : s \in Sites}

Symmetry == Permutations(Sites)
=============================================================================
