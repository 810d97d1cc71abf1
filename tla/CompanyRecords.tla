--------------------------- MODULE CompanyRecords ---------------------------
(***************************************************************************)
(* The company rows of backend/repository.py: who counts as the same       *)
(* company, and what an edit, an import or a lookup may change; with the   *)
(* "update missing company information" job of backend/utility_tasks.py,   *)
(* which reviews the companies in a pool of threads.                       *)
(*                                                                         *)
(* Two rows are the same company when their normalized names agree.  New   *)
(* duplicates are refused, but databases older than that rule hold some;   *)
(* they are kept, and only one row of a name owns the indexed key.         *)
(*                                                                         *)
(* Everything that writes companies holds the mutation gate                *)
(* (MaintenanceRuns), so edits come between reviews; what runs at the same *)
(* time is the lookups of one review and the user's cancel.                *)
(***************************************************************************)
EXTENDS Integers, Sequences, FiniteSets, Functions, SequencesExt

CONSTANTS
    Ids,        \* row ids, numbers: ties are broken by them
    Names,      \* normalized names
    Sites,      \* websites that may be a company's, each of its own domain
    Infos,      \* descriptions; they stand for the fields that are no website
    Bad,        \* a website that is clearly not the company's: a job platform
    None,       \* a blank
    Brought,    \* the pairs of official and known website that a file may bring
    Workers,    \* threads of a review
    Starts      \* legacy tables, their ids oldest first, each with bounds: how many edits,
                \* reviews and faults follow

\* key: the name if this row owns it in the unique index.
Row == [name : Names, key : Names \cup {None}, site : Sites \cup {Bad, None},
        known : Sites \cup {Bad, None}, verified : BOOLEAN, info : Infos \cup {None}]

ASSUME CompanyAssumption ==
    /\ Ids \subseteq Nat
    /\ None \notin Ids \cup Names \cup Sites \cup Infos \cup {Bad} /\ Bad \notin Sites
    /\ Brought \subseteq (Sites \cup {Bad, None}) \X (Sites \cup {Bad, None})
    /\ Workers \in Nat \ {0}

ASSUME StartsAssumption ==
    \A s \in Starts :
        /\ DOMAIN s.rows \subseteq Ids /\ IsFiniteSet(DOMAIN s.rows)
        /\ s.rows \in [DOMAIN s.rows -> Row]
        /\ s.born \in Seq(Ids) /\ Range(s.born) = DOMAIN s.rows /\ IsInjective(s.born)
        /\ {s.edits, s.reviews, s.faults} \subseteq Nat

VARIABLES
    rows,    \* id -> row
    born,    \* the ids of the rows, oldest first
    pool,    \* the review in progress
    report,  \* what the last review did
    edits, reviews, faults  \* bounds: how many are still to come

vars == <<rows, born, pool, report, edits, reviews, faults>>
bounds == <<edits, reviews, faults>>

-----------------------------------------------------------------------------
(* Rows.                                                                   *)

\* f with one more argument.
With(f, x, value) == [y \in DOMAIN f \cup {x} |-> IF y = x THEN value ELSE f[y]]

PlaceIn(order, id) == CHOOSE n \in DOMAIN order : order[n] = id
Position(id) == PlaceIn(born, id)
Older(a, b)  == Position(a) < Position(b)

\* find_company_by_normalized_name: the owner of the key first, then the oldest.
Namesakes(name, except) == {id \in DOMAIN rows \ except : rows[id].name = name}
Duplicate(name, except) ==
    LET same   == Namesakes(name, except)
        owners == {id \in same : rows[id].key # None}
        prefer == IF owners # {} THEN owners ELSE same
    IN  IF same = {} THEN None ELSE CHOOSE id \in prefer : \A other \in prefer \ {id} : Older(id, other)

\* normalized_name_for_existing_company: a legacy duplicate stays outside the index.
StoredKey(key, name, duplicate) ==
    IF key = name THEN name ELSE IF duplicate # None THEN None ELSE name

\* backfill_company_normalized_names, at every start: the oldest row of a name owns it.
Backfilled(table, order) ==
    LET First(id) == \A n \in DOMAIN order :
                         table[order[n]].name = table[id].name => PlaceIn(order, id) <= n
    IN  [id \in DOMAIN table |->
            [table[id] EXCEPT !.key = IF First(id) THEN table[id].name ELSE None]]

-----------------------------------------------------------------------------
(* A review.                                                               *)

Fields == {"site", "info"}

Invalid(row, field) == row[field] = Bad
Missing(row) == {f \in Fields : row[f] \in {None, Bad} \/ (f = "site" /\ ~row.verified)}

\* The domains a row may belong to, and the one it is known to belong to.
Plausible(row) == {row.site, row.known} \cap Sites
Confirmed(row) == IF row.verified /\ Cardinality(Plausible(row)) = 1 THEN Plausible(row) ELSE {}

\* Mutant of Identity: rows of a name share a lookup.
NameAlone(id) == <<rows[id].name>>

\* Which rows one lookup may stand for: those of a name whose only confirmed domain
\* they have or may have; a row of another domain, or of two, is looked up by itself.
Identity(id) ==
    LET confirmed == UNION {Confirmed(rows[other]) : other \in Namesakes(rows[id].name, {})}
        own       == Plausible(rows[id])
    IN  IF Cardinality(confirmed) = 1 /\ own \subseteq confirmed THEN <<rows[id].name, confirmed>>
        ELSE IF Confirmed(rows[id]) # {} THEN <<rows[id].name, own>>
        ELSE <<rows[id].name, {}, id>>

\* merge_company_records: the value of the best filled row that has one.
Filled(id) == Cardinality({f \in Fields : rows[id][f] \notin {None, Bad}})
Merged(members, field) ==
    LET having == {id \in members : rows[id][field] # None}
        best   == CHOOSE id \in having : \A other \in having \ {id} :
                      Filled(id) > Filled(other) \/ (Filled(id) = Filled(other) /\ id < other)
    IN  IF having = {} THEN None ELSE rows[best][field]

\* One lookup: for whom it is made, whose rows it is saved to, what it starts from and
\* what it is asked for.
Group(members) ==
    LET selected == {id \in members : Missing(rows[id]) # {}}
    IN  [members |-> members, selected |-> selected,
         lead |-> [f \in Fields |-> Merged(members, f)],
         asked |-> UNION {Missing(rows[id]) : id \in selected}]

Groups == {g \in {Group({id \in DOMAIN rows : Identity(id) = Identity(one)}) : one \in DOMAIN rows} :
              g.selected # {}}

\* What a lookup may bring.  Anything else is found at a confirmed website only.
Looking     == [state |-> "looking"]
Interrupted == [state |-> "interrupted"]
Found(site, info) == [state |-> "found", site |-> site, info |-> info]
Findings(g) ==
    {Found(None, None)} \cup
    {Found(site, info) : site \in Sites, info \in IF "info" \in g.asked THEN Infos \cup {None} ELSE {None}}

\* A saved value gives way when it is clearly invalid, or when the lookup started from
\* it and confirmed another.
Replaceable(row, g, found) ==
    {f \in Fields : found[f] # None /\
        (Invalid(row, f) \/ (g.lead[f] \notin {None, found[f]} /\ row[f] = g.lead[f]))}

\* update_discovered_company_fields after _save_company_refresh_group.
Reviewed(row, g, found) ==
    LET replaced == Replaceable(row, g, found)
        New(f)   == IF found[f] # None /\ (row[f] = None \/ f \in replaced) THEN found[f] ELSE row[f]
    IN  [row EXCEPT !.site = New("site"), !.info = New("info"),
            !.verified = \/ @
                         \/ found.site # None /\ ("site" \in replaced \/ row.site \in {None, found.site})]

-----------------------------------------------------------------------------

Idle == [main |-> "none"]
Free == pool = Idle
NoReport == [outcome |-> "none"]

TypeOK ==
    /\ DOMAIN rows \subseteq Ids /\ \A id \in DOMAIN rows : rows[id] \in Row
    /\ Range(born) = DOMAIN rows /\ IsInjective(born)
    /\ ~Free =>
          /\ pool.main \in {"filling", "waiting", "leaving"} /\ pool.cancelled \in BOOLEAN
          /\ Cardinality(DOMAIN pool.flying) <= Workers
          /\ \A g \in pool.queue \cup DOMAIN pool.flying : g.selected # {} /\ g.selected \subseteq g.members
    /\ report.outcome \in {"none", "done", "cancelled", "failed", "crashed"}
    /\ {edits, reviews, faults} \subseteq Nat

\* A legacy database after the first start.
Init ==
    \E s \in Starts :
        /\ born = s.born
        /\ rows = Backfilled(s.rows, s.born)
        /\ pool = Idle /\ report = NoReport
        /\ edits = s.edits /\ reviews = s.reviews /\ faults = s.faults

-----------------------------------------------------------------------------
(* Edits between the reviews.                                              *)

Editing ==
    /\ Free /\ edits > 0 /\ edits' = edits - 1
    /\ report' = NoReport
    /\ UNCHANGED <<pool, reviews, faults>>

Insert(id, row) == rows' = With(rows, id, row) /\ born' = Append(born, id)
Write(id, row)  == rows' = [rows EXCEPT ![id] = row] /\ UNCHANGED born

\* Refused when any row has the name.
Create(id, name, site, info) ==
    /\ Editing /\ id \in Ids \ DOMAIN rows
    /\ Duplicate(name, {}) = None
    /\ Insert(id, [name |-> name, key |-> name, site |-> site, known |-> site,
                   verified |-> FALSE, info |-> info])

\* Mutant of Renamable: only owners of the key count.
RenamableByKey(id, name) == \A other \in DOMAIN rows \ {id} : rows[other].key # name

\* A row may keep the name it shares, but not take one that another has.
Renamable(id, name) == Duplicate(name, {id}) = None \/ name = rows[id].name

\* update_company: a blank description keeps the stored one; another website has to be
\* verified again.
Edit(id, name, site, info) ==
    /\ Editing /\ id \in DOMAIN rows
    /\ Renamable(id, name)
    /\ Write(id, [name |-> name, key |-> StoredKey(rows[id].key, name, Duplicate(name, {id})),
                  site |-> site, known |-> site,
                  verified |-> rows[id].verified /\ site = rows[id].site,
                  info |-> IF info = None THEN rows[id].info ELSE info])

\* upsert_company_snapshots, of a row that is there: what the file says wins over what
\* is stored, a blank over nothing.
Over(new, old) == IF new = None THEN old ELSE new
ImportSame(id, name, site, known, verified, info) ==
    /\ Editing /\ id \in DOMAIN rows
    /\ Renamable(id, name)
    /\ Write(id, [name |-> name, key |-> StoredKey(rows[id].key, name, Duplicate(name, {id})),
                  site |-> Over(site, rows[id].site), known |-> Over(known, rows[id].known),
                  verified |-> Over(verified, rows[id].verified),
                  info |-> Over(info, rows[id].info)])

Flag(verified) == verified = TRUE

\* Of an unknown row: what is stored of that name wins, and only its blanks are filled;
\* a name nobody has becomes a row.
ImportOther(id, name, site, known, verified, info) ==
    LET target == Duplicate(name, {})
    IN  /\ Editing /\ id \in Ids \ DOMAIN rows
        /\ \/ /\ target = None
              /\ Insert(id, [name |-> name, key |-> name, site |-> site, known |-> known,
                             verified |-> Flag(verified), info |-> info])
           \/ /\ target # None
              /\ Write(target,
                    [rows[target] EXCEPT
                        !.key = StoredKey(@, name, Duplicate(name, {target})),
                        !.site = Over(@, site), !.known = Over(@, known), !.info = Over(@, info),
                        !.verified = @ \/ verified = TRUE])

Delete(id) ==
    /\ Editing /\ id \in DOMAIN rows
    /\ rows' = Restrict(rows, DOMAIN rows \ {id})
    /\ born' = RemoveAt(born, Position(id))

-----------------------------------------------------------------------------
(* A review: the main thread of the job and its lookups.                   *)

Continue == UNCHANGED <<edits, reviews>>
NoFault  == UNCHANGED faults
Breaks   == faults > 0 /\ faults' = faults - 1

ReviewBegins ==
    /\ Free /\ reviews > 0 /\ reviews' = reviews - 1
    /\ pool' = [main |-> "filling", queue |-> Groups, flying |-> <<>>, cancelled |-> FALSE,
                finished |-> {}, saved |-> {}]
    /\ report' = NoReport
    /\ UNCHANGED <<rows, born, edits, faults>>

\* submit_next.  The note of progress that goes before it may fail.
Submit(g) ==
    /\ ~Free /\ pool.main = "filling" /\ ~pool.cancelled
    /\ g \in pool.queue /\ Cardinality(DOMAIN pool.flying) < Workers
    /\ \/ pool' = [pool EXCEPT !.queue = @ \ {g}, !.flying = With(@, g, Looking)] /\ NoFault
       \/ pool' = [pool EXCEPT !.main = "leaving"] /\ Breaks
    /\ Continue /\ UNCHANGED <<rows, born, report>>

StopSubmitting ==
    /\ ~Free /\ pool.main = "filling"
    /\ pool.cancelled \/ pool.queue = {} \/ Cardinality(DOMAIN pool.flying) = Workers
    /\ pool' = [pool EXCEPT !.main = "waiting"]
    /\ UNCHANGED <<rows, born, report, bounds>>

\* A lookup ends; it looks for the cancel before each part of its work.
LookupEnds(g, result) ==
    /\ ~Free /\ g \in DOMAIN pool.flying /\ pool.flying[g] = Looking
    /\ result = Interrupted => pool.cancelled
    /\ pool' = [pool EXCEPT !.flying[g] = result,
                    !.finished = IF result = Interrupted THEN @ ELSE @ \cup {g}]
    /\ UNCHANGED <<rows, born, report, bounds>>

\* Mutant of Skipped: a cancelled review passes over whatever comes in.
SkippedAll(g) == pool.cancelled /\ pool.flying[g] # Looking

\* An interrupted lookup of a cancelled review is passed over.
Skipped(g) == pool.flying[g] = Interrupted

PassOver(g) ==
    /\ ~Free /\ pool.main = "waiting"
    /\ g \in DOMAIN pool.flying /\ Skipped(g)
    /\ pool' = [pool EXCEPT !.flying = Restrict(@, DOMAIN @ \ {g})]
    /\ UNCHANGED <<rows, born, report, bounds>>

\* Each row is read again and saved in a transaction of its own; the failure of one is
\* noted and the others go on.  Then the note of progress, which may fail as well.
Save(g, failing, noted) ==
    /\ ~Free /\ pool.main = "waiting"
    /\ g \in DOMAIN pool.flying /\ pool.flying[g].state = "found"
    /\ rows' = [id \in DOMAIN rows |-> IF id \in g.selected \ failing
                                       THEN Reviewed(rows[id], g, pool.flying[g]) ELSE rows[id]]
    /\ pool' = [pool EXCEPT !.flying = Restrict(@, DOMAIN @ \ {g}), !.saved = @ \cup {g},
                    !.main = IF noted THEN "filling" ELSE "leaving"]
    /\ IF failing = {} /\ noted THEN NoFault ELSE Breaks
    /\ Continue /\ UNCHANGED <<born, report>>

Ends(outcome) ==
    /\ pool' = Idle
    /\ report' = [outcome |-> outcome, unsaved |-> Cardinality(pool.finished \ pool.saved),
                  left |-> Cardinality(pool.queue \cup DOMAIN pool.flying)]

ReviewEnds ==
    /\ ~Free /\ pool.main = "waiting" /\ DOMAIN pool.flying = {}
    /\ Ends(IF pool.cancelled THEN "cancelled" ELSE "done")
    /\ UNCHANGED <<rows, born, bounds>>

\* After an error the executor waits for the lookups under way; nobody saves them.
ReviewFails ==
    /\ ~Free /\ pool.main = "leaving"
    /\ \A g \in DOMAIN pool.flying : pool.flying[g] # Looking
    /\ Ends("failed")
    /\ UNCHANGED <<rows, born, bounds>>

CancelReview ==
    /\ ~Free /\ ~pool.cancelled
    /\ pool' = [pool EXCEPT !.cancelled = TRUE]
    /\ UNCHANGED <<rows, born, report, bounds>>

\* The lookup of one company: "Refresh company".  confirmed: the website it verified;
\* final: where the page of that website, or of the stored one, is found in the end.
RefreshOne(id, confirmed, final, info) ==
    LET page == Over(confirmed, Over(rows[id].site, rows[id].known))
    IN  /\ Editing /\ id \in DOMAIN rows
        /\ page = None => final = None
        /\ Write(id, [rows[id] EXCEPT
                         !.site = Over(final, Over(confirmed, @)),
                         !.info = Over(@, info),
                         !.verified = @ \/ confirmed # None])

\* The backend stops, or is killed, and starts again.
Restart ==
    /\ faults > 0 /\ faults' = faults - 1
    /\ rows' = Backfilled(rows, born)
    /\ pool' = Idle
    /\ report' = IF Free THEN report ELSE [outcome |-> "crashed"]
    /\ UNCHANGED <<born, edits, reviews>>

Waiting == IF Free THEN {} ELSE pool.queue \cup DOMAIN pool.flying

Change ==
    \E id \in Ids, name \in Names, info \in Infos \cup {None} :
        \/ \E site \in Sites \cup {Bad, None} : Create(id, name, site, info) \/ Edit(id, name, site, info)
        \/ \E file \in Brought, verified \in {TRUE, FALSE, None} :
               \/ ImportSame(id, name, file[1], file[2], verified, info)
               \/ ImportOther(id, name, file[1], file[2], verified, info)

Next ==
    \/ Change
    \/ \E id \in Ids : Delete(id)
    \/ \E id \in Ids, confirmed, final \in Sites \cup {None}, info \in Infos \cup {None} :
           RefreshOne(id, confirmed, final, info)
    \/ ReviewBegins \/ StopSubmitting \/ ReviewEnds \/ ReviewFails \/ CancelReview \/ Restart
    \/ \E g \in Waiting :
           \/ Submit(g) \/ PassOver(g)
           \/ \E result \in Findings(g) \cup {Interrupted} : LookupEnds(g, result)
           \/ \E failing \in SUBSET g.selected, noted \in BOOLEAN : Save(g, failing, noted)

Spec == Init /\ [][Next]_vars

-----------------------------------------------------------------------------
(* Properties.                                                             *)

\* "Raised when a create or rename would duplicate a normalized company name"
\* (repository.py:29): no edit, import or restart makes two rows share a name that did
\* not, and no two rows ever own a key, so that the unique index refuses no write.
Sharing(table) == {p \in (DOMAIN table) \X (DOMAIN table) : p[1] < p[2] /\ table[p[1]].name = table[p[2]].name}
NamesApart ==
    [][/\ Sharing(rows') \subseteq Sharing(rows)
       /\ \A a, b \in DOMAIN rows' : a # b /\ rows'[a].key # None => rows'[a].key # rows'[b].key]_vars

\* "conflicting domains remain independent to avoid cross-filling distinct organizations"
\* (utility_tasks.py:194): rows that share a lookup have one domain between them from the
\* grouping until the save; and a save neither replaces a sound value that the lookup did
\* not start from, nor marks a website as verified that was not the one found.
NoCrossFill ==
    [][\A g \in Waiting :
          /\ Cardinality(g.members) > 1 =>
                Cardinality(UNION {Plausible(rows[id]) : id \in g.members}) <= 1
          /\ \A failing \in SUBSET g.selected, noted \in BOOLEAN : Save(g, failing, noted) =>
                \A id \in g.selected :
                    /\ \A f \in Fields : rows[id][f] \notin {None, Bad, g.lead[f]} =>
                          rows'[id][f] = rows[id][f]
                    /\ rows'[id].verified => rows[id] = rows'[id] \/ rows[id].verified
                                             \/ rows'[id].site = pool.flying[g].site]_vars

\* What a finished lookup found is saved, or its save failed and is reported, also when
\* the review was cancelled in the meantime (utility_tasks.py), and a review that reports
\* success leaves no company out.
FinishedIsSaved ==
    /\ report.outcome \in {"done", "cancelled"} => report.unsaved = 0
    /\ report.outcome = "done" => report.left = 0
=============================================================================
