----------------------------- MODULE JobRefresh -----------------------------
(***************************************************************************)
(* From collected postings to stored jobs: collect_jobs of job_tools.py,   *)
(* run_job_collection and run_single_company_refresh of server.py, and the *)
(* job rows of backend/repository.py.                                      *)
(*                                                                         *)
(* SQLite holds the jobs and the applications made for them; jobs.json is  *)
(* a snapshot that the collection reads as "the jobs so far", merges with  *)
(* what it found and writes back; the refresh then makes the table equal   *)
(* to the snapshot.  A company whose collection fails, is partial, is left *)
(* out by a filter or a limit or needs a browser that is switched off      *)
(* keeps its jobs; a company that was read completely loses the others.    *)
(*                                                                         *)
(* Everything that writes jobs holds the mutation gate (MaintenanceRuns),  *)
(* so one run, import or edit is at work at a time; what can go wrong lies *)
(* between its steps and in the order of the jobs.                         *)
(***************************************************************************)
EXTENDS Integers, Sequences, FiniteSets, Functions, SequencesExt

CONSTANTS
    Companies,  \* companies of the table
    Browser,    \* companies whose collector needs a browser
    Openings,   \* postings that a board may list or a file may bring
    Owner,      \* the company of a posting, or Nobody
    Nobody,
    Link,       \* what dedupe_job_key makes of a posting: its lower-cased link
    Id,         \* the id its collector gives it; long links may share one
    Valid,      \* postings that is_valid_job_record accepts
    Rank,       \* the order of list_jobs: company name and title
    MaxRuns,    \* bound: refreshes
    MaxFailures \* bound: failures and crashes

ASSUME RefreshAssumption ==
    /\ Browser \subseteq Companies
    /\ Nobody \notin Companies
    /\ IsFiniteSet(Openings) /\ Valid \subseteq Openings
    /\ Owner \in [Openings -> Companies \cup {Nobody}]
    /\ Rank \in [Openings -> Nat] /\ IsInjective(Rank)
    /\ DOMAIN Link = Openings /\ DOMAIN Id = Openings
    /\ {MaxRuns, MaxFailures} \subseteq Nat

VARIABLES
    companies, \* companies still there
    rows,      \* table jobs: row id -> its posting and status
    apps,      \* table applications: row id -> the posting it was made for
    json,      \* jobs.json, a sequence of rows
    run,       \* the refresh in progress
    outcome,   \* how the last run ended
    runs, failures \* bounds

refreshVars == <<companies, rows, apps, json, run, outcome, runs, failures>>
tables == <<companies, rows, apps>>
bounds == <<runs, failures>>

-----------------------------------------------------------------------------
(* Rows.  A row has the id its collector gave the posting or, when that was *)
(* taken, one that _prepare_jobs makes of the id and the posting.           *)

RowIds == {<<Id[p]>> : p \in Openings} \cup {<<Id[p], p>> : p \in Openings}
Statuses == {"Open", "Archived"}
Job(p, status) == [posting |-> p, status |-> status]
Entry(id, job) == [id |-> id, posting |-> job.posting, status |-> job.status]
Entries == [id : RowIds, posting : Openings, status : Statuses]

EntriesOf(table) == {Entry(id, table[id]) : id \in DOMAIN table}

\* list_jobs: by company name and title; rows that agree in both, in either order.
Listings(table) ==
    {list \in SetToSeqs(EntriesOf(table)) :
        \A i, j \in DOMAIN list : i < j => Rank[list[i].posting] <= Rank[list[j].posting]}

With(table, id, job) ==
    [i \in DOMAIN table \cup {id} |-> IF i = id THEN job ELSE table[i]]

Without(table, gone) == [i \in DOMAIN table \ gone |-> table[i]]

\* The company of a row; the row of a posting whose company is gone has none.
OwnerOf(p) == IF Owner[p] \in companies THEN Owner[p] ELSE Nobody

\* _prepare_jobs and insert_job: a second row of an id is stored under another one.
Prepared(table, e) ==
    With(table, IF e.id \in DOMAIN table THEN <<e.id[1], e.posting>> ELSE e.id,
         Job(e.posting, e.status))

Prepare(entries) ==
    LET upTo[n \in 0..Len(entries)] ==
            IF n = 0 THEN <<>> ELSE Prepared(upTo[n - 1], entries[n])
    IN  upTo[Len(entries)]

\* prune_missing_jobs: of the rows in scope, those with an application are archived and
\* the others deleted.
Pruned(scope) ==
    LET InScope(id) == OwnerOf(rows[id].posting) \in scope
    IN  [id \in {i \in DOMAIN rows : InScope(i) => i \in DOMAIN apps} |->
            IF InScope(id) THEN Job(rows[id].posting, "Archived") ELSE rows[id]]

\* replace_jobs, upsert_jobs_for_companies: one transaction.  Rows in the list are not
\* pruned.
Store(entries, scope) ==
    LET new == Prepare(entries)
        old == Pruned(scope)
    IN  rows' = [id \in DOMAIN new \cup DOMAIN old |->
                    IF id \in DOMAIN new THEN new[id] ELSE old[id]]

-----------------------------------------------------------------------------
(* The merge.                                                              *)

Replaced(list, e) ==
    [i \in DOMAIN list |-> IF Link[list[i].posting] = Link[e.posting] THEN e ELSE list[i]]

\* A job of the link is in the list.
HasLink(list, e) == \E i \in DOMAIN list : Link[list[i].posting] = Link[e.posting]

\* Mutant of Put: the first job of a link wins.
PutOnce(list, e) == IF HasLink(list, e) THEN list ELSE Append(list, e)

\* Of each link one job: a later one takes the place of the one before.
Put(list, e) == IF HasLink(list, e) THEN Replaced(list, e) ELSE Append(list, e)

Unique(entries) ==
    LET upTo[n \in 0..Len(entries)] ==
            IF n = 0 THEN <<>> ELSE Put(upTo[n - 1], entries[n])
    IN  upTo[Len(entries)]

\* The rows of some postings, in their order.
Picked(entries, some) ==
    LET upTo[n \in 0..Len(entries)] ==
            IF n = 0 THEN <<>>
            ELSE IF entries[n].posting \in some THEN Append(upTo[n - 1], entries[n])
            ELSE upTo[n - 1]
    IN  upTo[Len(entries)]

OwnedBy(S) == {p \in Openings : OwnerOf(p) \in S}

\* The jobs in the snapshot of a company that was not read completely.  A job without a
\* company id goes by the name of its company; the snapshot was exported from rows that
\* got their company by name when they were stored (_prepare_jobs), and as no company is
\* added or renamed here, none has the name of such a job.
Kept == Picked(json, Openings \ OwnedBy(run.complete))

\* merge_with_existing_jobs.
Merged == Picked(Unique(Kept \o run.found), Valid)

-----------------------------------------------------------------------------
(* A run.  kind: "full" refreshes every company or a selection, from the    *)
(* scheduler, the Utilities page or the endpoint; "single" one company.     *)
(* scope: whose rows are compared with the list.  todo: who is still to be  *)
(* collected from.  step: collecting; merged, jobs.json is written; stored. *)

Idle == [kind |-> "none"]

Runs == [kind : {"full", "single"}, scope : SUBSET (Companies \cup {Nobody}),
         todo : SUBSET Companies, complete : SUBSET Companies, found : Seq(Entries),
         cancelled : BOOLEAN, step : {"collecting", "merged", "stored"}]

RefreshTypeOK ==
    /\ companies \subseteq Companies
    /\ DOMAIN rows \subseteq RowIds
    /\ \A id \in DOMAIN rows : rows[id] \in [posting : Openings, status : Statuses]
    /\ DOMAIN apps \subseteq DOMAIN rows /\ Range(apps) \subseteq Openings
    /\ json \in Seq(Entries)
    /\ run \in {Idle} \cup Runs
    /\ outcome \in {"none", "done", "dry", "cancelled", "failed", "crashed"}
    /\ runs \in 0..MaxRuns /\ failures \in 0..MaxFailures

RefreshInit ==
    /\ companies = Companies
    /\ rows = <<>> /\ apps = <<>> /\ json = <<>>
    /\ run = Idle /\ outcome = "none"
    /\ runs = 0 /\ failures = 0

Free == run = Idle
At(step) == ~Free /\ run.step = step

\* export_jobs: the snapshot is what the table says.
Export == json' \in Listings(rows)

End(how) == run' = Idle /\ outcome' = how

-----------------------------------------------------------------------------
(* Edits between the runs.                                                 *)

\* Application tracking of a job.  What is there already is updated in place.
Apply(id) ==
    /\ Free /\ id \in DOMAIN rows \ DOMAIN apps
    /\ apps' = With(apps, id, rows[id].posting)
    /\ UNCHANGED <<companies, rows, json, run, outcome, bounds>>

\* A job of an imported file, under an id that no other posting has.  The export follows
\* the last job, unless the import is cancelled before.
Import(p, cancelled) ==
    /\ Free
    /\ <<Id[p]>> \in DOMAIN rows => rows[<<Id[p]>>].posting = p
    /\ rows' = With(rows, <<Id[p]>>, Job(p, "Open"))
    /\ IF cancelled THEN outcome' = "failed" /\ UNCHANGED json
                    ELSE outcome' = "none" /\ json' \in Listings(rows')
    /\ UNCHANGED <<companies, apps, run, bounds>>

\* Its rows and their applications go with a company.
DeleteCompany(c) ==
    LET gone == {id \in DOMAIN rows : OwnerOf(rows[id].posting) = c}
    IN  /\ Free /\ c \in companies
        /\ companies' = companies \ {c}
        /\ rows' = Without(rows, gone)
        /\ apps' = Without(apps, gone)
        /\ json' \in Listings(rows')
        /\ outcome' = "none"
        /\ UNCHANGED <<run, bounds>>

-----------------------------------------------------------------------------
(* The steps of a run.                                                     *)

Started(kind, scope, todo) ==
    /\ Free /\ runs < MaxRuns
    /\ runs' = runs + 1
    /\ run' = [kind |-> kind, scope |-> scope, todo |-> todo, complete |-> {},
               found |-> <<>>, cancelled |-> FALSE, step |-> "collecting"]
    /\ outcome' = "none"
    /\ UNCHANGED <<tables, failures>>

\* Mutant of Begin: the collection goes by the snapshot it finds.
BeginWithoutExport(kind, scope, todo) == Started(kind, scope, todo) /\ UNCHANGED json

\* Exports, then the choice of the companies to collect from.
Begin(kind, scope, todo) == Started(kind, scope, todo) /\ Export

\* Left out are companies without a usable link, filtered out or beyond the limit, or
\* in need of a browser when browsers are switched off.
BeginFull == \E todo \in SUBSET companies : Begin("full", Companies \cup {Nobody}, todo)
BeginSingle == \E c \in companies, todo \in SUBSET companies :
                  todo \subseteq {c} /\ Begin("single", {c}, todo)

DryRun ==
    /\ Free /\ runs < MaxRuns
    /\ runs' = runs + 1
    /\ outcome' = "dry"
    /\ Export
    /\ UNCHANGED <<tables, run, failures>>

Cancel ==
    /\ ~Free /\ run.kind = "full" /\ ~run.cancelled
    /\ run' = [run EXCEPT !.cancelled = TRUE]
    /\ UNCHANGED <<tables, json, outcome, bounds>>

\* What a collector may return: postings of its company, one of each link, in any order.
Lists(c) ==
    UNION {SetToSeqs(S) : S \in
        {T \in SUBSET {p \in Valid : Owner[p] = c} :
            \A p, q \in T : Link[p] = Link[q] => p = q}}

\* A collector has returned a complete list, or raised an error with or without a part
\* of it.  Collectors with a browser come after the others.
Collect(c, list, complete) ==
    /\ At("collecting") /\ c \in run.todo /\ ~run.cancelled
    /\ c \in Browser => run.todo \subseteq Browser
    /\ run' = [run EXCEPT
                  !.todo = @ \ {c},
                  !.complete = IF complete THEN @ \cup {c} ELSE @,
                  !.found = @ \o [n \in DOMAIN list |-> Entry(<<Id[list[n]]>>, Job(list[n], "Open"))]]
    /\ UNCHANGED <<tables, json, outcome, bounds>>

\* Looked for before each result and before the merge.
CancelSeen ==
    /\ At("collecting") /\ run.cancelled
    /\ End("cancelled")
    /\ UNCHANGED <<tables, json, bounds>>

Merge ==
    /\ At("collecting") /\ run.todo = {} /\ ~run.cancelled
    /\ json' = Merged
    /\ run' = [run EXCEPT !.step = "merged"]
    /\ UNCHANGED <<tables, outcome, bounds>>

\* A full refresh makes the table equal to the snapshot; a single one only the rows
\* of its company.
Replace ==
    /\ At("merged")
    /\ Store(Picked(json, OwnedBy(run.scope)), run.scope)
    /\ run' = [run EXCEPT !.step = "stored"]
    /\ UNCHANGED <<companies, apps, json, outcome, bounds>>

\* Mutant of Finish: the merged snapshot stays.
FinishWithoutExport ==
    /\ At("stored")
    /\ End("done")
    /\ UNCHANGED <<tables, json, bounds>>

Finish ==
    /\ At("stored")
    /\ Export
    /\ End("done")
    /\ UNCHANGED <<tables, bounds>>

\* A statement or a file operation fails: a single refresh still exports, if it can.
Fail ==
    /\ ~Free /\ failures < MaxFailures
    /\ failures' = failures + 1
    /\ \/ UNCHANGED json
       \/ run.kind = "single" /\ Export
    /\ End("failed")
    /\ UNCHANGED <<tables, runs>>

Crash ==
    /\ ~Free /\ failures < MaxFailures
    /\ failures' = failures + 1
    /\ End("crashed")
    /\ UNCHANGED <<tables, json, runs>>

RefreshNext ==
    \/ \E id \in RowIds : Apply(id)
    \/ \E p \in Openings, cancelled \in BOOLEAN : Import(p, cancelled)
    \/ \E c \in Companies : DeleteCompany(c)
    \/ BeginFull \/ BeginSingle \/ DryRun \/ Cancel
    \/ \E c \in Companies, complete \in BOOLEAN : \E list \in Lists(c) : Collect(c, list, complete)
    \/ CancelSeen \/ Merge \/ Replace \/ Finish \/ Fail \/ Crash

RefreshSpec == RefreshInit /\ [][RefreshNext]_refreshVars

-----------------------------------------------------------------------------
(* Properties.                                                             *)

Open(p) == \E id \in DOMAIN rows : rows[id] = Job(p, "Open")

\* A record the collection refuses takes the one it gives way to along.
Shadowed(id) == \E i \in DOMAIN rows :
    rows[i].posting \notin Valid /\ Link[rows[i].posting] = Link[rows[id].posting]

\* A job of the company a single refresh is for takes the id, and with it the row, of a
\* job of another company: insert_job updates the row an id has, whose it may be.
Displaced(id) == \E i \in DOMAIN rows \cap DOMAIN rows' :
    /\ OwnerOf(rows[i].posting) \notin run.scope
    /\ rows'[i].posting # rows[i].posting
    /\ Link[rows[i].posting] = Link[rows[id].posting]

\* "retains its existing jobs; partial_jobs are ... merged additively (union by source
\* URL)" (docs/BROWSER_LEASE_RECOVERY.md:97): when the table is replaced, a job of a
\* company that was not read completely is there still, or another of the same link,
\* unless its link was cut to the id of a job of another company; and a row somebody
\* applied to is there still whatever its board says.
NothingLost ==
    [][Replace => \A id \in DOMAIN rows :
          /\ id \in DOMAIN apps => id \in DOMAIN rows'
          /\ OwnerOf(rows[id].posting) \notin run.complete /\ ~Shadowed(id) /\ ~Displaced(id) =>
                \E i \in DOMAIN rows' : Link[rows'[i].posting] = Link[rows[id].posting]]_refreshVars

\* After a full refresh a company that was read completely shows what was found: every
\* posting found is open, under its link, and no posting of its is open that was not.
BoardIsShown ==
    At("stored") /\ run.kind = "full" =>
        /\ \A e \in Range(run.found) : \E p \in Openings : Link[p] = Link[e.posting] /\ Open(p)
        /\ \A p \in Openings : OwnerOf(p) \in run.complete /\ Open(p) =>
              \E e \in Range(run.found) : e.posting = p

\* "SQLite remains the authoritative store" (exports.py:14): after a run that ended
\* well, was cancelled or only tried, the snapshot says what the table says.
SnapshotAgrees ==
    Free /\ outcome \in {"done", "dry", "cancelled"} =>
        Range(json) = {Entry(id, rows[id]) : id \in DOMAIN rows}

\* An application belongs to the posting it was made for.
ApplicationStays == \A id \in DOMAIN apps : rows[id].posting = apps[id]
=============================================================================
