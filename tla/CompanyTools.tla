---------------------------- MODULE CompanyTools ----------------------------
(***************************************************************************)
(* The company commands of main.py, website_audit.py and                   *)
(* job_board_discovery.py over master.xlsx, with the merging of duplicate  *)
(* rows of excel_tools.py.                                                 *)
(*                                                                         *)
(* A command reads the workbook, looks its rows up one after the other or  *)
(* in a pool, edits them in memory and writes the merged rows; nothing is  *)
(* written before every lookup is done.  Websites are identified with      *)
(* their domains, and a name stands for a name and a state.                *)
(***************************************************************************)
EXTENDS Integers, Sequences, FiniteSets, SequencesExt

CONSTANTS
    Names,        \* companies
    Sites,        \* domains
    Boards,       \* job boards
    Unfit,        \* those that rejection_reason refuses
    Nothing,      \* an empty cell
    Inputs,       \* rows of input/companies.xlsx: a name and a known website
    MaxCommands   \* bound: commands

ASSUME ToolsAssumption ==
    /\ Unfit \subseteq Boards
    /\ Nothing \notin Sites \cup Boards
    /\ Inputs \subseteq [name : Names, known : Sites \cup {Nothing}] /\ IsFiniteSet(Inputs)
    /\ MaxCommands \in Nat

VARIABLES
    sheet,     \* the rows of master.xlsx; their order is left open
    command,   \* the command that runs
    work,      \* its rows in memory: of each row read, what has become of it
    todo,      \* rows still to be looked up
    commands

toolsVars == <<sheet, command, work, todo, commands>>

Rows ==
    [name : Names, known : Sites \cup {Nothing}, official : Sites \cup {Nothing},
     verified : BOOLEAN, board : Boards \cup {Nothing},
     recent : BOOLEAN]         \* Last Checked lies within --skip-recent-days

NoCommand == [op |-> "none", force |-> FALSE, dry |-> FALSE]
Commands == [op : {"enrich", "fill", "repair", "audit"},
             force : BOOLEAN, dry : BOOLEAN]

ToolsTypeOK ==
    /\ sheet \subseteq Rows
    /\ command \in Commands \cup {NoCommand}
    /\ DOMAIN work \subseteq Rows \cup Inputs /\ \A item \in DOMAIN work : work[item] \in Rows
    /\ todo \subseteq DOMAIN work
    /\ commands \in 0..MaxCommands

ToolsInit ==
    /\ sheet = {}
    /\ command = NoCommand /\ work = <<>> /\ todo = {}
    /\ commands = 0

-----------------------------------------------------------------------------
(* Duplicate rows.                                                         *)

Site(r) == IF r.official # Nothing THEN r.official ELSE r.known

\* Mutant of DedupeKey: rows of one name are one company.
DedupeByName(r) == r.name

\* A row without a website is known by its name.
DedupeKey(r) == IF Site(r) # Nothing THEN <<"domain", Site(r)>> ELSE <<"name-state", r.name>>

Cell(mine, its) == IF mine # Nothing THEN mine ELSE its

\* Empty cells are filled from the other row.
Filled(best, other) ==
    [name     |-> best.name,
     known    |-> Cell(best.known, other.known),
     official |-> Cell(best.official, other.official),
     verified |-> best.verified \/ other.verified,
     board    |-> Cell(best.board, other.board),
     recent   |-> best.recent]

\* A row with a board is the better one; careers page, confidence and date, which
\* decide between others, are left open.
MergeRows(left, right) ==
    IF left.board = Nothing /\ right.board # Nothing THEN Filled(right, left)
                                                     ELSE Filled(left, right)

\* Each row is merged with what the rows before it came to.
MergeAll(list) ==
    LET merged[i \in DOMAIN list] == IF i = 1 THEN list[1] ELSE MergeRows(merged[i - 1], list[i])
    IN  merged[Len(list)]

\* dedupe_company_rows: what a list of these rows may come to, in any order.
Deduped(rows) ==
    LET Group(key) == {r \in rows : DedupeKey(r) = key}
        Merges(key) == {MergeAll(list) : list \in SetToSeqs(Group(key))}
        keys == {DedupeKey(r) : r \in rows}
    IN  {{pick[key] : key \in keys} :
            pick \in {f \in [keys -> UNION {Merges(key) : key \in keys}] :
                          \A key \in keys : f[key] \in Merges(key)}}

-----------------------------------------------------------------------------
(* Commands start.                                                         *)

Starts(op, force, dry, items, looked) ==
    /\ command = NoCommand /\ commands < MaxCommands
    /\ commands' = commands + 1
    /\ command' = [op |-> op, force |-> force, dry |-> dry]
    /\ work' = items /\ todo' = looked
    /\ UNCHANGED <<sheet>>

Unread == [r \in sheet |-> r]

\* needs_job_board_discovery
NeedsBoard(r, force) == Site(r) # Nothing /\ (force \/ r.board \in Unfit \cup {Nothing})

\* --company, --limit and --skip-recent-days leave any of them.
StartFill == \E force, dry \in BOOLEAN :
                 \E some \in SUBSET {r \in sheet : NeedsBoard(r, force)} :
                     Starts("fill", force, dry, Unread, some)

StartRepair == \E force, dry \in BOOLEAN, some \in SUBSET sheet :
                   Starts("repair", force, dry, Unread, some)

\* audit-websites only reports, but writes the rows it has read.
StartAudit == \E dry \in BOOLEAN : Starts("audit", FALSE, dry, Unread, {})

\* The rows that may stand for an input: by name and website, else by name.
Known(c) ==
    LET exact == {r \in sheet : r.name = c.name /\ c.known = IF r.known # Nothing THEN r.known
                                                             ELSE r.official}
    IN  IF exact # {} THEN exact ELSE {r \in sheet : r.name = c.name}

SkipsEnrichment(r, force) == ~force /\ ((r.verified /\ r.board # Nothing) \/ r.recent)

\* enrich_company's row before anything is found.
Blank(c) == [name |-> c.name, known |-> c.known, official |-> Nothing, verified |-> FALSE,
             board |-> Nothing, recent |-> TRUE]

StartEnrich == \E force \in BOOLEAN, inputs \in SUBSET Inputs :
    \E some \in SUBSET inputs :
        /\ \A c \in inputs \ some : \E r \in Known(c) : SkipsEnrichment(r, force)
        /\ \A c \in some : Known(c) = {} \/ \E r \in Known(c) : ~SkipsEnrichment(r, force)
        /\ Starts("enrich", force, FALSE, [c \in some |-> Blank(c)], some)

-----------------------------------------------------------------------------
(* Lookups.                                                                *)

Looked(item, row) ==
    /\ item \in todo
    /\ todo' = todo \ {item}
    /\ work' = [work EXCEPT ![item] = IF command.dry THEN @ ELSE row]
    /\ UNCHANGED <<sheet, command, commands>>

\* A candidate that is refused is never taken.
Fit == Boards \ Unfit

\* What pages of the website, a browser and a search together come to.
Found == Fit \cup {Nothing}

\* Mutant of LeavesBoard: a board that is refused is replaced.
LeavesFitBoard(r) == r.board \in Fit /\ ~command.force

\* A board that is there is kept without --force, also one that is refused.
LeavesBoard(r) == r.board # Nothing /\ ~command.force

\* discover_job_board_for_row; a lookup that raises finds nothing.
LookUpBoard(r) ==
    /\ command.op = "fill"
    /\ \E found \in Found :
           LET board == IF LeavesBoard(r) \/ found = Nothing THEN r.board ELSE found
           IN  Looked(r, [r EXCEPT !.board = board])

\* The audit finds the website right, and nobody insists.
Sound(r, audit) == audit = "Verified" /\ (r.verified \/ ~command.force)

\* Without --force a website that was entered by hand is left as well.
RepairSite(r) ==
    /\ command.op = "repair"
    /\ \E audit \in {"Missing", "Verified", "Other"} :
           /\ audit = "Missing" <=> r.official = Nothing
           /\ \/ /\ Sound(r, audit) \/ (r.verified /\ ~command.force)
                 /\ Looked(r, r)
              \/ /\ ~Sound(r, audit)
                 /\ \/ Looked(r, [r EXCEPT !.verified = FALSE])
                    \/ \E site \in Sites :
                           Looked(r, [r EXCEPT !.official = site, !.verified = TRUE,
                                               !.recent = TRUE])

\* enrich_company: only a verified website is stored, and only from there are a
\* careers page and a board looked for, statically and then by a browser.
EnrichCompany(c) ==
    /\ command.op = "enrich"
    /\ \/ Looked(c, Blank(c))
       \/ \E site \in Sites, board \in Boards \cup {Nothing} :
              Looked(c, [Blank(c) EXCEPT !.official = site, !.verified = TRUE,
                                         !.board = board])

-----------------------------------------------------------------------------
(* Commands end.                                                           *)

InMemory == {work[item] : item \in DOMAIN work}

CommandOver == command' = NoCommand /\ work' = <<>> /\ UNCHANGED commands

\* update_master reads the workbook again, write_master does not.
Merging == IF command.op = "enrich" THEN sheet \cup InMemory ELSE InMemory

\* What is exported to companies.json then, or not, is no part of the model.
WriteMaster ==
    /\ command # NoCommand /\ todo = {} /\ ~command.dry
    /\ \E rows \in Deduped(Merging) : sheet' = rows
    /\ CommandOver /\ UNCHANGED todo

DryRunEnds ==
    /\ command.dry /\ todo = {}
    /\ CommandOver /\ UNCHANGED <<sheet, todo>>

\* An exception that no one catches, or the end of the process.
CommandStops ==
    /\ command # NoCommand /\ todo' = {}
    /\ CommandOver /\ UNCHANGED <<sheet>>

\* The days of --skip-recent-days pass.
DaysPass ==
    /\ command = NoCommand
    /\ sheet' = {[r EXCEPT !.recent = FALSE] : r \in sheet}
    /\ UNCHANGED <<command, work, todo, commands>>

ToolsNext ==
    \/ StartFill \/ StartRepair \/ StartAudit \/ StartEnrich
    \/ \E item \in todo : LookUpBoard(item) \/ RepairSite(item) \/ EnrichCompany(item)
    \/ WriteMaster \/ DryRunEnds \/ CommandStops \/ DaysPass

ToolsSpec == ToolsInit /\ [][ToolsNext]_toolsVars

-----------------------------------------------------------------------------
(* Properties.                                                             *)

\* "Opportunity Radar only stores an official website after validating" it
\* (README.md): however rows are repaired and merged, the mark that a website was
\* verified is never moved to the website of another row.
VerifiedIsEarned ==
    [][command # NoCommand =>
          \A q \in sheet' \ sheet : q.verified =>
              \E r \in Merging : r.verified /\ r.official = q.official]_toolsVars

\* "Existing Job Board URL was not overwritten because --force is required"
\* (job_board_discovery.py): without it neither filling boards nor repair nor audit
\* replaces a stored board, and of the boards of rows that come to be one row one stays.
\* An enrichment is left out: its rows may win over stored ones of the same name with
\* the board they bring (merge_company_rows of excel_tools.py).
StoredBoardsStay ==
    [][command.op \in {"fill", "repair", "audit"} /\ ~command.force /\ sheet' # sheet =>
          \A r \in sheet : r.board # Nothing =>
              LET twins == {s \in sheet : DedupeKey(work[s]) = DedupeKey(work[r])}
              IN  \E q \in sheet' : /\ DedupeKey(q) = DedupeKey(work[r])
                                    /\ q.board \in {s.board : s \in twins} \ {Nothing}]_toolsVars
=============================================================================
