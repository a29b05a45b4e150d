-------------------------- MODULE IncidentLifecycle --------------------------
(***************************************************************************)
(* Incident reports in the API gateway                                     *)
(* (services/api-gateway/app: incident_router.py, the incident commands of *)
(* commands.py and queries.py, IncidentRepository).  Analysts create,      *)
(* read, list, update and archive the incidents of one tenant.             *)
(*                                                                         *)
(* An update names the revision it was written against; archiving names    *)
(* none.  Each of the two is one UPDATE, so it is one action.  A creation  *)
(* takes its created_at when its transaction starts and shows its rows     *)
(* when it commits.  Evidence and tags are written by the creation only:   *)
(* the three SELECTs of a read see one state of them, and a read is one    *)
(* action.  A detail that finds no incident, and a page without any, fall  *)
(* back to the drift events; those answers name no incident.               *)
(***************************************************************************)
EXTENDS Integers, FiniteSets

CONSTANTS
  Analysts,
  Incidents,    \* the ids that creations will draw
  Notes,        \* what an update may write: title, summary, classification or
                \* resolution notes, which the code treats alike
  None,         \* no value: a field that is not given, nothing seen, no cursor
  Bodies,       \* the PATCH bodies that are sent
  Limit,        \* page size of a listing
  MaxRevision,  \* bound: revisions of an incident
  MaxTime       \* bound: instants a creation may start at

Statuses == {"draft", "open", "resolved", "archived"}

Times == 0 .. MaxTime
Rows == [revision : 1 .. MaxRevision, status : Statuses, note : Notes,
         archived : BOOLEAN, created : Times]
\* PATCH bodies; the request's model requires one field at least.
Patches == {p \in [status : Statuses \cup {None}, note : Notes \cup {None},
                   tags : BOOLEAN] :
              p.status # None \/ p.note # None \/ p.tags}

ASSUME IncidentSizes == {Limit, MaxRevision} \subseteq Nat \ {0} /\ MaxTime \in Nat
ASSUME BodiesAssumption == Bodies \subseteq Patches

VARIABLES
  clock,     \* NOW()
  started,   \* instant at which the transaction of each creation started
  rows,      \* committed rows of incidents, by id
  view,      \* the version of an incident each analyst last saw
  replaced,  \* updates that were applied: [incident, revision, analyst]
  listing    \* the one listing under way, or over

incidentVars == <<clock, started, rows, view, replaced, listing>>

Versions == [incident : Incidents, row : Rows]
Pages == {"first", "next", "end"}

IncidentTypeOK ==
  /\ clock \in Times
  /\ started \in [Incidents -> Times \cup {None}]
  /\ DOMAIN rows \subseteq Incidents
  /\ \A i \in DOMAIN rows : rows[i] \in Rows
  /\ view \in [Analysts -> Versions \cup {None}]
  /\ listing \in [page : Pages, cursor : Times \cup {None},
                  listed : SUBSET Incidents, expected : SUBSET Incidents]

IncidentInit ==
  /\ clock = 0
  /\ started = [i \in Incidents |-> None]
  /\ rows = [i \in {} |-> None]
  /\ view = [a \in Analysts |-> None]
  /\ replaced = {}
  /\ listing = [page |-> "first", cursor |-> None, listed |-> {}, expected |-> {}]

Version(i, r) == [incident |-> i, row |-> r]
Set(i, r) == rows' = [j \in DOMAIN rows \cup {i} |-> IF j = i THEN r ELSE rows[j]]

\* The answer of a request: a whole row, which may be lost on its way.
Answer(a, i, r) == view' \in {view, [view EXCEPT ![a] = Version(i, r)]}

-----------------------------------------------------------------------------
(* Faulty variants: the bugs the properties must catch *)

\* The UPDATE does not compare revisions.
MatchesId(i, expected) == i \in DOMAIN rows

-----------------------------------------------------------------------------
(* _do_update_revision: SET of the fields that are given; the tags are not   *)
(* among the columns that UpdateIncidentCommand passes on.                    *)

Columns(p) == {f \in {"status", "note"} : p[f] # None}

Updated(r, p) ==
  [r EXCEPT !.revision = @ + 1,
            !.status = IF p.status = None THEN @ ELSE p.status,
            !.note = IF p.note = None THEN @ ELSE p.note]

\* UPDATE ... WHERE incident_id AND tenant_id AND revision = expected.
Matches(i, expected) == i \in DOMAIN rows /\ rows[i].revision = expected

Archived(r) == [r EXCEPT !.revision = @ + 1, !.status = "archived", !.archived = TRUE]

\* SELECT ... ORDER BY created_at DESC LIMIT limit + 1, without a cursor; the
\* order among rows of one instant is the database's.
IsPage(s) ==
  /\ s \subseteq DOMAIN rows
  /\ Cardinality(s) = IF Cardinality(DOMAIN rows) > Limit THEN Limit
                                                         ELSE Cardinality(DOMAIN rows)
  /\ \A i \in s, j \in DOMAIN rows \ s : rows[j].created <= rows[i].created
Oldest(s) == CHOOSE t \in {rows[i].created : i \in s} :
               \A i \in s : t <= rows[i].created

-----------------------------------------------------------------------------
(* Actions *)

Tick ==
  /\ clock < MaxTime /\ clock' = clock + 1
  /\ UNCHANGED <<started, rows, view, replaced, listing>>

\* POST: the transaction starts; created_at is its start.
CreateBegin(i) ==
  /\ started[i] = None
  /\ started' = [started EXCEPT ![i] = clock]
  /\ UNCHANGED <<clock, rows, view, replaced, listing>>

\* It commits: the incident, a draft of revision 1, its evidence and its tags.
CreateCommit(a, i) ==
  /\ started[i] # None /\ i \notin DOMAIN rows
  /\ \E n \in Notes :
       LET r == [revision |-> 1, status |-> "draft", note |-> n,
                 archived |-> FALSE, created |-> started[i]]
       IN Set(i, r) /\ Answer(a, i, r)
  /\ UNCHANGED <<clock, started, replaced, listing>>

\* It fails (an unknown snapshot, evidence or a tag given twice): no row stays,
\* and another POST will draw another id.
CreateFails(i) ==
  /\ started[i] # None /\ i \notin DOMAIN rows
  /\ started' = [started EXCEPT ![i] = None]
  /\ UNCHANGED <<clock, rows, view, replaced, listing>>

\* GET of one incident.
Get(a, i) ==
  /\ i \in DOMAIN rows
  /\ view' = [view EXCEPT ![a] = Version(i, rows[i])]
  /\ UNCHANGED <<clock, started, rows, replaced, listing>>

\* PATCH with the revision the analyst last saw.
Patch(a, p) ==
  /\ view[a] # None
  /\ LET i == view[a].incident
         expected == view[a].row.revision
         r == Updated(rows[i], p)
     IN /\ Columns(p) # {} /\ Matches(i, expected)
        /\ rows[i].revision < MaxRevision
        /\ Set(i, r) /\ Answer(a, i, r)
        /\ replaced' = replaced \cup
             {[incident |-> i, revision |-> expected, analyst |-> a]}
  /\ UNCHANGED <<clock, started, listing>>

\* No row, another revision, or a body with tags only: 404, and the analyst has
\* to read the incident again.
PatchRefused(a, p) ==
  /\ view[a] # None
  /\ Columns(p) = {} \/ ~Matches(view[a].incident, view[a].row.revision)
  /\ view' = [view EXCEPT ![a] = None]
  /\ UNCHANGED <<clock, started, rows, replaced, listing>>

\* DELETE: whatever the status and the revision are, an archived incident's too.
Archive(a, i) ==
  /\ i \in DOMAIN rows /\ rows[i].revision < MaxRevision
  /\ LET r == Archived(rows[i]) IN Set(i, r) /\ Answer(a, i, r)
  /\ UNCHANGED <<clock, started, replaced, listing>>

\* GET of the first page.  A further page is announced when a row is left over.
ListFirst(s) ==
  /\ listing.page = "first" /\ IsPage(s)
  /\ listing' = [page |-> IF s = DOMAIN rows THEN "end" ELSE "next",
                 cursor |-> IF s = DOMAIN rows THEN None ELSE Oldest(s),
                 listed |-> s, expected |-> DOMAIN rows]
  /\ UNCHANGED <<clock, started, rows, view, replaced>>

\* GET with the cursor: the text goes to the driver as the value of a timestamptz
\* parameter, which it refuses; the handler answers with drift events, and with
\* no cursor.
ListNext ==
  /\ listing.page = "next"
  /\ listing' = [listing EXCEPT !.page = "end", !.cursor = None]
  /\ UNCHANGED <<clock, started, rows, view, replaced>>

IncidentNext ==
  \/ Tick
  \/ \E i \in Incidents : CreateBegin(i) \/ CreateFails(i)
  \/ \E a \in Analysts, i \in Incidents : CreateCommit(a, i) \/ Get(a, i) \/ Archive(a, i)
  \/ \E a \in Analysts, p \in Bodies : Patch(a, p) \/ PatchRefused(a, p)
  \/ \E s \in SUBSET Incidents : ListFirst(s)
  \/ ListNext

IncidentSpec == IncidentInit /\ [][IncidentNext]_incidentVars

-----------------------------------------------------------------------------
(* Properties *)

\* Of the updates written against one revision of an incident at most one is
\* applied, and none that was written against a state the incident has left,
\* archiving included: no analyst overwrites what they have not seen.
NoLostUpdate ==
  [][\A u \in replaced' \ replaced :
       /\ view[u.analyst] = Version(u.incident, rows[u.incident])
       /\ \A w \in replaced : w.incident = u.incident => w.revision < u.revision]_incidentVars

\* A client that follows the cursors to the last page has been given every
\* incident that was there when it asked for the first page.
ListingIsComplete == listing.page = "end" => listing.expected \subseteq listing.listed
=============================================================================
