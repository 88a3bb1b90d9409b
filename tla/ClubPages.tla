------------------------------ MODULE ClubPages ------------------------------
(***************************************************************************)
(* The cache the pages share (TanStack Query, apps/web/src/providers.jsx). *)
(* A page shows cached answers of the API and offers operations; when one  *)
(* succeeds it invalidates the entries whose keys it names, or overwrites  *)
(* them.  An entry is trusted for 30 s, so one that nobody invalidates     *)
(* keeps an old answer on the screen.  Entries live side by side: a        *)
(* behaviour follows one of them, the watched one, through the tab of one  *)
(* user.                                                                   *)
(***************************************************************************)
EXTENDS ClubSite

VARIABLES
    role,      \* who uses the tab
    watched,   \* the key that is followed
    page,      \* the page on the screen
    entry,     \* "none", "fresh", or "old" (over staleTime, or invalidated)
    behind,    \* the answer misses something the user changed
    load,      \* "no", "current", or "late": sent before the user's last change
    op,        \* the operation under way, from Submit to its callback
    phase,     \* "idle", "sent" or "written"
    origin,    \* history: the page whose operation last changed the data, unless Forgotten
    escaped    \* history: a load sent before the last change was still under way when its
               \* operation succeeded, and neither restarted nor dropped

vars == <<role, watched, page, entry, behind, load, op, phase, origin, escaped>>

NoPage == Part({}, {})
NoOp == Op("none", {})

TypeOK ==
    /\ role \in DOMAIN Site /\ watched \in QueryKeys
    /\ page \in Site[role] /\ origin \in Site[role] \cup {NoPage}
    /\ entry \in {"none", "fresh", "old"} /\ load \in {"no", "current", "late"}
    /\ phase \in {"idle", "sent", "written"}
    /\ behind \in BOOLEAN /\ escaped \in BOOLEAN

Touches(o) == Api[o.call].writes \cap Api[Asks[watched]].reads # {}

Init ==
    /\ role \in DOMAIN Site /\ page \in Site[role]
    /\ watched \in UNION {p.shows : p \in Site[role]}
    /\ entry = "none" /\ behind = FALSE
    /\ load = IF watched \in page.shows THEN "current" ELSE "no"
    /\ op = NoOp /\ phase = "idle" /\ origin = NoPage /\ escaped = FALSE

Ask == load' = IF load = "no" THEN "current" ELSE load

\* A page is opened: what it shows is asked for unless it is fresh.
Open(p) ==
    /\ p # page
    /\ page' = p
    /\ IF watched \in p.shows /\ entry # "fresh" THEN Ask ELSE UNCHANGED load
    /\ UNCHANGED <<role, watched, entry, behind, op, phase, origin, escaped>>

\* The answer replaces the entry, whatever was done since it was asked for.
Answer ==
    /\ load # "no"
    /\ load' = "no" /\ entry' = "fresh"
    /\ behind' = (load = "late")
    /\ escaped' = (escaped /\ load = "late")
    /\ UNCHANGED <<role, watched, page, op, phase, origin>>

\* staleTime passes.
Age ==
    /\ entry = "fresh" /\ entry' = "old"
    /\ UNCHANGED <<role, watched, page, behind, load, op, phase, origin, escaped>>

\* gcTime passes on an entry that no page shows and nothing loads.
Collect ==
    /\ entry # "none" /\ watched \notin page.shows /\ load = "no"
    /\ entry' = "none" /\ behind' = FALSE /\ escaped' = FALSE
    /\ UNCHANGED <<role, watched, page, load, op, phase, origin>>

Poll ==
    /\ watched \in Polled \cap page.shows
    /\ Ask
    /\ UNCHANGED <<role, watched, page, entry, behind, op, phase, origin, escaped>>

\* The other operations leave the entry alone.
Submit(o) ==
    /\ phase = "idle"
    /\ Touches(o) \/ watched \in o.refreshes \cup o.sets
    /\ op' = o /\ phase' = "sent"
    /\ origin' = IF <<o.call, watched>> \in Forgotten THEN NoPage ELSE page
    /\ UNCHANGED <<role, watched, page, entry, behind, load, escaped>>

\* The server does it: what was loaded or asked for before is out of date.
Commit ==
    /\ phase = "sent" /\ phase' = "written"
    /\ IF Touches(op)
       THEN /\ behind' = (entry # "none")
            /\ load' = IF load = "no" THEN "no" ELSE "late"
            /\ escaped' = FALSE
       ELSE UNCHANGED <<behind, load, escaped>>
    /\ UNCHANGED <<role, watched, page, entry, op, origin>>

\* invalidateQueries loads an entry that is on the screen; a load in flight starts over, but
\* for a first load: without data, cancelRefetch leaves it.
Restarts == watched \in op.refreshes \cap page.shows /\ (entry # "none" \/ load = "no")

\* onSuccess: setQueryData updates the entry there is and leaves a load in flight,
\* invalidateQueries makes the entry old; a page the operation leads to asks for what it shows.
Succeed ==
    /\ phase = "written" /\ phase' = "idle" /\ op' = NoOp
    /\ page' \in Site[role]
    /\ IF op.leads = {} THEN page' = page ELSE op.leads \subseteq page'.shows
    /\ entry' = IF entry = "none" \/ watched \notin op.sets \cup op.refreshes THEN entry
                ELSE IF watched \in op.refreshes THEN "old" ELSE "fresh"
    /\ IF Restarts THEN load' = "current"
       ELSE IF watched \in page'.shows \ page.shows /\ entry' # "fresh" THEN Ask
       ELSE UNCHANGED load
    /\ behind' = (behind /\ watched \notin op.sets)
    /\ escaped' = IF watched \in op.refreshes \cup op.sets THEN load' = "late" ELSE escaped
    /\ origin' = IF op.leads = {} THEN origin ELSE NoPage
    /\ UNCHANGED <<role, watched>>

\* The call fails, before or after the server did it: nothing is refreshed.
Lose ==
    /\ phase # "idle" /\ phase' = "idle" /\ op' = NoOp
    /\ origin' = NoPage
    /\ UNCHANGED <<role, watched, page, entry, behind, load, escaped>>

Next ==
    \/ \E p \in Site[role] : Open(p)
    \/ \E o \in page.offers : Submit(o)
    \/ Answer \/ Age \/ Collect \/ Poll \/ Commit \/ Succeed \/ Lose

Spec == Init /\ [][Next]_vars

-----------------------------------------------------------------------------
(* Properties *)

\* providers.jsx:6-14: an entry is trusted for 30 s, so every operation must name what it
\* changes: but for the four cases of Forgotten, the page whose operation succeeded never
\* goes on showing what was there before, unless a load that will correct it is under way,
\* the entry is polled, or a load escaped the operation: one for a page that had no data yet,
\* one for a page that had been left, or one that came after the operation had set the entry.
OwnChangeIsShown ==
    phase = "idle" /\ behind /\ origin = page /\ watched \in page.shows =>
        load = "current" \/ watched \in Polled \/ escaped

\* router.jsx:183: whatever a page that RequireAuth lets a role open shows or offers, the API
\* route behind it lets that role in.
MayAsk ==
    /\ \A k \in page.shows : role \in Api[Asks[k]].who
    /\ \A o \in page.offers : role \in Api[o.call].who
=============================================================================
