------------------------------ MODULE Catalog ------------------------------
(***************************************************************************)
(* The catalogs of players, managers and formations: the seed that fills   *)
(* the tables (apps/api/prisma/seed.ts), the queries of the three services *)
(* and the three pages that filter, sort and turn over the results         *)
(* (components/players/player-catalog.tsx and the other two).              *)
(*                                                                         *)
(* A row is its unique code, one number, which the pages filter and sort   *)
(* by, and whether it is neutral: the free fallback of every participant.  *)
(* The other filters only narrow the set further.  The seed upserts row by *)
(* row without a transaction and may be run again, also on what an older   *)
(* version of it left behind.  Which catalog is open is chosen at the      *)
(* start: they share the form of their code and differ where named.        *)
(***************************************************************************)
EXTENDS Integers, FiniteSets, Sequences

CONSTANTS
    Data,           \* what the seed holds, for each catalog a sequence
    Leftover,       \* codes older seeds used, and their new names
    Ratings,
    PageSize,
    NoPage          \* not read yet

Kinds == {"players", "managers", "formations"}

\* A row of the seed: no code is there twice, and the codes of older seeds are
\* names of formations no more.
SeedRow == [code : STRING, rating : Int, neutral : BOOLEAN]

ASSUME CatalogAssumption ==
    /\ Data \in [Kinds -> Seq(SeedRow)]
    /\ \A k \in Kinds : \A m, n \in DOMAIN Data[k] :
           Data[k][m].code = Data[k][n].code => m = n
    /\ DOMAIN Leftover \subseteq STRING
    /\ \A old \in DOMAIN Leftover :
           /\ \A n \in DOMAIN Data["formations"] : Data["formations"][n].code # old
           /\ \E n \in DOMAIN Data["formations"] :
                  Data["formations"][n].code = Leftover[old]
    /\ Ratings \subseteq Int
    /\ PageSize \in Nat \ {0}

VARIABLES
    kind,       \* the catalog of this page
    table,      \* its rows
    seed,       \* the next row of the data the seed writes, or 0
    query,      \* query
    loading,    \* loading
    error,      \* error
    response,   \* response
    requests    \* requests that are not answered and not aborted

server == <<table, seed>>
page == <<query, loading, error, response, requests>>
catalog == <<kind, table, seed, query, loading, error, response, requests>>

-----------------------------------------------------------------------------
(* The seed.                                                               *)

Off == 0
Done == Len(Data[kind]) + 1

StartSeed ==
    /\ seed \in {Off, Done}
    /\ seed' = 1
    /\ UNCHANGED <<kind, table, page>>

WithCode(code) == {r \in table : r.code = code}

\* Mutant: the old row is left behind.
NotRenamed(rows) == rows

\* updateMany gives the formation of an older seed its new code.
Renamed(rows) ==
    {IF r.code \in DOMAIN Leftover THEN [r EXCEPT !.code = Leftover[@]] ELSE r :
         r \in rows}

FreshIds == (1 .. Len(Data[kind]) + 1) \ {r.id : r \in table}

\* The upserts, which find a row by its code.
Upsert(rows, d) ==
    LET found == {r \in rows : r.code = d.code}
        Written(id) == [id |-> id, code |-> d.code, rating |-> d.rating,
                        neutral |-> d.neutral]
    IN  IF found # {}
          THEN {(rows \ found) \cup {Written(r.id) : r \in found}}
          ELSE {rows \cup {Written(id)} : id \in FreshIds}

Write(rows) ==
    /\ seed \in DOMAIN Data[kind]
    /\ table' \in Upsert(rows, Data[kind][seed])
    /\ seed' = seed + 1
    /\ UNCHANGED <<kind, page>>

SeedPlayer == kind = "players" /\ Write(table)

SeedManager == kind = "managers" /\ Write(table)

\* The renaming comes before the first formation.
SeedFormation ==
    /\ kind = "formations"
    /\ Write(IF seed = 1 THEN Renamed(table) ELSE table)

\* It stops where it is.
CrashSeed ==
    /\ seed \in DOMAIN Data[kind]
    /\ seed' = Off
    /\ UNCHANGED <<kind, table, page>>

-----------------------------------------------------------------------------
(* The services.                                                           *)

InRange(r, q) == r.rating \in q.min .. q.max

\* findAll of the players, who have no neutral one among them,
FindPlayers(q) == {r \in table : InRange(r, q)}

\* of the managers, without the neutral one,
FindManagers(q) == {r \in table : ~r.neutral /\ InRange(r, q)}

\* and of the formations, the neutral one among them.
FindFormations(q) == {r \in table : InRange(r, q)}

Find(q) ==
    CASE kind = "players" -> FindPlayers(q)
      [] kind = "managers" -> FindManagers(q)
      [] kind = "formations" -> FindFormations(q)

\* Mutant: rows with the same number have no order among them.
PrecedesByRating(x, y, q) ==
    IF q.order = "asc" THEN x.rating < y.rating ELSE x.rating > y.rating

\* orderBy: [orderBy, { id: 'asc' }].
Precedes(x, y, q) ==
    IF x.rating = y.rating THEN x.id < y.id
    ELSE IF q.order = "asc" THEN x.rating < y.rating ELSE x.rating > y.rating

Rank(r, q) == Cardinality({x \in Find(q) : Precedes(x, r, q)})

\* skip and take.
PageOf(q) ==
    {r \in Find(q) : Rank(r, q) \in (q.page - 1) * PageSize .. q.page * PageSize - 1}

TotalPages(total) == (total + PageSize - 1) \div PageSize

\* The rows; their number is read in Answer, which nothing can tell apart from
\* reading it earlier.
ReadRows(r) ==
    /\ r.rows = NoPage
    /\ requests' = (requests \ {r}) \cup {[r EXCEPT !.rows = PageOf(r.query)]}
    /\ UNCHANGED <<kind, server, query, loading, error, response>>

-----------------------------------------------------------------------------
(* The page.                                                               *)

InitialQuery ==
    [min |-> CHOOSE r \in Ratings : \A x \in Ratings : r <= x,
     max |-> CHOOSE r \in Ratings : \A x \in Ratings : r >= x,
     order |-> IF kind = "formations" THEN "asc" ELSE "desc", page |-> 1]

Request(q) == [query |-> q, rows |-> NoPage]

\* No answer yet.
NoResponse == [query |-> NoPage, rows |-> {}, total |-> 0]

\* Mutant: the effect does not abort the request of the one before.
WithoutAbort(q) == requests' = requests \cup {Request(q)}

\* The effect of [query, reloadKey], which runs after a rendering.
RunEffect(q) == requests' = {Request(q)}

Load(q) ==
    /\ query' = q
    /\ loading' = TRUE
    /\ error' = "none"
    /\ RunEffect(q)
    /\ UNCHANGED <<kind, server, response>>

\* applyFilters of a draft; a range that is empty is an error of the form,
\* which leaves a request that is under way alone.
ApplyFilters(d) ==
    IF d.min > d.max
      THEN /\ error' = "range"
           /\ UNCHANGED <<kind, server, query, loading, response, requests>>
      ELSE Load(d)

\* resetFilters, with a new reloadKey.
ResetFilters == Load(InitialQuery)

\* The results and the buttons below them are shown.
ShowsResults == ~loading /\ error = "none" /\ response # NoResponse

\* goToPage, from the page of the response to the next or the one before.
GoToPage(n) ==
    /\ ShowsResults
    /\ response.rows # {}
    /\ n \in {response.query.page - 1, response.query.page + 1}
    /\ n \in 1 .. TotalPages(response.total)
    /\ Load([query EXCEPT !.page = n])

\* The button on the error.
Retry ==
    /\ ~loading
    /\ error # "none"
    /\ Load(query)

Answer(r) ==
    /\ r.rows # NoPage
    /\ requests' = requests \ {r}
    /\ response' = [query |-> r.query, rows |-> r.rows, total |-> Cardinality(Find(r.query))]
    /\ loading' = FALSE
    /\ UNCHANGED <<kind, server, query>>

\* The players keep the error the form may have shown meanwhile,
ReceivePlayers(r) == kind = "players" /\ Answer(r) /\ UNCHANGED error

\* the other two put the results in its place.
ReceiveManagers(r) == kind = "managers" /\ Answer(r) /\ error' = "none"

ReceiveFormations(r) == kind = "formations" /\ Answer(r) /\ error' = "none"

FailRequest(r) ==
    /\ error' = "failed"
    /\ loading' = FALSE
    /\ requests' = requests \ {r}
    /\ UNCHANGED <<kind, server, query, response>>

-----------------------------------------------------------------------------
Draft == [min : Ratings, max : Ratings, order : {"asc", "desc"}, page : {1}]

\* An older seed leaves at most its formation.
OldRows ==
    {{}} \cup {{[id |-> 1, code |-> code, rating |-> r, neutral |-> FALSE]} :
                   code \in DOMAIN Leftover, r \in Ratings}

CatalogInit ==
    /\ kind \in Kinds
    /\ table \in IF kind = "formations" THEN OldRows ELSE {{}}
    /\ seed = Off
    /\ query = InitialQuery
    /\ loading = TRUE
    /\ error = "none"
    /\ response = NoResponse
    /\ requests = {Request(InitialQuery)}

CatalogNext ==
    \/ StartSeed \/ SeedPlayer \/ SeedManager \/ SeedFormation \/ CrashSeed
    \/ \E d \in Draft : ApplyFilters(d)
    \/ ResetFilters \/ Retry
    \/ \E n \in 1 .. Len(Data[kind]) : GoToPage(n)
    \/ \E r \in requests :
           \/ ReadRows(r) \/ FailRequest(r)
           \/ ReceivePlayers(r) \/ ReceiveManagers(r) \/ ReceiveFormations(r)

-----------------------------------------------------------------------------
\* A page that says it is loading has a request of what it will show, so it
\* does not say so for ever; and one that shows results, or that there are
\* none, shows those of the filters, order and page the user asked for last.
PageAnswersQuery ==
    IF loading THEN \E r \in requests : r.query = query
    ELSE error = "none" => response.query = query

Queries == [min : Ratings, max : Ratings, order : {"asc", "desc"},
            page : 1 .. Len(Data[kind]) + 1]

\* A user who turns the pages meets every row that matches once: pages are
\* full but for the last, and no row is on two of them.
PagesPartition ==
    \A q \in Queries :
        LET total == Cardinality(Find(q))
        IN  /\ Cardinality(PageOf(q)) =
                   IF q.page < TotalPages(total) THEN PageSize
                   ELSE IF q.page = TotalPages(total)
                     THEN total - (q.page - 1) * PageSize ELSE 0
            /\ \A n \in 1 .. q.page - 1 : PageOf(q) \cap PageOf([q EXCEPT !.page = n]) = {}

\* Run again after any crash, the seed ends with the rows of its data, one of
\* each, although it found the formation an older one left under another name.
SeedConverges ==
    seed = Done =>
        /\ Cardinality(table) = Len(Data[kind])
        /\ \A n \in DOMAIN Data[kind] :
               {[code |-> r.code, rating |-> r.rating, neutral |-> r.neutral] :
                   r \in WithCode(Data[kind][n].code)} = {Data[kind][n]}

=============================================================================
