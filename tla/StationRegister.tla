---------------------------- MODULE StationRegister ----------------------------
(***************************************************************************)
(* The stations of one client.  One of them is the default, the station an *)
(* order names when its client names none.  The first station is default   *)
(* from its insert, removing the default promotes the oldest that is left, *)
(* and a partial unique index refuses a second default.  Both operations   *)
(* read before they write and neither runs in a transaction.               *)
(*                                                                         *)
(* Stations are numbered in the order of their createdAt.                  *)
(***************************************************************************)
EXTENDS Integers, FiniteSets

CONSTANTS
    MaxSites,   \* bound: stations ever inserted
    Areas,      \* RegionCode
    Makers,     \* calls that create a station
    Removers    \* calls that remove one

ASSUME StationAssumption == MaxSites \in Nat /\ Areas # {}

VARIABLES
    account,    \* whether the client's user document is there
    sites,      \* the Station documents, a function of 1..n
    making,     \* creating calls: where they are and what they counted
    removing    \* removing calls

stationVars == <<account, sites, making, removing>>

Station(area, default) ==
    [area |-> area, isDefault |-> default, isFavourite |-> FALSE, isActive |-> TRUE]

NoMaking == [at |-> "idle", first |-> FALSE]
NoRemoval == [at |-> "idle", site |-> 0, wasDefault |-> FALSE, next |-> 0]

StationInit ==
    /\ account = FALSE
    /\ sites = <<>>
    /\ making = [m \in Makers |-> NoMaking]
    /\ removing = [r \in Removers |-> NoRemoval]

ActiveSites == {s \in DOMAIN sites : sites[s].isActive}

\* The partial unique index {clientId, isDefault: true}: it holds whether or not the
\* station that carries the mark is active.
BugDefaultTaken(s) == s \in DOMAIN sites /\ sites[s].isDefault

DefaultTaken(s) == \E t \in DOMAIN sites : t # s /\ sites[t].isDefault

-----------------------------------------------------------------------------
\* POST /users for a CLIENT: the account first, its station by a call of its own.
CreateClient(m) ==
    /\ ~account /\ account' = TRUE
    /\ making' = [making EXCEPT ![m].at = "count"]
    /\ UNCHANGED <<sites, removing>>

\* POST /users/:id/stations.
CreateClientStation(m) ==
    /\ account /\ making[m].at = "idle"
    /\ making' = [making EXCEPT ![m].at = "count"]
    /\ UNCHANGED <<account, sites, removing>>

\* create: the active stations are counted,
CountStations(m) ==
    /\ making[m].at = "count"
    /\ making' = [making EXCEPT ![m] = [at |-> "insert", first |-> ActiveSites = {}]]
    /\ UNCHANGED <<account, sites, removing>>

\* and the insert makes a first station the default, unless the index refuses it.
InsertStation(m) ==
    /\ making[m].at = "insert"
    /\ Cardinality(DOMAIN sites) < MaxSites
    /\ LET n == Cardinality(DOMAIN sites) + 1
       IN  IF making[m].first /\ DefaultTaken(n)
           THEN UNCHANGED sites
           ELSE \E a \in Areas :
                  sites' = [s \in 1..n |-> IF s = n THEN Station(a, making[m].first) ELSE sites[s]]
    /\ making' = [making EXCEPT ![m] = NoMaking]
    /\ UNCHANGED <<account, removing>>

\* PATCH /stations/:id, of an active or a withdrawn station alike.
UpdateStation(s, a) ==
    /\ s \in DOMAIN sites
    /\ sites' = [sites EXCEPT ![s].area = a]
    /\ UNCHANGED <<account, making, removing>>

\* PATCH /stations/:id/favourite, the client's own write.
SetFavourite(s, f) ==
    /\ s \in DOMAIN sites
    /\ sites' = [sites EXCEPT ![s].isFavourite = f]
    /\ UNCHANGED <<account, making, removing>>

-----------------------------------------------------------------------------
(* remove.                                                                  *)

\* The station is read with its mark,
RemoveStation(r, s) ==
    /\ removing[r].at = "idle" /\ s \in ActiveSites
    /\ removing' = [removing EXCEPT ![r] = [NoRemoval EXCEPT !.at = "count", !.site = s,
                                                             !.wasDefault = sites[s].isDefault]]
    /\ UNCHANGED <<account, sites, making>>

\* the last active station stays (LAST_STATION),
CountActive(r) ==
    /\ removing[r].at = "count"
    /\ removing' = [removing EXCEPT ![r] = IF Cardinality(ActiveSites) <= 1 THEN NoRemoval
                                           ELSE [@ EXCEPT !.at = "withdraw"]]
    /\ UNCHANGED <<account, sites, making>>

\* it is withdrawn and loses its mark,
WithdrawStation(r) ==
    /\ removing[r].at = "withdraw"
    /\ sites' = [sites EXCEPT ![removing[r].site] = [@ EXCEPT !.isActive = FALSE, !.isDefault = FALSE]]
    /\ removing' = [removing EXCEPT ![r] = IF @.wasDefault THEN [@ EXCEPT !.at = "find"]
                                           ELSE NoRemoval]
    /\ UNCHANGED <<account, making>>

\* the oldest active station is looked up,
FindNextOldest(r) ==
    /\ removing[r].at = "find"
    /\ removing' = [removing EXCEPT ![r] =
                     IF ActiveSites = {} THEN NoRemoval
                     ELSE [@ EXCEPT !.at = "promote",
                                    !.next = CHOOSE s \in ActiveSites : \A t \in ActiveSites : s <= t]]
    /\ UNCHANGED <<account, sites, making>>

\* and marked, by its id alone.
PromoteStation(r) ==
    /\ removing[r].at = "promote"
    /\ sites' = IF DefaultTaken(removing[r].next) THEN sites
                ELSE [sites EXCEPT ![removing[r].next].isDefault = TRUE]
    /\ removing' = [removing EXCEPT ![r] = NoRemoval]
    /\ UNCHANGED <<account, making>>

StationNext ==
    \/ \E m \in Makers : \/ CreateClient(m) \/ CreateClientStation(m)
                         \/ CountStations(m) \/ InsertStation(m)
    \/ \E s \in 1..MaxSites : \/ \E a \in Areas : UpdateStation(s, a)
                              \/ \E f \in BOOLEAN : SetFavourite(s, f)
    \/ \E r \in Removers : \/ \E s \in 1..MaxSites : RemoveStation(r, s)
                           \/ CountActive(r) \/ WithdrawStation(r)
                           \/ FindNextOldest(r) \/ PromoteStation(r)

StationSpec == StationInit /\ [][StationNext]_stationVars

-----------------------------------------------------------------------------
\* The default never lapses: a client with an active station has exactly one that is
\* default, once no removal is half done.  Racing creates that both count no station, a
\* create that counted before a removal and inserts after it, and a promotion that finds
\* another default in place all leave it so.
DefaultNeverLapses ==
    (ActiveSites # {} /\ \A r \in Removers : removing[r].at = "idle")
        => Cardinality({s \in ActiveSites : sites[s].isDefault}) = 1
=============================================================================
