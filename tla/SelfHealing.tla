----------------------------- MODULE SelfHealing -----------------------------
(***************************************************************************)
(* How a replay that has gone to the wrong page is brought back.  While a  *)
(* page is recorded, ForensicRequestAssembler keeps every request for a    *)
(* page of the main frame, and for a URL that was reached by a redirect or *)
(* without a load (fragments, pushState, replaceState) the URL it was      *)
(* reached from: its alias.  Each recorded event of the user keeps the     *)
(* place of the request at the root of the chain of aliases of its page.   *)
(* ForensicEventInjector compares the page an event is injected into with  *)
(* the recorded one and, if they differ, forces the request to be loaded,  *)
(* once in a replay.                                                       *)
(***************************************************************************)
EXTENDS Integers, Sequences, FiniteSets, Functions

CONSTANTS
  URLs,       \* pages, without about:blank
  Blank,      \* about:blank
  NoURL,      \* no load under way; a location that has not been set
  \* bounds of the model
  MaxMoves,   \* navigations of the page by itself and events recorded
  MaxBegun    \* recordings and replays begun

ASSUME HealingAssumption ==
  IsFiniteSet(URLs) /\ Blank \notin URLs /\ NoURL \notin URLs \cup {Blank}

VARIABLES
  mode,       \* m_recording and m_replaying of the agent
  url,        \* the URL of the main frame's document
  loading,    \*   and of the load under way in it
  aliases,    \* m_pageURLAliasMap
  requests,   \* m_pageURLRequestsMap: the isConsumed flags of the requests for a URL
  events,     \* m_events: those that load a page or were given to one,
  upcoming,   \*   and the next to be injected
  moves, begun, \* bounded by MaxMoves and MaxBegun
  origin,     \* history: where the request is that the recorded page came from
  coming,     \*   and that of the load under way
  doubt,      \* history: why a location made now may be that of another page
  forced,     \* history: where the requests are that this replay has forced
  loaded      \* history: the URLs it has loaded

pageVars  == <<url, loading>>
storeVars == <<aliases, requests, events>>
pastVars  == <<origin, coming, doubt, forced, loaded>>
healingVars == <<mode, pageVars, storeVars, upcoming, moves, begun, pastVars>>

PageURLs  == URLs \cup {Blank}
Locations == (PageURLs \cup {NoURL}) \X Nat
Events    == [kind : {"load"}, url : PageURLs]
             \cup [kind : {"history"}, url : URLs, same : BOOLEAN]
             \cup [kind : {"page"}, url : PageURLs, location : Locations,
                   origin : Locations, doubt : {"none", "load", "aliases"}]

HealingTypeOK ==
  /\ mode \in {"off", "recording", "replaying"}
  /\ url \in PageURLs /\ loading \in PageURLs \cup {NoURL}
  /\ DOMAIN aliases \subseteq PageURLs /\ \A u \in DOMAIN aliases : aliases[u] \in PageURLs
  /\ DOMAIN requests \subseteq PageURLs
  /\ \A u \in DOMAIN requests : requests[u] \in Seq(BOOLEAN) \ {<<>>}
  /\ events \in Seq(Events) /\ upcoming \in 1..(Len(events) + 1)
  /\ origin \in Locations /\ coming \in Locations
  /\ doubt \in {"none", "load", "aliases"}
  /\ forced \in Seq(Locations) /\ loaded \subseteq PageURLs
-----------------------------------------------------------------------------
(***************************************************************************)
(* The chain of aliases.  The loop goes on until the first URL without an  *)
(* alias, or one that is its own, or the URL it began with.                *)
(***************************************************************************)
Stops(s, start) == s \in DOMAIN aliases => s = start \/ aliases[s] = s

\* The loop's s after n rounds.
Chain(start) ==
  LET s[n \in 0..Cardinality(PageURLs)] ==
        IF n = 0 THEN start
        ELSE IF start \notin DOMAIN aliases \/ (n > 1 /\ Stops(s[n - 1], start))
             THEN s[n - 1] ELSE aliases[s[n - 1]]
  IN s

\* Mutant: only one alias is followed.
FirstAlias(start) == Chain(start)[1]

findPageURLAliasChainRoot(start) == Chain(start)[Cardinality(PageURLs)]

\* After as many rounds as there are pages the loop has ended, or it never will.
ChainEnds(start) == Stops(Chain(start)[Cardinality(PageURLs)], start)

setURLAlias(alias, orig) ==
  [u \in DOMAIN aliases \cup {alias} |-> IF u = alias THEN orig ELSE aliases[u]]

sizePageURLRequests(u) == IF u \in DOMAIN requests THEN Len(requests[u]) ELSE 0

\* The place of the last request for the root; 0, as good as the code's -1, if none.
createMapLocation ==
  LET root == findPageURLAliasChainRoot(url) IN <<root, sizePageURLRequests(root)>>

\* Mutant: nothing is reset.
KeepConsumed == requests

resetPageURLRequestsMap == [u \in DOMAIN requests |-> [i \in DOMAIN requests[u] |-> FALSE]]

\* Mutant: the flag stays as it is.
SetIsNotConsumed(r, location) == r

setIsConsumed(r, location) == [r EXCEPT ![location[1]][location[2]] = TRUE]

markPageURLRequestAsConsumed(r, u) == IF u \in DOMAIN r THEN setIsConsumed(r, <<u, 1>>) ELSE r

\* getPageURLRequest finds a request there.
HasRequest(location) ==
  location[1] \in DOMAIN requests /\ location[2] \in DOMAIN requests[location[1]]
-----------------------------------------------------------------------------
(***************************************************************************)
(* The page navigates.                                                     *)
(***************************************************************************)
\* A request is added to those for u.
addToPageURLRequestsMap(r, u) ==
  [v \in DOMAIN r \cup {u} |->
     IF v # u THEN r[v] ELSE Append(IF u \in DOMAIN r THEN r[u] ELSE <<>>, FALSE)]

\* The hook in FrameLoader::load, with the requests r as they are by then.
handleFrameLoad(r, u) ==
  /\ requests' = CASE mode = "recording" -> addToPageURLRequestsMap(r, u)
                   [] mode = "replaying" -> markPageURLRequestAsConsumed(r, u)
                   [] mode = "off" -> r
  /\ loaded' = IF mode = "replaying" THEN loaded \cup {u} ELSE loaded

\* Aliases no longer lead back: one was replaced, or its URL was loaded too.
Doubt(then) ==
  IF \/ \E u \in DOMAIN aliases : aliases'[u] # aliases[u]
     \/ DOMAIN aliases' \cap DOMAIN requests' # {}
     \/ doubt = "aliases"
  THEN "aliases" ELSE then

Moving == mode # "off" /\ moves < MaxMoves /\ moves' = moves + 1

\* A load is begun, in place of one under way.
FrameLoad(u) ==
  /\ Moving
  /\ handleFrameLoad(requests, u)
  /\ loading' = u /\ UNCHANGED aliases
  /\ IF mode = "recording" THEN coming' = <<u, Len(requests'[u])>> /\ doubt' = Doubt("load")
     ELSE UNCHANGED <<coming, doubt>>
  /\ UNCHANGED <<mode, url, events, upcoming, begun, origin, forced>>

\* The URL changes without a load: pushState or replaceState.
handleUpdateForSameDocumentNavigation(u) ==
  /\ aliases' = IF mode = "recording" /\ u # url THEN setURLAlias(u, url) ELSE aliases
  /\ url' = u

SameDocumentNavigation(u) ==
  /\ Moving
  /\ url # Blank /\ u # url
  /\ handleUpdateForSameDocumentNavigation(u) /\ UNCHANGED requests
  /\ doubt' = IF mode = "recording" THEN Doubt(doubt) ELSE doubt
  /\ UNCHANGED <<mode, loading, events, upcoming, begun, origin, coming, forced, loaded>>

\* FrameLoader::load finds that only the fragment differs: a load under way is stopped.
FragmentNavigation(u) ==
  /\ Moving
  /\ url # Blank /\ u # url
  /\ handleFrameLoad(requests, u)
  /\ handleUpdateForSameDocumentNavigation(u)
  /\ loading' = NoURL
  /\ doubt' = IF mode = "recording" THEN Doubt(doubt) ELSE doubt
  /\ UNCHANGED <<mode, events, upcoming, begun, origin, coming, forced>>

\* FrameLoader::loadHistoryItem, which loads a page without a request in the map.
loadHistoryItem(u, same) ==
  /\ IF same THEN handleUpdateForSameDocumentNavigation(u) /\ loading' = NoURL
             ELSE loading' = u /\ UNCHANGED <<url, aliases>>
  /\ UNCHANGED requests
  /\ IF mode = "recording"
     THEN /\ coming' = IF same THEN coming ELSE <<NoURL, 0>>
          /\ doubt' = Doubt(IF same THEN doubt ELSE "load")
     ELSE UNCHANGED <<coming, doubt>>

\* The user goes back or forward.
HistoryNavigation(u, same) ==
  /\ Moving
  /\ url # Blank /\ u # url
  /\ loadHistoryItem(u, same)
  /\ events' = IF mode = "recording"
               THEN Append(events, [kind |-> "history", url |-> u, same |-> same])
               ELSE events
  /\ UNCHANGED <<mode, upcoming, begun, origin, forced, loaded>>

\* The load under way is redirected: addPendingRedirect.
Redirect(u) ==
  /\ Moving
  /\ loading \in URLs /\ u # loading
  /\ aliases' = IF mode = "recording" THEN setURLAlias(u, loading) ELSE aliases
  /\ loading' = u /\ UNCHANGED requests
  /\ doubt' = IF mode = "recording" THEN Doubt(doubt) ELSE doubt
  /\ UNCHANGED <<mode, url, events, upcoming, begun, origin, coming, forced,
                 loaded>>

\* The load replaces the page.
Commit ==
  /\ loading # NoURL
  /\ url' = loading /\ loading' = NoURL
  /\ IF mode = "recording"
     THEN /\ origin' = coming
          /\ doubt' = IF doubt = "load" /\ coming[1] # NoURL THEN "none" ELSE doubt
     ELSE UNCHANGED <<origin, doubt>>
  /\ UNCHANGED <<mode, storeVars, upcoming, moves, begun, coming, forced, loaded>>

\* The load fails, or is a download.
Cancel ==
  /\ Moving
  /\ loading # NoURL /\ loading' = NoURL
  /\ UNCHANGED <<mode, url, storeVars, upcoming, begun, pastVars>>
-----------------------------------------------------------------------------
(***************************************************************************)
(* A recording.                                                            *)
(***************************************************************************)
LoadEvent(u) == [kind |-> "load", url |-> u]
PageEvent(location, from, why) ==
  [kind |-> "page", url |-> url, location |-> location, origin |-> from, doubt |-> why]

\* The store is cleared; about:blank and then the page are loaded, and recorded with
\* a change of size between them that has no location.
StartRecording ==
  /\ mode # "replaying" /\ begun < MaxBegun
  /\ mode' = "recording"
  /\ aliases' = [u \in {} |-> NoURL]
  /\ requests' = [u \in {Blank, url} |-> IF url = Blank THEN <<FALSE, FALSE>> ELSE <<FALSE>>]
  /\ events' = <<LoadEvent(Blank), PageEvent(<<NoURL, 0>>, <<NoURL, 0>>, "load"), LoadEvent(url)>>
  /\ url' = Blank /\ loading' = url
  /\ upcoming' = 1
  /\ begun' = begun + 1 /\ UNCHANGED moves
  /\ origin' = <<Blank, 1>> /\ coming' = <<url, Len(requests'[url])>> /\ doubt' = "load"
  /\ forced' = <<>> /\ loaded' = {}

\* An input, a choice of a menu, an edit, an autofill, a scroll or a change of size.
RecordPageEvent ==
  /\ Moving
  /\ mode = "recording"
  /\ ChainEnds(url)
  /\ events' = Append(events, PageEvent(createMapLocation, origin, doubt))
  /\ UNCHANGED <<mode, pageVars, aliases, requests, upcoming, begun, pastVars>>

StopRecording ==
  /\ mode = "recording" /\ mode' = "off"
  /\ origin' = <<NoURL, 0>> /\ coming' = <<NoURL, 0>> /\ doubt' = "none"
  /\ UNCHANGED <<pageVars, storeVars, upcoming, moves, begun, forced, loaded>>
-----------------------------------------------------------------------------
(***************************************************************************)
(* A replay.                                                               *)
(***************************************************************************)
StartReplay ==
  /\ mode = "off" /\ events # <<>> /\ begun < MaxBegun
  /\ mode' = "replaying"
  /\ requests' = resetPageURLRequestsMap
  /\ upcoming' = 1
  /\ begun' = begun + 1
  /\ UNCHANGED <<pageVars, aliases, events, moves, pastVars>>

StopReplay ==
  /\ mode = "replaying" /\ mode' = "off"
  /\ forced' = <<>> /\ loaded' = {}
  /\ UNCHANGED <<pageVars, storeVars, upcoming, moves, begun, origin, coming, doubt>>

\* Neither the page's URL nor the root of its chain is the one of the event.
hasPageEventReplayIncongruence(e) ==
  url # e.url /\ findPageURLAliasChainRoot(url) # e.url

\* The request is there and has not been consumed.
CanHeal(e) ==
  /\ HasRequest(e.location)
  /\ ~requests[e.location[1]][e.location[2]]

\* The load that is forced is still to come when the event itself is injected.
attemptReplaySelfHealing(e) ==
  IF CanHeal(e)
  THEN /\ handleFrameLoad(setIsConsumed(requests, e.location), e.location[1])
       /\ loading' = e.location[1]
       /\ forced' = Append(forced, e.location)
  ELSE UNCHANGED <<requests, loading, forced, loaded>>

Injecting ==
  /\ mode = "replaying" /\ upcoming \in DOMAIN events
  /\ upcoming' = upcoming + 1

InjectLoad ==
  /\ Injecting
  /\ events[upcoming].kind = "load"
  /\ handleFrameLoad(requests, events[upcoming].url)
  /\ loading' = events[upcoming].url
  /\ UNCHANGED <<mode, url, aliases, events, moves, begun, origin, coming, doubt, forced>>

InjectHistory ==
  /\ Injecting
  /\ events[upcoming].kind = "history"
  /\ loadHistoryItem(events[upcoming].url, events[upcoming].same)
  /\ UNCHANGED <<mode, events, moves, begun, origin, forced, loaded>>

InjectPageEvent ==
  /\ Injecting
  /\ events[upcoming].kind = "page"
  /\ url # events[upcoming].url => ChainEnds(url)
  /\ IF hasPageEventReplayIncongruence(events[upcoming])
     THEN attemptReplaySelfHealing(events[upcoming])
     ELSE UNCHANGED <<requests, loading, forced, loaded>>
  /\ UNCHANGED <<mode, url, aliases, events, moves, begun, origin, coming, doubt>>
-----------------------------------------------------------------------------
HealingInit ==
  /\ mode = "off" /\ url \in URLs /\ loading = NoURL
  /\ aliases = [u \in {} |-> NoURL] /\ requests = [u \in {} |-> <<>>]
  /\ events = <<>> /\ upcoming = 1
  /\ moves = 0 /\ begun = 0
  /\ origin = <<NoURL, 0>> /\ coming = <<NoURL, 0>> /\ doubt = "none"
  /\ forced = <<>> /\ loaded = {}

HealingNext ==
  \/ \E u \in URLs : \/ FrameLoad(u) \/ Redirect(u)
                     \/ SameDocumentNavigation(u) \/ FragmentNavigation(u)
                     \/ \E same \in BOOLEAN : HistoryNavigation(u, same)
  \/ Commit \/ Cancel
  \/ StartRecording \/ RecordPageEvent \/ StopRecording
  \/ StartReplay \/ StopReplay \/ InjectLoad \/ InjectHistory
  \/ InjectPageEvent

HealingSpec == HealingInit /\ [][HealingNext]_healingVars
-----------------------------------------------------------------------------
\* The comment in findPageURLAliasChainRoot: its loop does not go on for ever over
\* circular chains of aliases.
AliasChainsEnd == mode = "recording" => ChainEnds(url)

\* Unless an alias was replaced, or its URL loaded too, or a load was under way or had
\* come to nothing, an event is recorded with the place of the very request its page
\* came from, however many redirects and changes of the URL lie between: a page that is
\* lost in a replay is brought back by its own request (createMapLocation).
LocationsAreOfTheirPages ==
  \A k \in DOMAIN events :
    events[k].kind = "page" /\ events[k].doubt = "none" =>
      events[k].location = events[k].origin

\* A replay forces no request twice, nor the first for a URL it has loaded before, and
\* the requests that are consumed are those of this replay, not of the one before:
\* attemptReplaySelfHealing, markPageURLRequestAsConsumed and resetPageURLRequestsMap.
HealingIsOnce ==
  mode = "replaying" =>
    /\ IsInjective(forced)
    /\ \A u \in DOMAIN requests : \A i \in DOMAIN requests[u] :
         requests[u][i] <=> \/ i = 1 /\ u \in loaded
                            \/ \E k \in DOMAIN forced : forced[k] = <<u, i>>

\* A page that is lost in a replay is brought back by the request it came from when it
\* was recorded, which is forced once in each replay (ForensicEventInjector).
HealingIsSound == LocationsAreOfTheirPages /\ HealingIsOnce
=============================================================================
