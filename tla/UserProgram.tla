----------------------------- MODULE UserProgram -----------------------------
(***************************************************************************)
(* The user's program (src/src/user.cpp): the ads on display, the count of *)
(* clicks per ad group, the choice of the next ad to ask the server for,   *)
(* and the eviction of an ad of the least popular group when it arrives.   *)
(* The connection to the server is module AdSession; here a request is     *)
(* answered by the ad that was asked for, or ends the program.             *)
(***************************************************************************)
EXTENDS Integers

CONSTANTS
    NumGroups,     \* TTL_NUMBER_GRPS
    AdsPerGroup,   \* TTL_ADS_PER_GROUP
    IntMax,        \* INT_MAX; an unsigned int counts modulo 2 * IntMax + 2
    LocalLimit,    \* end and stride of the loop that fills the local ad set
    LocalStep,
    Rank,          \* place of each group in the iteration order of cnts_
    Degree,        \* poly_modulus_degree, 4096 in the program
    MaxClicks      \* bound on the clicks of each group (model checking only)

Groups    == 0 .. NumGroups - 1
NumAds    == NumGroups * AdsPerGroup
AdNumbers == 0 .. NumAds - 1
Unknown   == NumAds               \* stands for every number that is no ad
Width     == 2 * IntMax + 2       \* values of an unsigned int

ASSUME SizesAssumption ==
    /\ NumGroups \in Nat \ {0}
    /\ AdsPerGroup \in Nat \ {0}
    /\ IntMax \in Nat \ {0}
    /\ LocalLimit \in 0 .. NumAds
    /\ LocalStep \in Nat \ {0}
    /\ Degree \in Nat
    /\ MaxClicks \in Nat
ASSUME RankAssumption ==
    /\ Rank \in [Groups -> Nat]
    /\ \A g, h \in Groups : Rank[g] = Rank[h] => g = h

VARIABLES
    mode,        \* runWithServer or runLocal, which main_user calls
    cnts,        \* cnts_: clicks counted for each group
    currAds,     \* currAds_: the numbers of the ads on display
    phase,       \* where the program waits
    selection,   \* userSelection, uninitialised until the first input
    cin,         \* state of the input stream; no code ever clears "fail"
    requested,   \* adRequested, while a request is under way
    clicks,      \* history: clicks handled for each group
    typed        \* history: those of them the user typed as a number

vars == <<mode, cnts, currAds, phase, selection, cin, requested, clicks, typed>>

-----------------------------------------------------------------------------
GroupOf(ad) == ad \div AdsPerGroup

\* Faulty variant: one ad too many in the range of rand().
AdsOfOneTooMany(g) == {g * AdsPerGroup + r : r \in 0 .. AdsPerGroup}

AdsOf(g) == {g * AdsPerGroup + r : r \in 0 .. AdsPerGroup - 1}

\* The loop keeps the first group, in iteration order, that exceeds all those
\* before it: the group of the highest count that comes first.  Counts that
\* are all zero leave the initial 0.
IsMostPopular(c, g) ==
    IF \A h \in Groups : c[h] = 0
    THEN g = 0
    ELSE \A h \in Groups : \/ c[g] > c[h]
                           \/ c[g] = c[h] /\ Rank[g] <= Rank[h]

\* Faulty variant: the comparison of removeLeastPopularAd turned round.
HighestCount(c, g) ==
    \A h \in Groups : \/ c[g] > c[h]
                      \/ c[g] = c[h] /\ Rank[g] <= Rank[h]

\* Likewise for the lowest count, provided one is below INT_MAX.
IsLeastPopular(c, g) ==
    IF \A h \in Groups : c[h] >= IntMax
    THEN g = 0
    ELSE \A h \in Groups : \/ c[g] < c[h]
                           \/ c[g] = c[h] /\ Rank[g] <= Rank[h]

\* Faulty variant: the first ad found goes, without waiting for a second.
RemoveFirstFound(ads) ==
    \E g \in Groups :
        /\ IsLeastPopular(cnts, g)
        /\ LET shown == ads \cap AdsOf(g) IN
               IF shown # {}
               THEN \E erased \in shown : currAds' = ads \ {erased}
               ELSE currAds' = ads

\* removeLeastPopularAd on the ads in "ads": the first ad of the least popular
\* group met in the iteration stays, the second goes.  The order of currAds_
\* depends on its buckets and its past, so any of them can be the second.
RemoveLeastPopularAd(ads) ==
    \E g \in Groups :
        /\ IsLeastPopular(cnts, g)
        /\ LET shown == ads \cap AdsOf(g) IN
               IF \E a, b \in shown : a # b
               THEN \E erased \in shown : currAds' = ads \ {erased}
               ELSE currAds' = ads

-----------------------------------------------------------------------------
TypeOK ==
    /\ mode \in {"server", "local"}
    /\ cnts \in [Groups -> 0 .. Width - 1]
    /\ currAds \subseteq AdNumbers
    /\ phase \in {"setup", "prompt", "request", "stopped"}
    /\ selection \in AdNumbers \cup {Unknown}
    /\ cin \in {"good", "fail"}
    /\ requested \in AdNumbers
    /\ clicks \in [Groups -> Nat]
    /\ typed \in [Groups -> Nat]

Init ==
    /\ mode \in {"server", "local"}
    /\ cnts = [g \in Groups |-> 0]
    /\ currAds = {}
    /\ phase = "setup"
    /\ selection \in AdNumbers \cup {Unknown}
    /\ cin = "good"
    /\ requested = 0
    /\ clicks = [g \in Groups |-> 0]
    /\ typed = [g \in Groups |-> 0]

\* The server answers OBTAIN with one ad of each group.
ObtainInitialAdSetServer ==
    /\ mode = "server"
    /\ phase = "setup"
    /\ \E pick \in [Groups -> 0 .. AdsPerGroup - 1] :
           currAds' = {g * AdsPerGroup + pick[g] : g \in Groups}
    /\ phase' = "prompt"
    /\ UNCHANGED <<mode, cnts, selection, cin, requested, clicks, typed>>

ObtainInitialAdSetLocal ==
    /\ mode = "local"
    /\ phase = "setup"
    /\ currAds' = {i \in 0 .. LocalLimit - 1 : i % LocalStep = 0}
    /\ phase' = "prompt"
    /\ UNCHANGED <<mode, cnts, selection, cin, requested, clicks, typed>>

\* Faulty variant: the ad is chosen before the click is counted.
SelectedChoosingFirst(v) ==
    /\ selection' = v
    /\ IF v \in currAds
       THEN /\ cnts' = [cnts EXCEPT ![GroupOf(v)] = (@ + 1) % Width]
            /\ clicks' = [clicks EXCEPT ![GroupOf(v)] = @ + 1]
            /\ \E g \in Groups : IsMostPopular(cnts, g) /\ requested' \in AdsOf(g)
            /\ phase' = "request"
       ELSE UNCHANGED <<cnts, clicks, requested, phase>>
    /\ UNCHANGED <<mode, currAds>>

\* Faulty variant: any ad number is accepted, displayed or not.
SelectedUnchecked(v) ==
    /\ selection' = v
    /\ IF v \in AdNumbers
       THEN /\ cnts' = [cnts EXCEPT ![GroupOf(v)] = (@ + 1) % Width]
            /\ clicks' = [clicks EXCEPT ![GroupOf(v)] = @ + 1]
       ELSE UNCHANGED <<cnts, clicks>>
    /\ UNCHANGED <<mode, currAds, requested, phase>>

\* What follows an input operation that left userSelection at v: a number that
\* is on display is a click, every other one makes the program ask again.  With
\* the server, the click's group is counted first and the ad to ask for is then
\* drawn from the most popular group; updateAdSetLocal does nothing.
Selected(v) ==
    /\ selection' = v
    /\ IF v \in currAds
       THEN /\ cnts' = [cnts EXCEPT ![GroupOf(v)] = (@ + 1) % Width]
            /\ clicks' = [clicks EXCEPT ![GroupOf(v)] = @ + 1]
            /\ IF mode = "server"
               THEN /\ \E g \in Groups : /\ IsMostPopular(cnts', g)
                                         /\ requested' \in AdsOf(g)
                    /\ phase' = "request"
               ELSE UNCHANGED <<requested, phase>>
       ELSE UNCHANGED <<cnts, clicks, requested, phase>>
    /\ UNCHANGED <<mode, currAds>>

MayClick(v) ==
    v \in currAds => clicks[GroupOf(v)] < MaxClicks

\* std::cin >> userSelection with a number on the input.
EnterNumber(v) ==
    /\ phase = "prompt"
    /\ cin = "good"
    /\ MayClick(v)
    /\ Selected(v)
    /\ typed' = IF v \in currAds THEN [typed EXCEPT ![GroupOf(v)] = @ + 1] ELSE typed
    /\ UNCHANGED cin

\* Text that is no number stores 0; the end of the input stores nothing.
FailInput(v) ==
    /\ phase = "prompt"
    /\ cin = "good"
    /\ v \in {0, selection}
    /\ MayClick(v)
    /\ Selected(v)
    /\ cin' = "fail"
    /\ UNCHANGED typed

\* On a failed stream every further >> returns at once and stores nothing.
RepeatInput ==
    /\ phase = "prompt"
    /\ cin = "fail"
    /\ MayClick(selection)
    /\ Selected(selection)
    /\ UNCHANGED <<cin, typed>>

\* updateAdSetServer: the answer is inserted (an ad already on display stays as
\* it is) and an ad of the least popular group is removed.
ReceiveAd ==
    /\ phase = "request"
    /\ requested # Degree
    /\ RemoveLeastPopularAd(currAds \cup {requested})
    /\ phase' = "prompt"
    /\ UNCHANGED <<mode, cnts, selection, cin, requested, clicks, typed>>

\* generate_query is given the ad number, not the index of its plaintext; its
\* bound is off by one and coefficient Degree does not exist: at() throws.
QueryThrows ==
    /\ phase = "request"
    /\ requested = Degree
    /\ phase' = "stopped"
    /\ UNCHANGED <<mode, cnts, currAds, selection, cin, requested, clicks, typed>>

Input ==
    \/ \E v \in AdNumbers \cup {Unknown} : EnterNumber(v)
    \/ \E v \in {0, selection} : FailInput(v)
    \/ RepeatInput

Next ==
    \/ ObtainInitialAdSetServer
    \/ ObtainInitialAdSetLocal
    \/ Input
    \/ ReceiveAd
    \/ QueryThrows

Spec == Init /\ [][Next]_vars

-----------------------------------------------------------------------------
Shown(g) == currAds \cap AdsOf(g) # {}

\* With the server, once set up the display never loses a group: whatever ads
\* are asked for, inserted twice or evicted, every group can still be clicked.
EveryGroupShown ==
    mode = "server" /\ phase # "setup" => \A g \in Groups : Shown(g)

\* A preference is only ever counted for a group that is still on display.
CountedGroupsShown ==
    \A g \in Groups : clicks[g] > 0 => Shown(g)

\* The ad asked of the server belongs to a group that the user has clicked at
\* least as often as any other, over the whole run, until a counter wraps.
RequestIsPreferred ==
    phase = "request" /\ (\A g \in Groups : clicks[g] < Width)
        => \A g \in Groups : clicks[GroupOf(requested)] >= clicks[g]

\* The eviction that follows the arrival of an ad takes that same ad only when
\* the counts do not tell the groups apart: all equal, or all out of INT_MAX.
FreshAdKept ==
    [][ phase = "request" /\ requested \notin currAds'
          => \/ phase' = "stopped"
             \/ \A g, h \in Groups : cnts[g] = cnts[h]
             \/ \A g \in Groups : cnts[g] >= IntMax ]_vars

\* user.hpp:44 and the prompt of user.cpp:436: a click is a number the user
\* entered.
ClicksAreEntered == clicks = typed

\* user.cpp:54 and 417: the loop of displays, clicks and requests never ends.
RunsForever == phase # "stopped"

=============================================================================
