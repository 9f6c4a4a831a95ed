-------------------------- MODULE UserProgramProofs --------------------------
(***************************************************************************)
(* Proofs about UserProgram, for every number of groups and ads, every     *)
(* iteration order of cnts_ and every width of the counters.               *)
(***************************************************************************)
EXTENDS UserProgram, TLAPS

-----------------------------------------------------------------------------
(* The arithmetic of ad numbers.                                           *)

\* Each ad number of a group divides back to that group (user.cpp:117, 451).
LEMMA AdsOfGroup ==
    ASSUME NEW g \in Groups, NEW a \in AdsOf(g)
    PROVE  a \in AdNumbers /\ GroupOf(a) = g
<1>1. PICK r \in 0 .. AdsPerGroup - 1 : a = g * AdsPerGroup + r
  BY DEF AdsOf
<1>2. AdsPerGroup \in Nat \ {0} /\ NumGroups \in Nat \ {0}
  BY SizesAssumption
<1>3. g \in Nat /\ g <= NumGroups - 1
  BY <1>2 DEF Groups
<1>4. g * AdsPerGroup \in Nat /\ (NumGroups - 1) * AdsPerGroup \in Nat
  BY <1>2, <1>3
<1>5. g * AdsPerGroup <= (NumGroups - 1) * AdsPerGroup
  BY <1>2, <1>3
<1>6. (NumGroups - 1) * AdsPerGroup = NumGroups * AdsPerGroup - AdsPerGroup
  BY <1>2
<1>7. a \in AdNumbers
  BY <1>1, <1>2, <1>4, <1>5, <1>6 DEF AdNumbers, NumAds
<1>8. (g * AdsPerGroup + r) \div AdsPerGroup = g
  BY <1>1, <1>2, <1>3, <1>4
<1> QED
  BY <1>1, <1>7, <1>8 DEF GroupOf

\* The group of an ad number is a group (user.cpp:117).
LEMMA GroupOfAd ==
    ASSUME NEW a \in AdNumbers
    PROVE  GroupOf(a) \in Groups
<1>1. AdsPerGroup \in Nat \ {0} /\ NumGroups \in Nat \ {0}
  BY SizesAssumption
<1>2. a \in Nat /\ a < NumGroups * AdsPerGroup
  BY <1>1 DEF AdNumbers, NumAds
<1>3. a \div AdsPerGroup \in Nat /\ (a \div AdsPerGroup) * AdsPerGroup <= a
  BY <1>1, <1>2
<1>4. (a \div AdsPerGroup) * AdsPerGroup < NumGroups * AdsPerGroup
  BY <1>1, <1>2, <1>3
<1>5. a \div AdsPerGroup < NumGroups
  BY <1>1, <1>3, <1>4
<1> QED
  BY <1>1, <1>3, <1>5 DEF GroupOf, Groups

-----------------------------------------------------------------------------
(* Type correctness.                                                       *)

\* There is at least one ad in the database, so the width is not zero.
LEMMA WidthIsPositive == Width \in Nat \ {0}
  BY SizesAssumption DEF Width

\* A selection of the user program changes no variable out of its type.
LEMMA SelectedKeepsTypes ==
    ASSUME TypeOK, NEW v \in AdNumbers \cup {Unknown}, Selected(v)
    PROVE  /\ mode' \in {"server", "local"}
           /\ cnts' \in [Groups -> 0 .. Width - 1]
           /\ currAds' \subseteq AdNumbers
           /\ phase' \in {phase, "request"}
           /\ selection' \in AdNumbers \cup {Unknown}
           /\ requested' \in AdNumbers
           /\ clicks' \in [Groups -> Nat]
           /\ v \in currAds => GroupOf(v) \in Groups
<1>1. v \in currAds => GroupOf(v) \in Groups
  BY GroupOfAd DEF TypeOK
<1>2. /\ mode' \in {"server", "local"}
      /\ currAds' \subseteq AdNumbers
      /\ selection' \in AdNumbers \cup {Unknown}
  BY DEF TypeOK, Selected
<1>3. CASE v \in currAds
  <2>1. GroupOf(v) \in Groups
    BY <1>1, <1>3
  <2>2. (cnts[GroupOf(v)] + 1) % Width \in 0 .. Width - 1
    <3>1. cnts[GroupOf(v)] \in Nat
      BY <2>1, WidthIsPositive DEF TypeOK
    <3> QED
      BY <3>1, WidthIsPositive
  <2>3. cnts' \in [Groups -> 0 .. Width - 1] /\ clicks' \in [Groups -> Nat]
    BY <1>3, <2>1, <2>2 DEF TypeOK, Selected
  <2>4. requested' \in AdNumbers /\ phase' \in {phase, "request"}
    BY <1>3, AdsOfGroup DEF TypeOK, Selected
  <2> QED
    BY <1>1, <1>2, <2>3, <2>4
<1>4. CASE v \notin currAds
  BY <1>1, <1>2, <1>4 DEF TypeOK, Selected
<1> QED
  BY <1>3, <1>4

\* Ad 0 and group 0 always exist.
LEMMA ZeroIsAnAd == 0 \in AdNumbers /\ 0 \in Groups
<1>1. NumGroups \in Nat \ {0} /\ AdsPerGroup \in Nat \ {0}
  BY SizesAssumption
<1>2. NumGroups * AdsPerGroup \in Nat \ {0}
  BY <1>1
<1> QED
  BY <1>1, <1>2 DEF AdNumbers, NumAds, Groups

\* The program starts with every variable of its type.
LEMMA TypeInit == Init => TypeOK
<1> SUFFICES ASSUME Init PROVE TypeOK
  OBVIOUS
<1>1. 0 \in 0 .. Width - 1
  BY WidthIsPositive
<1> QED
  BY <1>1, ZeroIsAnAd DEF Init, TypeOK

\* Every step keeps the types.
LEMMA TypeStep == TypeOK /\ [Next]_vars => TypeOK'
<1> SUFFICES ASSUME TypeOK, [Next]_vars PROVE TypeOK'
  OBVIOUS
<1>1. CASE ObtainInitialAdSetServer
  <2>1. currAds' \subseteq AdNumbers
    <3>1. PICK pick \in [Groups -> 0 .. AdsPerGroup - 1] :
              currAds' = {g * AdsPerGroup + pick[g] : g \in Groups}
      BY <1>1 DEF ObtainInitialAdSetServer
    <3>2. \A g \in Groups : g * AdsPerGroup + pick[g] \in AdsOf(g)
      BY DEF AdsOf
    <3> QED
      BY <3>1, <3>2, AdsOfGroup
  <2> QED
    BY <1>1, <2>1 DEF TypeOK, ObtainInitialAdSetServer
<1>2. CASE ObtainInitialAdSetLocal
  <2>1. currAds' \subseteq AdNumbers
    BY <1>2, SizesAssumption DEF ObtainInitialAdSetLocal, AdNumbers, NumAds
  <2> QED
    BY <1>2, <2>1 DEF TypeOK, ObtainInitialAdSetLocal
<1>3. ASSUME NEW v \in AdNumbers \cup {Unknown}, EnterNumber(v)
      PROVE  TypeOK'
  <2>1. Selected(v)
    BY <1>3 DEF EnterNumber
  <2>2. typed' \in [Groups -> Nat]
    BY <1>3, <2>1, SelectedKeepsTypes DEF EnterNumber, TypeOK
  <2> QED
    BY <1>3, <2>1, <2>2, SelectedKeepsTypes DEF EnterNumber, TypeOK
<1>4. ASSUME NEW v \in {0, selection}, FailInput(v)
      PROVE  TypeOK'
  <2>1. v \in AdNumbers \cup {Unknown} /\ Selected(v)
    BY <1>4, ZeroIsAnAd DEF FailInput, TypeOK
  <2> QED
    BY <1>4, <2>1, SelectedKeepsTypes DEF FailInput, TypeOK
<1>5. CASE RepeatInput
  <2>1. selection \in AdNumbers \cup {Unknown} /\ Selected(selection)
    BY <1>5 DEF RepeatInput, TypeOK
  <2> QED
    BY <1>5, <2>1, SelectedKeepsTypes DEF RepeatInput, TypeOK
<1>6. CASE ReceiveAd
  <2>1. currAds' \subseteq currAds \cup {requested}
    BY <1>6 DEF ReceiveAd, RemoveLeastPopularAd
  <2> QED
    BY <1>6, <2>1 DEF TypeOK, ReceiveAd
<1>7. CASE QueryThrows
  BY <1>7 DEF TypeOK, QueryThrows
<1>8. CASE UNCHANGED vars
  BY <1>8 DEF TypeOK, vars
<1> QED
  BY <1>1, <1>2, <1>3, <1>4, <1>5, <1>6, <1>7, <1>8 DEF Next, Input

\* Every reachable state is well typed; in particular every ad on display and
\* every ad asked for is one of the server's ads.
THEOREM TypeCorrect == Spec => []TypeOK
  BY TypeInit, TypeStep, PTL DEF Spec

-----------------------------------------------------------------------------
(* No group leaves the display.                                            *)

\* Whatever removeLeastPopularAd erases, a group on display before is on
\* display after: the group it erases from keeps the other ad.
LEMMA RemovalKeepsGroups ==
    ASSUME NEW g \in Groups, Shown(g), NEW ads, currAds \subseteq ads,
           RemoveLeastPopularAd(ads)
    PROVE  Shown(g)'
<1>1. PICK h \in Groups :
          LET shown == ads \cap AdsOf(h) IN
              IF \E a, b \in shown : a # b
              THEN \E erased \in shown : currAds' = ads \ {erased}
              ELSE currAds' = ads
  BY DEF RemoveLeastPopularAd
<1>2. PICK x : x \in currAds \cap AdsOf(g)
  BY DEF Shown
<1>3. CASE currAds' = ads
  BY <1>2, <1>3 DEF Shown
<1>4. ASSUME currAds' # ads
      PROVE  Shown(g)'
  <2>1. PICK a \in ads \cap AdsOf(h), b \in ads \cap AdsOf(h) : a # b
    BY <1>1, <1>4
  <2>2. PICK erased \in ads \cap AdsOf(h) : currAds' = ads \ {erased}
    BY <1>1, <1>4
  <2>3. CASE h = g
    <3>1. a \in currAds' \/ b \in currAds'
      BY <2>1, <2>2
    <3> QED
      BY <2>1, <2>3, <3>1 DEF Shown
  <2>4. CASE h # g
    <3>1. x # erased
      BY <1>2, <2>2, <2>4, AdsOfGroup
    <3> QED
      BY <1>2, <2>2, <3>1 DEF Shown
  <2> QED
    BY <2>3, <2>4
<1> QED
  BY <1>3, <1>4

\* With the server, every group has an ad on display in every state after the
\* set-up, for any sequence of clicks, ads, duplicates and counter wraps.
THEOREM EveryGroupStaysShown == Spec => []EveryGroupShown
<1>1. Init => EveryGroupShown
  BY DEF Init, EveryGroupShown
<1>2. EveryGroupShown /\ [Next]_vars => EveryGroupShown'
  <2> SUFFICES ASSUME EveryGroupShown, [Next]_vars, NEW g \in Groups,
                      mode' = "server", phase' # "setup"
               PROVE  Shown(g)'
    BY DEF EveryGroupShown
  <2>1. CASE ObtainInitialAdSetServer
    <3>1. PICK pick \in [Groups -> 0 .. AdsPerGroup - 1] :
              currAds' = {k * AdsPerGroup + pick[k] : k \in Groups}
      BY <2>1 DEF ObtainInitialAdSetServer
    <3>2. g * AdsPerGroup + pick[g] \in AdsOf(g)
      BY DEF AdsOf
    <3> QED
      BY <3>1, <3>2 DEF Shown
  <2>2. CASE ObtainInitialAdSetLocal
    BY <2>2 DEF ObtainInitialAdSetLocal
  <2>3. CASE Input
    <3>1. mode = "server" /\ phase # "setup" /\ currAds' = currAds
      BY <2>3 DEF Input, EnterNumber, FailInput, RepeatInput, Selected
    <3> QED
      BY <3>1 DEF EveryGroupShown, Shown
  <2>4. CASE ReceiveAd
    <3>1. Shown(g) /\ RemoveLeastPopularAd(currAds \cup {requested})
      BY <2>4 DEF ReceiveAd, EveryGroupShown
    <3> QED
      BY <3>1, RemovalKeepsGroups
  <2>5. CASE QueryThrows
    BY <2>5 DEF QueryThrows, EveryGroupShown, Shown
  <2>6. CASE UNCHANGED vars
    BY <2>6 DEF vars, EveryGroupShown, Shown
  <2> QED
    BY <2>1, <2>2, <2>3, <2>4, <2>5, <2>6 DEF Next
<1> QED
  BY <1>1, <1>2, PTL DEF Spec

\* The group an ad number divides to lists that ad among its own.
LEMMA AdInItsGroup ==
    ASSUME NEW a \in AdNumbers
    PROVE  a \in AdsOf(GroupOf(a))
<1>1. AdsPerGroup \in Nat \ {0} /\ NumGroups \in Nat \ {0}
  BY SizesAssumption
<1>2. a \in Nat
  BY <1>1 DEF AdNumbers
<1> DEFINE r == a % AdsPerGroup
<1>3. r \in 0 .. AdsPerGroup - 1 /\ a = (a \div AdsPerGroup) * AdsPerGroup + r
  BY <1>1, <1>2
<1> QED
  BY <1>3 DEF AdsOf, GroupOf

NoClickBeforeSetup ==
    phase = "setup" => \A g \in Groups : clicks[g] = 0

CountedInv == TypeOK /\ NoClickBeforeSetup /\ CountedGroupsShown

\* A click is only ever counted for a displayed ad's group, and that group
\* stays: in both modes, every counted group is on display.
THEOREM CountedGroupsStayShown == Spec => []CountedGroupsShown
<1>1. Init => CountedInv
  BY TypeInit DEF Init, CountedInv, NoClickBeforeSetup, CountedGroupsShown
<1>2. CountedInv /\ [Next]_vars => CountedInv'
  <2> SUFFICES ASSUME CountedInv, [Next]_vars
               PROVE  NoClickBeforeSetup' /\ CountedGroupsShown'
    BY TypeStep DEF CountedInv
  <2>1. CASE ObtainInitialAdSetServer \/ ObtainInitialAdSetLocal
    <3>1. phase = "setup" /\ phase' = "prompt" /\ clicks' = clicks
      BY <2>1 DEF ObtainInitialAdSetServer, ObtainInitialAdSetLocal
    <3> QED
      BY <3>1 DEF CountedInv, NoClickBeforeSetup, CountedGroupsShown
  <2>2. CASE Input
    <3>1. PICK v \in AdNumbers \cup {Unknown} : phase = "prompt" /\ Selected(v)
      BY <2>2, ZeroIsAnAd
      DEF Input, EnterNumber, FailInput, RepeatInput, CountedInv, TypeOK
    <3>2. phase' # "setup" /\ currAds' = currAds
      BY <3>1 DEF Selected
    <3>3. ASSUME NEW g \in Groups, clicks'[g] > 0
          PROVE  Shown(g)
      <4>1. CASE v \in currAds /\ g = GroupOf(v)
        <5>1. v \in AdsOf(g)
          BY <4>1, AdInItsGroup DEF CountedInv, TypeOK
        <5> QED
          BY <4>1, <5>1 DEF Shown
      <4>2. CASE ~(v \in currAds /\ g = GroupOf(v))
        <5>1. clicks'[g] = clicks[g]
          BY <3>1, <4>2 DEF Selected, CountedInv, TypeOK
        <5> QED
          BY <3>3, <5>1 DEF CountedInv, CountedGroupsShown
      <4> QED
        BY <4>1, <4>2
    <3> QED
      BY <3>2, <3>3 DEF NoClickBeforeSetup, CountedGroupsShown, Shown
  <2>3. CASE ReceiveAd
    <3>1. /\ phase' # "setup" /\ clicks' = clicks
          /\ RemoveLeastPopularAd(currAds \cup {requested})
      BY <2>3 DEF ReceiveAd
    <3>2. \A g \in Groups : Shown(g) => Shown(g)'
      BY <3>1, RemovalKeepsGroups
    <3> QED
      BY <3>1, <3>2 DEF CountedInv, NoClickBeforeSetup, CountedGroupsShown
  <2>4. CASE QueryThrows
    BY <2>4 DEF QueryThrows, CountedInv, NoClickBeforeSetup, CountedGroupsShown, Shown
  <2>5. CASE UNCHANGED vars
    BY <2>5 DEF vars, CountedInv, NoClickBeforeSetup, CountedGroupsShown, Shown
  <2> QED
    BY <2>1, <2>2, <2>3, <2>4, <2>5 DEF Next
<1>3. CountedInv => CountedGroupsShown
  BY DEF CountedInv
<1> QED
  BY <1>1, <1>2, <1>3, PTL DEF Spec

-----------------------------------------------------------------------------
(* The ad asked for, and its survival of the eviction.                     *)

\* The counters are the clicks, seen through an unsigned int.
CountsAreClicks ==
    \A g \in Groups : cnts[g] = clicks[g] % Width

\* While a request is under way its ad is one of the most popular group.
RequestFromMostPopular ==
    phase = "request" =>
        \E g \in Groups : IsMostPopular(cnts, g) /\ requested \in AdsOf(g)

PreferenceInv == TypeOK /\ CountsAreClicks /\ RequestFromMostPopular

\* Counting modulo the width and counting first agree after one more click.
LEMMA CountOneMore ==
    ASSUME NEW n \in Nat
    PROVE  ((n % Width) + 1) % Width = (n + 1) % Width
<1> DEFINE q == n \div Width
           m == n % Width
<1>1. Width \in Nat \ {0} /\ q \in Nat /\ m \in 0 .. Width - 1 /\ n = q * Width + m
  BY WidthIsPositive
<1> HIDE DEF q, m
<1>2. CASE m + 1 < Width
  <2>1. n + 1 = q * Width + (m + 1) /\ m + 1 \in 0 .. Width - 1
    BY <1>1, <1>2
  <2>2. (q * Width + (m + 1)) % Width = m + 1
    BY <1>1, <2>1
  <2>3. (m + 1) % Width = m + 1
    BY <1>1, <2>1
  <2> QED
    BY <2>1, <2>2, <2>3 DEF m
<1>3. CASE m + 1 = Width
  <2>1. n + 1 = (q + 1) * Width
    BY <1>1, <1>3
  <2>2. ((q + 1) * Width) % Width = 0 /\ Width % Width = 0
    BY <1>1
  <2> QED
    BY <1>3, <2>1, <2>2 DEF m
<1> QED
  BY <1>1, <1>2, <1>3

\* A request stays preferred from one step to the next.
LEMMA PreferenceInductive ==
    /\ Init => PreferenceInv
    /\ PreferenceInv /\ [Next]_vars => PreferenceInv'
<1>1. ASSUME Init
      PROVE  PreferenceInv
  <2>1. 0 % Width = 0
    BY WidthIsPositive
  <2> QED
    BY <1>1, <2>1, TypeInit DEF Init, PreferenceInv, CountsAreClicks, RequestFromMostPopular
<1>2. ASSUME PreferenceInv, [Next]_vars
      PROVE  PreferenceInv'
  <2>1. TypeOK'
    BY <1>2, TypeStep DEF PreferenceInv
  <2>2. CASE Input
    <3>1. PICK v \in AdNumbers \cup {Unknown} : phase = "prompt" /\ Selected(v)
      BY <1>2, <2>2, ZeroIsAnAd
      DEF Input, EnterNumber, FailInput, RepeatInput, PreferenceInv, TypeOK
    <3>2. CASE v \in currAds
      <4>1. ASSUME NEW g \in Groups
            PROVE  cnts'[g] = clicks'[g] % Width
        <5>1. CASE g = GroupOf(v)
          <6>1. /\ cnts'[g] = (cnts[g] + 1) % Width
                /\ clicks'[g] = clicks[g] + 1
            BY <1>2, <3>1, <3>2, <4>1, <5>1 DEF Selected, PreferenceInv, TypeOK
          <6>2. cnts[g] = clicks[g] % Width /\ clicks[g] \in Nat
            BY <1>2, <4>1 DEF PreferenceInv, CountsAreClicks, TypeOK
          <6> QED
            BY <6>1, <6>2, CountOneMore
        <5>2. CASE g # GroupOf(v)
          <6>1. cnts'[g] = cnts[g] /\ clicks'[g] = clicks[g]
            BY <1>2, <3>1, <3>2, <4>1, <5>2 DEF Selected, PreferenceInv, TypeOK
          <6> QED
            BY <1>2, <4>1, <6>1 DEF PreferenceInv, CountsAreClicks
        <5> QED
          BY <5>1, <5>2
      <4>2. RequestFromMostPopular'
        BY <3>1, <3>2 DEF Selected, RequestFromMostPopular
      <4> QED
        BY <2>1, <4>1, <4>2 DEF PreferenceInv, CountsAreClicks
    <3>3. CASE v \notin currAds
      BY <1>2, <2>1, <3>1, <3>3
      DEF Selected, PreferenceInv, CountsAreClicks, RequestFromMostPopular
    <3> QED
      BY <3>2, <3>3
  <2>3. CASE ObtainInitialAdSetServer \/ ObtainInitialAdSetLocal \/ ReceiveAd \/ QueryThrows
    <3>1. cnts' = cnts /\ clicks' = clicks /\ phase' # "request"
      BY <2>3 DEF ObtainInitialAdSetServer, ObtainInitialAdSetLocal, ReceiveAd, QueryThrows
    <3> QED
      BY <1>2, <2>1, <3>1 DEF PreferenceInv, CountsAreClicks, RequestFromMostPopular
  <2>4. CASE UNCHANGED vars
    BY <1>2, <2>1, <2>4
    DEF vars, PreferenceInv, CountsAreClicks, RequestFromMostPopular, IsMostPopular
  <2> QED
    BY <1>2, <2>2, <2>3, <2>4 DEF Next
<1> QED
  BY <1>1, <1>2

\* The ad asked for is of a group clicked at least as often as any other,
\* however the ties fall, as long as no counter has wrapped.
THEOREM RequestStaysPreferred == Spec => []RequestIsPreferred
<1>1. PreferenceInv => RequestIsPreferred
  <2> SUFFICES ASSUME PreferenceInv, phase = "request",
                      \A k \in Groups : clicks[k] < Width, NEW h \in Groups
               PROVE  clicks[GroupOf(requested)] >= clicks[h]
    BY DEF RequestIsPreferred
  <2>1. PICK g \in Groups : IsMostPopular(cnts, g) /\ requested \in AdsOf(g)
    BY DEF PreferenceInv, RequestFromMostPopular
  <2>2. GroupOf(requested) = g
    BY <2>1, AdsOfGroup
  <2>3. \A k \in Groups : clicks[k] \in Nat /\ cnts[k] = clicks[k]
    BY WidthIsPositive DEF PreferenceInv, CountsAreClicks, TypeOK
  <2>4. cnts[g] >= cnts[h]
    BY <2>1, <2>3 DEF IsMostPopular
  <2> QED
    BY <2>2, <2>3, <2>4
<1> QED
  BY <1>1, PreferenceInductive, PTL DEF Spec

\* The ad that arrives is the one evicted only when the counts do not tell the
\* groups apart.
THEOREM FreshAdSurvives == Spec => FreshAdKept
<1>1. ASSUME PreferenceInv, [Next]_vars, phase = "request",
             requested \notin currAds', phase' # "stopped",
             UNCHANGED vars => FALSE
      PROVE  \/ \A g, h \in Groups : cnts[g] = cnts[h]
             \/ \A g \in Groups : cnts[g] >= IntMax
  <2>1. ReceiveAd
    BY <1>1 DEF Next, Input, ObtainInitialAdSetServer, ObtainInitialAdSetLocal,
                EnterNumber, FailInput, RepeatInput, QueryThrows
  <2>2. PICK least \in Groups : IsLeastPopular(cnts, least) /\ requested \in AdsOf(least)
    BY <1>1, <2>1 DEF ReceiveAd, RemoveLeastPopularAd
  <2>3. PICK most \in Groups : IsMostPopular(cnts, most) /\ requested \in AdsOf(most)
    BY <1>1 DEF PreferenceInv, RequestFromMostPopular
  <2>4. least = most
    BY <2>2, <2>3, AdsOfGroup
  <2>5. \A g \in Groups : cnts[g] \in Nat
    BY <1>1, WidthIsPositive DEF PreferenceInv, TypeOK
  <2>6. \A g \in Groups : cnts[most] >= cnts[g]
    BY <2>3, <2>5 DEF IsMostPopular
  <2>7. CASE \A g \in Groups : cnts[g] >= IntMax
    BY <2>7
  <2>8. CASE ~(\A g \in Groups : cnts[g] >= IntMax)
    <3>1. \A g \in Groups : cnts[most] <= cnts[g]
      BY <2>2, <2>4, <2>5, <2>8 DEF IsLeastPopular
    <3>2. \A g \in Groups : cnts[g] = cnts[most]
      BY <2>5, <2>6, <3>1
    <3> QED
      BY <3>2
  <2> QED
    BY <2>7, <2>8
<1>2. PreferenceInv /\ [Next]_vars =>
        [ phase = "request" /\ requested \notin currAds'
            => \/ phase' = "stopped"
               \/ \A g, h \in Groups : cnts[g] = cnts[h]
               \/ \A g \in Groups : cnts[g] >= IntMax ]_vars
  BY <1>1
<1> QED
  BY <1>2, PreferenceInductive, PTL DEF Spec, FreshAdKept

=============================================================================
