--------------------------- MODULE TransportProof ---------------------------
(***************************************************************************)
(* Theorems about Transport, for any agents, URLs, runs, tokens and any    *)
(* number of handovers.  The map from URLs to agent ids holds what a run   *)
(* was last told by the agent behind a URL, for as long as the URL is not  *)
(* disturbed; from that follows what the run's calls carry and whom they   *)
(* reach.                                                                  *)
(***************************************************************************)
EXTENDS Transport, FiniteSetTheorems, TLAPS

Places == {"new", "discover", "collect", "rounds", "done", "failed"}

\* Before discovery is over.
Early == {"new", "discover"}

\* With its own proposal asked for.
Late == {"rounds", "done", "failed"}

\* PeerUrls, Named and UrlOf for a list, a run's manifests and what it fetched.
UrlsIn(list) == {list[i] : i \in DOMAIN list}

NamedIn(known, seen) == {known[u] : u \in seen} \ {None}

UrlIn(list, known, a) ==
    IF a = Self THEN SelfUrl ELSE list[Max({i \in DOMAIN list : known[list[i]] = a})]

TypeOK ==
    /\ peers \in PeerLists
    /\ host \in [Urls -> Agents \cup {None}]
    /\ ids \in [Urls -> Agents \cup {"*"}]
    /\ pc \in [Runs -> Places]
    /\ manifest \in [Runs -> [Urls -> Agents \cup {None}]]
    /\ fetched \in [Runs -> SUBSET Urls]
    /\ asked \in [Runs -> SUBSET (Agents \X Urls)]
    /\ answers \in [Runs -> [Agents -> Nat]]
    /\ disturbed \in [Runs -> SUBSET Urls]

\* A run discovers all of its peers before it asks any, and asks each at the
\* URL it was discovered at; the initiator's own URL is never another's.
PhaseInv ==
    /\ host[SelfUrl] = Self
    /\ \A r \in Runs :
        /\ manifest[r][SelfUrl] \in {None, Self}
        /\ pc[r] = "new" => \A u \in Urls : manifest[r][u] = None
        /\ pc[r] \in Early => asked[r] = {} /\ \A a \in Agents : answers[r][a] = 0
        /\ pc[r] \notin Early =>
              /\ fetched[r] = UrlsIn(peers)
              /\ ids[SelfUrl] = Self
              /\ \A t \in asked[r] : /\ t[1] \in NamedIn(manifest[r], fetched[r])
                                     /\ t[2] = UrlIn(peers, manifest[r], t[1])

\* Where a URL is not disturbed, what a run was told still holds, and the map
\* says so, too; what the map says of a URL, some run was told there.
MapInv ==
    \A r \in Runs, u \in Urls : manifest[r][u] # None =>
        /\ u \notin disturbed[r] =>
              /\ host[u] = manifest[r][u]
              /\ u \in fetched[r] => ids[u] = manifest[r][u]
        /\ u \in fetched[r] =>
              \E s \in Runs : u \in fetched[s] /\ manifest[s][u] = ids[u] /\ ids[u] # None

\* The last call was made by a run that has discovered its peers.
CallInv ==
    /\ last # None => last.run \in Runs /\ pc[last.run] \notin Early
    /\ FreshCallsReachTheirAgent
    /\ AnswersAreAttributed

\* An undisturbed run has one answer at most of each agent it has asked, and
\* one of the initiator besides.
AskInv ==
    \A r \in Runs : disturbed[r] = {} =>
        \A a \in Agents :
            answers[r][a] <= (IF \E t \in asked[r] : t[1] = a THEN 1 ELSE 0)
                             + (IF a = Self /\ pc[r] \in Late THEN 1 ELSE 0)

IInv == TypeOK /\ PhaseInv /\ MapInv /\ CallInv /\ AskInv
-----------------------------------------------------------------------------
(* The URL of an agent. *)

\* A finite, nonempty set of numbers has a greatest element: the one that has
\* the fewest from it on.
LEMMA MaxExists ==
    ASSUME NEW S, S \subseteq Nat, IsFiniteSet(S), S # {}
    PROVE  Max(S) \in S
<1> DEFINE From(x) == {y \in S : y >= x}
           Tails == {From(x) : x \in S}
<1>1. Tails \subseteq FiniteSubsetsOf(S)
  BY FS_Subset DEF FiniteSubsetsOf
<1>2. Tails # {}
  OBVIOUS
<1>3. PICK T \in Tails : \A U \in Tails : ~(<<U, T>> \in StrictSubsetOrdering(S))
  <2> HIDE DEF Tails
  <2>1. IsWellFoundedOn(StrictSubsetOrdering(S), FiniteSubsetsOf(S))
    BY FS_StrictSubsetOrderingWellFounded
  <2> QED
    BY <1>1, <1>2, <2>1, WFMin
<1>4. PICK x \in S : T = From(x)
  OBVIOUS
<1>5. \A y \in S : x >= y
  <2> SUFFICES ASSUME NEW y \in S, ~(x >= y) PROVE FALSE
    OBVIOUS
  <2>1. From(y) \subseteq From(x) /\ x \in From(x) /\ x \notin From(y)
    <3>1. x \in Nat /\ y \in Nat /\ y > x /\ x >= x
      OBVIOUS
    <3>2. \A z \in S : z >= y => z >= x
      BY <3>1
    <3>3. From(y) \subseteq From(x)
      BY <3>2
    <3>4. x \in From(x) /\ x \notin From(y)
      BY <3>1
    <3> QED
      BY <3>3, <3>4
  <2>2. <<From(y), From(x)>> \in StrictSubsetOrdering(S)
    BY <2>1 DEF StrictSubsetOrdering
  <2> QED
    BY <1>3, <1>4, <2>2
<1> QED
  BY <1>5 DEF Max

\* The operators of the model in terms of the state of one run.
LEMMA Unprimed ==
    /\ PeerUrls = UrlsIn(peers)
    /\ \A r : Named(r) = NamedIn(manifest[r], fetched[r])
    /\ \A r, a : UrlOf(r, a) = UrlIn(peers, manifest[r], a)
BY DEF PeerUrls, UrlsIn, Named, NamedIn, UrlOf, UrlIn

\* The URL at which a run asks an agent is one where it was told of that agent.
LEMMA UrlOfTarget ==
    ASSUME NEW list \in PeerLists, NEW known \in [Urls -> Agents \cup {None}],
           NEW a \in NamedIn(known, UrlsIn(list)) \cup {Self}
    PROVE  /\ a \in Agents
           /\ UrlIn(list, known, a) \in Urls
           /\ a = Self => UrlIn(list, known, a) = SelfUrl
           /\ a # Self => /\ UrlIn(list, known, a) \in UrlsIn(list)
                          /\ known[UrlIn(list, known, a)] = a
<1>1. list \in Seq(Urls)
  BY TransportAssumption
<1>2. UrlsIn(list) \subseteq Urls
  BY <1>1 DEF UrlsIn
<1>3. a \in Agents
  BY <1>2, TransportAssumption DEF NamedIn
<1>4. CASE a = Self
  BY <1>3, <1>4, TransportAssumption DEF UrlIn
<1>5. CASE a # Self
  <2> DEFINE at == {i \in DOMAIN list : known[list[i]] = a}
  <2>1. at # {}
    BY <1>5 DEF NamedIn, UrlsIn
  <2>2. at \subseteq 1 .. Len(list) /\ 1 .. Len(list) \subseteq Nat /\ Len(list) \in Nat
    BY <1>1
  <2>3. IsFiniteSet(at)
    <3>1. IsFiniteSet(1 .. Len(list))
      BY <2>2, FS_Interval
    <3> QED
      BY <2>2, <3>1, FS_Subset
  <2>4. Max(at) \in at
    <3> HIDE DEF at
    <3> QED
      BY <2>1, <2>2, <2>3, MaxExists
  <2>5. UrlIn(list, known, a) = list[Max(at)]
    BY <1>5 DEF UrlIn
  <2>6. list[Max(at)] \in UrlsIn(list) /\ known[list[Max(at)]] = a
    BY <2>4 DEF UrlsIn
  <2> QED
    BY <1>2, <1>3, <1>5, <2>5, <2>6
<1> QED
  BY <1>4, <1>5
-----------------------------------------------------------------------------
(* Calls. *)

\* A call by a run that has discovered its peers, at the URL where it was told
\* of the agent, is as the two properties of the last call say.
LEMMA CallHolds ==
    ASSUME TypeOK, PhaseInv, MapInv,
           NEW r \in Runs, pc[r] \notin Early,
           NEW a \in Named(r) \cup {Self},
           NEW c, c = Call(r, a, UrlOf(r, a))
    PROVE  /\ c.run = r
           /\ c.accepted => c.by \in Agents
           /\ c.url \notin disturbed[r] => c.by = a
           /\ c.url \notin disturbed[r] =>
                 (c.accepted <=> PeerToken(a) = Bearer[a] /\ Bearer[a] # None)
           /\ c.agent = a
           /\ c.accepted /\ c.by # a =>
                 \E s \in Runs :
                     /\ c.url \in fetched[s] /\ manifest[s][c.url] # None
                     /\ PeerToken(manifest[s][c.url]) = Bearer[c.by]
<1> DEFINE u == UrlIn(peers, manifest[r], a)
<1>1. /\ c.run = r /\ c.agent = a /\ c.url = u /\ c.by = host[u]
      /\ c.accepted <=> host[u] # None /\ Bearer[host[u]] # None
                        /\ PeerToken(ids[u]) = Bearer[host[u]]
  BY Unprimed DEF Call, Accepts
<1>2. /\ peers \in PeerLists /\ manifest[r] \in [Urls -> Agents \cup {None}]
      /\ fetched[r] = UrlsIn(peers) /\ ids[SelfUrl] = Self /\ host[SelfUrl] = Self
      /\ a \in NamedIn(manifest[r], UrlsIn(peers)) \cup {Self}
  BY Unprimed DEF TypeOK, PhaseInv
<1>3. /\ a \in Agents /\ u \in Urls
      /\ a = Self => u = SelfUrl
      /\ a # Self => u \in fetched[r] /\ manifest[r][u] = a
  BY <1>2, UrlOfTarget
<1>4. a # None /\ host[u] \in Agents \cup {None}
  BY <1>3, TransportAssumption DEF TypeOK
<1> HIDE DEF u
<1>5. CASE a = Self
  BY <1>1, <1>2, <1>3, <1>4, <1>5
<1>6. CASE a # Self
  <2>1. u \notin disturbed[r] => host[u] = a /\ ids[u] = a
    BY <1>3, <1>4, <1>6 DEF MapInv
  <2>2. \E s \in Runs : u \in fetched[s] /\ manifest[s][u] = ids[u] /\ ids[u] # None
    BY <1>3, <1>4, <1>6 DEF MapInv
  <2> QED
    BY <1>1, <1>3, <1>4, <2>1, <2>2
<1> QED
  BY <1>5, <1>6
-----------------------------------------------------------------------------
(* The steps of the specification. *)

\* Nothing is known or asked, and every run is new.
LEMMA InitHolds == Init => IInv
<1> SUFFICES ASSUME Init PROVE IInv
  OBVIOUS
<1>1. TypeOK
  BY TransportAssumption DEF Init, TypeOK, Places
<1>2. PhaseInv
  BY TransportAssumption DEF Init, PhaseInv, Early
<1>3. MapInv
  BY DEF Init, MapInv
<1>4. CallInv
  BY DEF Init, CallInv, FreshCallsReachTheirAgent, AnswersAreAttributed
<1>5. AskInv
  BY DEF Init, AskInv, Late
<1> QED
  BY <1>1, <1>2, <1>3, <1>4, <1>5 DEF IInv

\* What each step leaves behind: nothing a run was told at a URL it has done
\* with is changed, and no run becomes new.
LEMMA Settled ==
    ASSUME TypeOK, [Next]_vars
    PROVE  /\ peers' = peers
           /\ \A r \in Runs, u \in Urls :
                 u \in fetched[r] => u \in fetched'[r] /\ manifest'[r][u] = manifest[r][u]
           /\ \A r \in Runs : pc[r] \notin Early => pc'[r] \notin Early
           /\ \A r \in Runs : pc[r] \notin Early => disturbed[r] \subseteq disturbed'[r]
<1> USE DEF TypeOK, Early
<1>1. ASSUME NEW u \in Urls, NEW a \in Agents \cup {None}, Handover(u, a)
      PROVE  /\ peers' = peers /\ fetched' = fetched /\ manifest' = manifest /\ pc' = pc
             /\ \A r \in Runs : disturbed[r] \subseteq disturbed'[r]
  BY <1>1 DEF Handover
<1>2. ASSUME NEW r \in Runs, Start(r)
      PROVE  /\ peers' = peers /\ fetched' = fetched /\ manifest' = manifest
             /\ \A s \in Runs : pc[s] \notin Early => pc'[s] \notin Early
                                                      /\ disturbed'[s] = disturbed[s]
  BY <1>2 DEF Start
<1>3. ASSUME NEW r \in Runs, NEW u \in Urls, Serve(r, u) \/ FetchFails(r, u)
      PROVE  /\ peers' = peers /\ pc' = pc /\ disturbed' = disturbed
             /\ \A s \in Runs, v \in Urls :
                   v \in fetched[s] => v \in fetched'[s] /\ manifest'[s][v] = manifest[s][v]
  <2>1. u \notin fetched[r] /\ peers' = peers /\ pc' = pc /\ disturbed' = disturbed
    BY <1>3 DEF Serve, FetchFails, Fetching
  <2>2. \A s \in Runs, v \in Urls : s # r \/ v # u => manifest'[s][v] = manifest[s][v]
    BY <1>3 DEF Serve, FetchFails
  <2>3. \A s \in Runs : fetched[s] \subseteq fetched'[s]
    <3>1. fetched' = fetched \/ fetched' = [fetched EXCEPT ![r] = fetched[r] \cup {u}]
      BY <1>3 DEF Serve, FetchFails
    <3> QED
      BY <3>1
  <2> QED
    BY <2>1, <2>2, <2>3
<1>4. ASSUME NEW r \in Runs, NEW u \in Urls, Learn(r, u)
      PROVE  /\ peers' = peers /\ pc' = pc /\ manifest' = manifest
             /\ \A s \in Runs : fetched[s] \subseteq fetched'[s]
             /\ \A s \in Runs : disturbed[s] \subseteq disturbed'[s]
  BY <1>4 DEF Learn
<1>5. ASSUME NEW r \in Runs,
             Discovered(r) \/ AskPeer(r) \/ AskSelf(r) \/ Finish(r)
             \/ \E a \in Agents : Falsify(r, a) \/ FalsifyUnknown(r, a)
      PROVE  /\ peers' = peers /\ fetched' = fetched /\ manifest' = manifest
             /\ disturbed' = disturbed
             /\ \A s \in Runs : pc[s] \notin Early => pc'[s] \notin Early
  BY <1>5 DEF Discovered, AskPeer, AskSelf, Finish, Falsify, FalsifyUnknown
<1>6. CASE UNCHANGED vars
  BY <1>6 DEF vars
<1> QED
  BY <1>1, <1>2, <1>3, <1>4, <1>5, <1>6 DEF Next

\* What a run does that asks a peer, or itself.
Asks(r, a) ==
    /\ pc[r] = "collect" /\ a \in Agents
    /\ UrlOf(r, a) \in Urls
    /\ last' = Call(r, a, UrlOf(r, a))
    /\ last'.accepted => last'.by \in Agents
    /\ answers' = IF last'.accepted THEN [answers EXCEPT ![r][last'.by] = @ + 1]
                                    ELSE answers
    /\ \/ /\ a \in Named(r) /\ <<a, UrlOf(r, a)>> \notin asked[r]
          /\ asked' = [asked EXCEPT ![r] = @ \cup {<<a, UrlOf(r, a)>>}]
          /\ pc' = pc
       \/ /\ a = Self
          /\ asked' = asked
          /\ \E p \in {"rounds", "failed"} : pc' = [pc EXCEPT ![r] = p]
    /\ UNCHANGED <<peers, host, ids, manifest, fetched, disturbed>>

\* The two ways to ask come down to it.
LEMMA Asking ==
    ASSUME TypeOK, PhaseInv, MapInv, NEW r \in Runs, AskPeer(r) \/ AskSelf(r)
    PROVE  \E a \in Named(r) \cup {Self} : Asks(r, a)
<1>1. pc[r] = "collect" /\ pc[r] \notin Early
  BY DEF AskPeer, AskSelf, Early
<1>2. ASSUME NEW a \in Named(r) \cup {Self}
      PROVE  /\ a \in Agents /\ UrlOf(r, a) \in Urls
             /\ a = Self => UrlOf(r, a) = SelfUrl
             /\ Call(r, a, UrlOf(r, a)).accepted => Call(r, a, UrlOf(r, a)).by \in Agents
  <2>1. /\ peers \in PeerLists /\ manifest[r] \in [Urls -> Agents \cup {None}]
        /\ a \in NamedIn(manifest[r], UrlsIn(peers)) \cup {Self}
    BY <1>1, Unprimed DEF TypeOK, PhaseInv
  <2>2. a \in Agents /\ UrlOf(r, a) \in Urls /\ (a = Self => UrlOf(r, a) = SelfUrl)
    BY <2>1, UrlOfTarget, Unprimed
  <2>3. Call(r, a, UrlOf(r, a)).accepted => Call(r, a, UrlOf(r, a)).by \in Agents
    BY <1>1, CallHolds
  <2> QED
    BY <2>2, <2>3
<1>3. CASE AskPeer(r)
  <2>1. PICK t \in Targets(r) \ asked[r] :
           asked' = [asked EXCEPT ![r] = @ \cup {t}] /\ Request(r, t[1], t[2])
    BY <1>3 DEF AskPeer
  <2>2. PICK a \in Named(r) : t = <<a, UrlOf(r, a)>>
    BY DEF Targets
  <2>3. /\ last' = Call(r, a, UrlOf(r, a))
        /\ answers' = IF last'.accepted THEN [answers EXCEPT ![r][last'.by] = @ + 1]
                                        ELSE answers
    BY <2>1, <2>2 DEF Request
  <2>4. pc' = pc /\ UNCHANGED <<peers, host, ids, manifest, fetched, disturbed>>
    BY <1>3 DEF AskPeer
  <2> QED
    BY <1>1, <1>2, <2>1, <2>2, <2>3, <2>4 DEF Asks
<1>4. CASE AskSelf(r)
  <2>1. /\ last' = Call(r, Self, SelfUrl)
        /\ answers' = IF last'.accepted THEN [answers EXCEPT ![r][last'.by] = @ + 1]
                                        ELSE answers
    BY <1>4 DEF AskSelf, Request
  <2>2. /\ asked' = asked /\ \E p \in {"rounds", "failed"} : pc' = [pc EXCEPT ![r] = p]
        /\ UNCHANGED <<peers, host, ids, manifest, fetched, disturbed>>
    BY <1>4 DEF AskSelf
  <2> QED
    BY <1>1, <1>2, <2>1, <2>2 DEF Asks
<1> QED
  BY <1>3, <1>4

\* What a run does with its proposals changes nothing but where it is.
LEMMA Rounds ==
    ASSUME TypeOK, NEW r \in Runs,
           Finish(r) \/ \E a \in Agents : Falsify(r, a) \/ FalsifyUnknown(r, a)
    PROVE  /\ UNCHANGED <<peers, host, ids, manifest, fetched, asked, answers, disturbed>>
           /\ pc' \in [Runs -> Places]
           /\ \A s \in Runs : /\ pc'[s] = "new" <=> pc[s] = "new"
                              /\ pc'[s] \in Early <=> pc[s] \in Early
                              /\ pc'[s] \in Late <=> pc[s] \in Late
<1>1. /\ UNCHANGED <<peers, host, ids, manifest, fetched, asked, answers, disturbed>>
      /\ pc[r] = "rounds"
      /\ pc' = pc \/ \E p \in {"done", "failed"} : pc' = [pc EXCEPT ![r] = p]
  BY DEF Finish, Falsify, FalsifyUnknown
<1>2. pc \in [Runs -> Places]
  BY DEF TypeOK
<1> QED
  BY <1>1, <1>2 DEF Early, Late, Places

\* Every step keeps the types.
LEMMA TypeNext == IInv /\ [Next]_vars => TypeOK'
<1> SUFFICES ASSUME IInv, [Next]_vars PROVE TypeOK'
  OBVIOUS
<1>a. TypeOK /\ PhaseInv /\ MapInv /\ Self \in Agents /\ SelfUrl \in Urls
  BY TransportAssumption DEF IInv
<1>1. ASSUME NEW u \in Urls, NEW a \in Agents \cup {None}, Handover(u, a)
      PROVE  TypeOK'
  BY <1>a, <1>1 DEF Handover, TypeOK
<1>2. ASSUME NEW r \in Runs, Start(r)
      PROVE  TypeOK'
  BY <1>a, <1>2 DEF Start, TypeOK, Places
<1>3. ASSUME NEW r \in Runs, NEW u \in Urls, Serve(r, u)
      PROVE  TypeOK'
  BY <1>a, <1>3 DEF Serve, TypeOK
<1>4. ASSUME NEW r \in Runs, NEW u \in Urls, FetchFails(r, u)
      PROVE  TypeOK'
  BY <1>a, <1>4 DEF FetchFails, TypeOK
<1>5. ASSUME NEW r \in Runs, NEW u \in Urls, Learn(r, u)
      PROVE  TypeOK'
  <2>1. manifest[r][u] \in Agents
    BY <1>a, <1>5 DEF Learn, TypeOK
  <2> QED
    BY <1>a, <1>5, <2>1 DEF Learn, Bind, TypeOK
<1>6. ASSUME NEW r \in Runs, Discovered(r)
      PROVE  TypeOK'
  BY <1>a, <1>6 DEF Discovered, RegisterSelf, Bind, TypeOK, Places
<1>7. ASSUME NEW r \in Runs, AskPeer(r) \/ AskSelf(r)
      PROVE  TypeOK'
  <2>1. PICK a \in Named(r) \cup {Self} : Asks(r, a)
    BY <1>a, <1>7, Asking
  <2> DEFINE t == <<a, UrlOf(r, a)>>
             b == last'.by
  <2>2. t \in Agents \X Urls
    BY <2>1 DEF Asks
  <2>3. asked' = asked \/ asked' = [asked EXCEPT ![r] = asked[r] \cup {t}]
    BY <2>1 DEF Asks
  <2>4. asked' \in [Runs -> SUBSET (Agents \X Urls)]
    <3> HIDE DEF t
    <3>1. asked \in [Runs -> SUBSET (Agents \X Urls)]
      BY <1>a DEF TypeOK
    <3>2. asked[r] \cup {t} \in SUBSET (Agents \X Urls)
      BY <2>2, <3>1
    <3> QED
      BY <2>3, <3>1, <3>2
  <2>5. answers' = answers \/ (b \in Agents /\ answers' = [answers EXCEPT ![r][b] = answers[r][b] + 1])
    BY <2>1 DEF Asks
  <2>6. answers' \in [Runs -> [Agents -> Nat]]
    <3> HIDE DEF b
    <3>1. answers \in [Runs -> [Agents -> Nat]]
      BY <1>a DEF TypeOK
    <3>2. CASE answers' = answers
      BY <3>1, <3>2
    <3>3. CASE b \in Agents /\ answers' = [answers EXCEPT ![r][b] = answers[r][b] + 1]
      <4>1. [answers[r] EXCEPT ![b] = answers[r][b] + 1] \in [Agents -> Nat]
        BY <3>1, <3>3
      <4> QED
        BY <3>1, <3>3, <4>1
    <3> QED
      BY <2>5, <3>2, <3>3
  <2>7. pc' \in [Runs -> Places]
    BY <1>a, <2>1 DEF Asks, TypeOK, Places
  <2> QED
    BY <1>a, <2>1, <2>4, <2>6, <2>7 DEF Asks, TypeOK
<1>8. ASSUME NEW r \in Runs, Finish(r) \/ \E a \in Agents : Falsify(r, a) \/ FalsifyUnknown(r, a)
      PROVE  TypeOK'
  BY <1>a, <1>8, Rounds DEF TypeOK
<1>9. CASE UNCHANGED vars
  BY <1>a, <1>9 DEF vars, TypeOK
<1> QED
  BY <1>1, <1>2, <1>3, <1>4, <1>5, <1>6, <1>7, <1>8, <1>9 DEF Next

\* A run goes on when it has seen an answer or a failure of every peer, and adds
\* to what it asked only what it was told.
LEMMA PhaseNext == IInv /\ [Next]_vars => PhaseInv'
<1> SUFFICES ASSUME IInv, [Next]_vars PROVE PhaseInv'
  OBVIOUS
<1>a. /\ TypeOK /\ PhaseInv /\ MapInv
      /\ Self \in Agents /\ SelfUrl \in Urls /\ None \notin Agents
  BY TransportAssumption DEF IInv
<1>1. ASSUME NEW u \in Urls, NEW a \in Agents \cup {None}, Handover(u, a)
      PROVE  PhaseInv'
  BY <1>a, <1>1 DEF Handover, TypeOK, PhaseInv
<1>2. ASSUME NEW r \in Runs, Start(r)
      PROVE  PhaseInv'
  BY <1>a, <1>2 DEF Start, TypeOK, PhaseInv, Early
<1>3. ASSUME NEW r \in Runs, NEW u \in Urls, Serve(r, u) \/ FetchFails(r, u)
      PROVE  PhaseInv'
  <2>1. /\ pc[r] = "discover"
        /\ UNCHANGED <<peers, host, ids, pc, asked, answers>>
        /\ \A s \in Runs : s # r => manifest'[s] = manifest[s] /\ fetched'[s] = fetched[s]
    BY <1>a, <1>3 DEF Serve, FetchFails, Fetching, TypeOK
  <2>2. manifest'[r][SelfUrl] \in {None, Self}
    <3>1. CASE Serve(r, u)
      BY <1>a, <3>1 DEF Serve, TypeOK, PhaseInv
    <3>2. CASE FetchFails(r, u)
      BY <1>a, <3>2 DEF FetchFails, TypeOK, PhaseInv
    <3> QED
      BY <1>3, <3>1, <3>2
  <2> QED
    BY <1>a, <2>1, <2>2 DEF PhaseInv, Early
<1>4. ASSUME NEW r \in Runs, NEW u \in Urls, Learn(r, u)
      PROVE  PhaseInv'
  <2>1. /\ pc[r] = "discover"
        /\ UNCHANGED <<peers, host, manifest, pc, asked, answers>>
        /\ \A s \in Runs : s # r => fetched'[s] = fetched[s]
    BY <1>a, <1>4 DEF Learn, Fetching, TypeOK
  <2>2. ids' = [ids EXCEPT ![u] = manifest[r][u]] /\ manifest[r][u] # None
    BY <1>4 DEF Learn, Bind
  <2>3. ids[SelfUrl] = Self => ids'[SelfUrl] = Self
    BY <1>a, <2>2 DEF TypeOK, PhaseInv
  <2> QED
    BY <1>a, <2>1, <2>3 DEF PhaseInv, Early
<1>5. ASSUME NEW r \in Runs, Discovered(r)
      PROVE  PhaseInv'
  <2>1. /\ pc[r] = "discover" /\ fetched[r] = UrlsIn(peers) /\ asked[r] = {}
        /\ UNCHANGED <<peers, host, manifest, fetched, asked, answers>>
        /\ pc' = [pc EXCEPT ![r] = "collect"]
        /\ ids' = [ids EXCEPT ![SelfUrl] = Self]
    BY <1>a, <1>5, Unprimed DEF Discovered, RegisterSelf, Bind, PhaseInv, Early
  <2>2. ids'[SelfUrl] = Self
    BY <1>a, <2>1 DEF TypeOK
  <2> QED
    BY <1>a, <2>1, <2>2 DEF TypeOK, PhaseInv, Early
<1>6. ASSUME NEW r \in Runs, AskPeer(r) \/ AskSelf(r)
      PROVE  PhaseInv'
  <2>1. PICK a \in Named(r) \cup {Self} : Asks(r, a)
    BY <1>a, <1>6, Asking
  <2>2. /\ pc[r] = "collect" /\ pc'[r] \notin Early
        /\ UNCHANGED <<peers, host, ids, manifest, fetched>>
        /\ \A s \in Runs : s # r => pc'[s] = pc[s] /\ asked'[s] = asked[s] /\ answers'[s] = answers[s]
    <3>1. /\ pc[r] = "collect"
          /\ UNCHANGED <<peers, host, ids, manifest, fetched>>
      BY <2>1 DEF Asks
    <3>2. pc' = pc \/ \E p \in {"rounds", "failed"} : pc' = [pc EXCEPT ![r] = p]
      BY <2>1 DEF Asks
    <3>3. pc'[r] \notin Early /\ \A s \in Runs : s # r => pc'[s] = pc[s]
      BY <1>a, <3>1, <3>2 DEF TypeOK, Early
    <3>4. \A s \in Runs : s # r => asked'[s] = asked[s] /\ answers'[s] = answers[s]
      BY <1>a, <2>1 DEF Asks, TypeOK
    <3> QED
      BY <3>1, <3>3, <3>4
  <2>3. \A t \in asked'[r] : /\ t[1] \in NamedIn(manifest[r], fetched[r])
                             /\ t[2] = UrlIn(peers, manifest[r], t[1])
    <3>1. \A t \in asked[r] : /\ t[1] \in NamedIn(manifest[r], fetched[r])
                              /\ t[2] = UrlIn(peers, manifest[r], t[1])
      BY <1>a, <2>2 DEF PhaseInv, Early
    <3>2. CASE asked' = asked
      BY <3>1, <3>2
    <3>3. CASE a \in Named(r) /\ asked' = [asked EXCEPT ![r] = @ \cup {<<a, UrlOf(r, a)>>}]
      <4>1. asked'[r] = asked[r] \cup {<<a, UrlIn(peers, manifest[r], a)>>}
        BY <1>a, <3>3, Unprimed DEF TypeOK
      <4>2. a \in NamedIn(manifest[r], fetched[r])
        BY <3>3, Unprimed
      <4> QED
        BY <3>1, <4>1, <4>2
    <3> QED
      BY <2>1, <3>2, <3>3 DEF Asks
  <2> QED
    BY <1>a, <2>2, <2>3 DEF PhaseInv, Early
<1>7. ASSUME NEW r \in Runs, Finish(r) \/ \E a \in Agents : Falsify(r, a) \/ FalsifyUnknown(r, a)
      PROVE  PhaseInv'
  BY <1>a, <1>7, Rounds DEF PhaseInv
<1>8. CASE UNCHANGED vars
  BY <1>a, <1>8 DEF vars, PhaseInv
<1> QED
  BY <1>1, <1>2, <1>3, <1>4, <1>5, <1>6, <1>7, <1>8 DEF Next

\* An answer that is read late disturbs the other runs unless it is still true.
LEMMA MapNext == IInv /\ [Next]_vars => MapInv'
<1> SUFFICES ASSUME IInv, [Next]_vars, NEW s \in Runs, NEW v \in Urls, manifest'[s][v] # None
             PROVE  /\ v \notin disturbed'[s] =>
                          /\ host'[v] = manifest'[s][v]
                          /\ v \in fetched'[s] => ids'[v] = manifest'[s][v]
                    /\ v \in fetched'[s] =>
                          \E q \in Runs : v \in fetched'[q] /\ manifest'[q][v] = ids'[v]
                                          /\ ids'[v] # None
  BY DEF MapInv
<1> DEFINE StillTold ==
              \E q \in Runs : v \in fetched'[q] /\ manifest'[q][v] = ids'[v] /\ ids'[v] # None
           Holds == /\ v \notin disturbed'[s] =>
                          /\ host'[v] = manifest'[s][v]
                          /\ v \in fetched'[s] => ids'[v] = manifest'[s][v]
                    /\ v \in fetched'[s] => StillTold
<1>a. /\ TypeOK /\ PhaseInv /\ MapInv
      /\ Self \in Agents /\ SelfUrl \in Urls /\ None \notin Agents
  BY TransportAssumption DEF IInv
<1>b. manifest[s][v] # None =>
          /\ v \notin disturbed[s] =>
                /\ host[v] = manifest[s][v]
                /\ v \in fetched[s] => ids[v] = manifest[s][v]
          /\ v \in fetched[s] =>
                \E q \in Runs : v \in fetched[q] /\ manifest[q][v] = ids[v] /\ ids[v] # None
  BY <1>a DEF MapInv
<1>c. ids'[v] = ids[v] /\ manifest[s][v] # None /\ v \in fetched[s] => StillTold
  BY <1>a, <1>b, Settled
<1> SUFFICES Holds
  OBVIOUS
<1>1. ASSUME NEW u \in Urls, NEW a \in Agents \cup {None}, Handover(u, a)
      PROVE  Holds
  <2>1. /\ UNCHANGED <<ids, manifest, fetched>>
        /\ v # u => host'[v] = host[v]
        /\ v = u => v \in disturbed'[s]
        /\ disturbed[s] \subseteq disturbed'[s]
    BY <1>a, <1>1 DEF Handover, TypeOK
  <2> HIDE DEF StillTold
  <2> QED
    BY <1>b, <1>c, <2>1
<1>2. ASSUME NEW r \in Runs, Start(r)
      PROVE  Holds
  <2>1. UNCHANGED <<host, ids, manifest, fetched>> /\ s # r
    BY <1>a, <1>2 DEF Start, PhaseInv
  <2>2. disturbed'[s] = disturbed[s]
    BY <1>a, <1>2, <2>1 DEF Start, TypeOK
  <2> HIDE DEF StillTold
  <2> QED
    BY <1>b, <1>c, <2>1, <2>2
<1>3. ASSUME NEW r \in Runs, NEW u \in Urls, Serve(r, u)
      PROVE  Holds
  <2>1. /\ UNCHANGED <<host, ids, fetched, disturbed>>
        /\ s # r \/ v # u => manifest'[s][v] = manifest[s][v]
        /\ s = r /\ v = u => manifest'[s][v] = host[v] /\ v \notin fetched[s]
    BY <1>a, <1>3 DEF Serve, Fetching, TypeOK
  <2> HIDE DEF StillTold
  <2> QED
    BY <1>b, <1>c, <2>1
<1>4. ASSUME NEW r \in Runs, NEW u \in Urls, FetchFails(r, u)
      PROVE  Holds
  <2>1. /\ UNCHANGED <<host, ids, disturbed>>
        /\ s # r \/ v # u
        /\ manifest'[s][v] = manifest[s][v]
        /\ v \in fetched'[s] => v \in fetched[s]
    BY <1>a, <1>4 DEF FetchFails, TypeOK
  <2> HIDE DEF StillTold
  <2> QED
    BY <1>b, <1>c, <2>1
<1>5. ASSUME NEW r \in Runs, NEW u \in Urls, Learn(r, u)
      PROVE  Holds
  <2>1. /\ UNCHANGED <<host, manifest>> /\ manifest[r][u] # None
        /\ ids' = [ids EXCEPT ![u] = manifest[r][u]]
        /\ fetched' = [fetched EXCEPT ![r] = fetched[r] \cup {u}]
        /\ disturbed'[s] =
              disturbed[s] \cup (IF s # r /\ manifest[r][u] # host[u] THEN {u} ELSE {})
    BY <1>5 DEF Learn, Bind
  <2>2. CASE v = u
    <3>1. ids'[v] = manifest[r][u] /\ u \in fetched'[r]
      BY <1>a, <2>1, <2>2 DEF TypeOK
    <3>2. StillTold
      BY <2>1, <2>2, <3>1
    <3>3. v \notin disturbed'[s] => host[v] = manifest[s][v] /\ ids'[v] = manifest[s][v]
      BY <1>b, <2>1, <2>2, <3>1
    <3> HIDE DEF StillTold
    <3> QED
      BY <2>1, <3>2, <3>3
  <2>3. CASE v # u
    <3>1. ids'[v] = ids[v] /\ (v \in fetched'[s] => v \in fetched[s])
      BY <1>a, <2>1, <2>3 DEF TypeOK
    <3> HIDE DEF StillTold
    <3> QED
      BY <1>b, <1>c, <2>1, <3>1
  <2> QED
    BY <2>2, <2>3
<1>6. ASSUME NEW r \in Runs, Discovered(r)
      PROVE  Holds
  <2>1. UNCHANGED <<host, manifest, fetched, disturbed>> /\ ids' = [ids EXCEPT ![SelfUrl] = Self]
    BY <1>6 DEF Discovered, RegisterSelf, Bind
  <2>2. CASE v = SelfUrl
    <3>1. ids'[v] = Self /\ manifest[s][v] = Self /\ Self # None
      BY <1>a, <2>1, <2>2 DEF TypeOK, PhaseInv
    <3>2. v \in fetched'[s] => StillTold
      BY <2>1, <3>1
    <3> HIDE DEF StillTold
    <3> QED
      BY <1>b, <2>1, <3>1, <3>2
  <2>3. CASE v # SelfUrl
    <3>1. ids'[v] = ids[v]
      BY <1>a, <2>1, <2>3 DEF TypeOK
    <3> HIDE DEF StillTold
    <3> QED
      BY <1>b, <1>c, <2>1, <3>1
  <2> QED
    BY <2>2, <2>3
<1>7. CASE UNCHANGED <<host, ids, manifest, fetched, disturbed>>
  <2> HIDE DEF StillTold
  <2> QED
    BY <1>b, <1>c, <1>7
<1>8. ASSUME NEW r \in Runs, AskPeer(r) \/ AskSelf(r)
      PROVE  UNCHANGED <<host, ids, manifest, fetched, disturbed>>
  BY <1>8 DEF AskPeer, AskSelf
<1>9. ASSUME NEW r \in Runs, Finish(r) \/ \E a \in Agents : Falsify(r, a) \/ FalsifyUnknown(r, a)
      PROVE  UNCHANGED <<host, ids, manifest, fetched, disturbed>>
  BY <1>a, <1>9, Rounds
<1>10. CASE UNCHANGED vars
  BY <1>7, <1>10 DEF vars
<1> HIDE DEF Holds
<1> QED
  BY <1>1, <1>2, <1>3, <1>4, <1>5, <1>6, <1>7, <1>8, <1>9, <1>10 DEF Next

\* A call is as it should be when it is made, and nothing later belies it.
LEMMA CallNext == IInv /\ [Next]_vars => CallInv'
<1> SUFFICES ASSUME IInv, [Next]_vars PROVE CallInv'
  OBVIOUS
<1>a. TypeOK /\ PhaseInv /\ MapInv /\ CallInv
  BY DEF IInv
<1>1. CASE last' = last
  <2>1. last' # None => last'.run \in Runs /\ pc'[last'.run] \notin Early
    BY <1>a, <1>1, Settled DEF CallInv
  <2>2. FreshCallsReachTheirAgent'
    BY <1>a, <1>1, Settled DEF CallInv, FreshCallsReachTheirAgent, PeerToken
  <2>3. AnswersAreAttributed'
    <3> SUFFICES ASSUME last # None, last.accepted, last.by # last.agent
                 PROVE  \E r \in Runs :
                           /\ last.url \in fetched'[r] /\ manifest'[r][last.url] # None
                           /\ PeerToken(manifest'[r][last.url]) = Bearer[last.by]
      BY <1>1 DEF AnswersAreAttributed, PeerToken
    <3>1. PICK r \in Runs :
             /\ last.url \in fetched[r] /\ manifest[r][last.url] # None
             /\ PeerToken(manifest[r][last.url]) = Bearer[last.by]
      BY <1>a DEF CallInv, AnswersAreAttributed
    <3>2. last.url \in Urls
      BY <1>a, <3>1 DEF TypeOK
    <3>3. last.url \in fetched'[r] /\ manifest'[r][last.url] = manifest[r][last.url]
      BY <1>a, <3>1, <3>2, Settled
    <3> QED
      BY <3>1, <3>3
  <2> QED
    BY <2>1, <2>2, <2>3 DEF CallInv
<1>2. ASSUME NEW r \in Runs, NEW a \in Named(r) \cup {Self},
             pc[r] \notin Early, last' = Call(r, a, UrlOf(r, a)),
             UNCHANGED <<manifest, fetched, disturbed>>
      PROVE  CallInv'
  <2>1. /\ last'.run = r /\ last'.agent = a
        /\ last'.url \notin disturbed[r] =>
              last'.by = a /\ (last'.accepted <=> PeerToken(a) = Bearer[a] /\ Bearer[a] # None)
        /\ last'.accepted /\ last'.by # a =>
              \E s \in Runs :
                  /\ last'.url \in fetched[s] /\ manifest[s][last'.url] # None
                  /\ PeerToken(manifest[s][last'.url]) = Bearer[last'.by]
    BY <1>a, <1>2, CallHolds
  <2>2. pc'[r] \notin Early
    BY <1>a, <1>2, Settled
  <2>3. FreshCallsReachTheirAgent'
    BY <1>2, <2>1 DEF FreshCallsReachTheirAgent, PeerToken
  <2>4. AnswersAreAttributed'
    BY <1>2, <2>1 DEF AnswersAreAttributed, PeerToken
  <2> QED
    BY <2>1, <2>2, <2>3, <2>4 DEF CallInv
<1>3. ASSUME NEW r \in Runs, AskPeer(r) \/ AskSelf(r)
      PROVE  CallInv'
  <2>1. PICK a \in Named(r) \cup {Self} : Asks(r, a)
    BY <1>a, <1>3, Asking
  <2>2. /\ pc[r] \notin Early /\ last' = Call(r, a, UrlOf(r, a))
        /\ UNCHANGED <<manifest, fetched, disturbed>>
    BY <2>1 DEF Asks, Early
  <2> QED
    BY <1>2, <2>2
<1>4. ASSUME NEW r \in Runs, NEW a \in Agents, Falsify(r, a)
      PROVE  CallInv'
  BY <1>2, <1>4 DEF Falsify, Early
<1>5. ASSUME NEW u \in Urls, NEW a \in Agents \cup {None}, Handover(u, a)
      PROVE  last' = last
  BY <1>5 DEF Handover
<1>6. ASSUME NEW r \in Runs,
             Start(r) \/ Discovered(r) \/ Finish(r)
             \/ (\E u \in Urls : Serve(r, u) \/ Learn(r, u) \/ FetchFails(r, u))
             \/ \E a \in Agents : FalsifyUnknown(r, a)
      PROVE  last' = last
  BY <1>6 DEF Start, Discovered, Finish, Serve, Learn, FetchFails, FalsifyUnknown
<1>7. CASE UNCHANGED vars
  BY <1>1, <1>7 DEF vars
<1> QED
  BY <1>1, <1>3, <1>4, <1>5, <1>6, <1>7 DEF Next

\* An undisturbed run asks each agent it was told of once, and itself once more.
LEMMA AskNext == IInv /\ [Next]_vars => AskInv'
<1> DEFINE Limit(as, p, a) == (IF \E t \in as : t[1] = a THEN 1 ELSE 0)
                              + (IF a = Self /\ p \in Late THEN 1 ELSE 0)
<1> SUFFICES ASSUME IInv, [Next]_vars,
                    NEW s \in Runs, disturbed'[s] = {}, NEW b \in Agents
             PROVE  answers'[s][b] <= Limit(asked'[s], pc'[s], b)
  BY DEF AskInv
<1>a. TypeOK /\ PhaseInv /\ MapInv
  BY DEF IInv
<1>b. answers[s][b] \in Nat
  BY <1>a DEF TypeOK
<1>c. answers[s][b] <= Limit(asked[s], pc[s], b)
  <2>1. CASE pc[s] \in Early
    BY <1>a, <2>1 DEF PhaseInv
  <2>2. CASE pc[s] \notin Early
    <3>1. disturbed[s] = {}
      BY <1>a, <2>2, Settled
    <3> QED
      BY <3>1 DEF IInv, AskInv
  <2> QED
    BY <2>1, <2>2
<1>d. ASSUME answers' = answers, asked' = asked, pc[s] \in Late => pc'[s] \in Late
      PROVE  answers'[s][b] <= Limit(asked'[s], pc'[s], b)
  BY <1>b, <1>c, <1>d
<1>1. ASSUME NEW u \in Urls, NEW a \in Agents \cup {None}, Handover(u, a)
      PROVE  answers' = answers /\ asked' = asked /\ pc'[s] = pc[s]
  BY <1>1 DEF Handover
<1>2. ASSUME NEW r \in Runs, NEW u \in Urls, Serve(r, u) \/ Learn(r, u) \/ FetchFails(r, u)
      PROVE  answers' = answers /\ asked' = asked /\ pc'[s] = pc[s]
  BY <1>2 DEF Serve, Learn, FetchFails
<1>3. ASSUME NEW r \in Runs, Start(r) \/ Discovered(r)
      PROVE  answers' = answers /\ asked' = asked /\ (pc[s] \in Late => pc'[s] \in Late)
  <2>1. /\ answers' = answers /\ asked' = asked /\ pc[r] \in Early
        /\ \E p \in {"discover", "collect"} : pc' = [pc EXCEPT ![r] = p]
    BY <1>3 DEF Start, Discovered, Early
  <2> QED
    BY <1>a, <2>1 DEF TypeOK, Early, Late
<1>4. ASSUME NEW r \in Runs, Finish(r) \/ \E a \in Agents : Falsify(r, a) \/ FalsifyUnknown(r, a)
      PROVE  answers' = answers /\ asked' = asked /\ (pc[s] \in Late => pc'[s] \in Late)
  BY <1>a, <1>4, Rounds
<1>5. ASSUME NEW r \in Runs, AskPeer(r) \/ AskSelf(r)
      PROVE  answers'[s][b] <= Limit(asked'[s], pc'[s], b)
  <2>1. PICK a \in Named(r) \cup {Self} : Asks(r, a)
    BY <1>a, <1>5, Asking
  <2>2. CASE s # r
    <3>1. asked'[s] = asked[s] /\ answers'[s] = answers[s] /\ pc'[s] = pc[s]
      BY <1>a, <2>1, <2>2 DEF Asks, TypeOK
    <3> QED
      BY <1>c, <3>1
  <2>3. CASE s = r
    <3>1. pc[s] = "collect" /\ pc[s] \notin Early /\ pc[s] \notin Late
      BY <2>1, <2>3 DEF Asks, Early, Late
    <3>2. last'.accepted => last'.by = a
      <4>1. disturbed[r] = {} /\ last' = Call(r, a, UrlOf(r, a))
        BY <2>1, <2>3 DEF Asks
      <4> QED
        BY <1>a, <2>3, <3>1, <4>1, CallHolds
    <3>3. /\ b # a => answers'[s][b] = answers[s][b]
          /\ answers'[s][a] \in {answers[s][a], answers[s][a] + 1}
      <4>1. /\ answers' = answers \/ answers' = [answers EXCEPT ![r][a] = answers[r][a] + 1]
            /\ a \in Agents
        BY <2>1, <3>2 DEF Asks
      <4>2. answers \in [Runs -> [Agents -> Nat]]
        BY <1>a DEF TypeOK
      <4> QED
        BY <2>3, <4>1, <4>2
    <3>4. CASE a \in Named(r) /\ <<a, UrlOf(r, a)>> \notin asked[r]
               /\ asked' = [asked EXCEPT ![r] = @ \cup {<<a, UrlOf(r, a)>>}] /\ pc' = pc
      <4>1. asked'[s] = asked[s] \cup {<<a, UrlOf(r, a)>>}
        BY <1>a, <2>3, <3>4 DEF TypeOK
      <4>2. ~ \E t \in asked[s] : t[1] = a
        <5> SUFFICES ASSUME NEW t \in asked[s], t[1] = a PROVE FALSE
          OBVIOUS
        <5>1. t = <<t[1], t[2]>>
          BY <1>a DEF TypeOK
        <5>2. t[2] = UrlOf(r, a)
          BY <1>a, <2>3, <3>1, Unprimed DEF PhaseInv
        <5> QED
          BY <2>3, <3>4, <5>1, <5>2
      <4>3. CASE b = a
        <5>1. answers[s][b] <= 0
          BY <1>c, <3>1, <4>2, <4>3
        <5>2. \E t \in asked'[s] : t[1] = b
          <6>1. <<a, UrlOf(r, a)>>[1] = b
            BY <4>3
          <6>2. <<a, UrlOf(r, a)>> \in asked'[s]
            BY <4>1
          <6> QED
            BY <6>1, <6>2
        <5>3. Limit(asked'[s], pc'[s], b) >= 1
          BY <5>2
        <5> QED
          BY <1>b, <3>3, <4>3, <5>1, <5>3
      <4>4. CASE b # a
        <5>1. (\E t \in asked[s] : t[1] = b) <=> (\E t \in asked'[s] : t[1] = b)
          BY <4>1, <4>4
        <5> QED
          BY <1>c, <3>3, <3>4, <4>4, <5>1
      <4> QED
        BY <4>3, <4>4
    <3>5. CASE a = Self /\ asked' = asked
               /\ \E p \in {"rounds", "failed"} : pc' = [pc EXCEPT ![r] = p]
      <4>1. pc'[s] \in Late
        BY <1>a, <2>3, <3>5 DEF TypeOK, Late
      <4> QED
        BY <1>b, <1>c, <3>1, <3>3, <3>5, <4>1
    <3> QED
      BY <2>1, <3>4, <3>5 DEF Asks
  <2> QED
    BY <2>2, <2>3
<1>6. CASE UNCHANGED vars
  BY <1>d, <1>6 DEF vars
<1> HIDE DEF Limit
<1> QED
  BY <1>d, <1>1, <1>2, <1>3, <1>4, <1>5, <1>6 DEF Next

\* The invariant from which the others follow (transport.py, peer_deliberation.py).
THEOREM TransportInvariance == Spec => []IInv
<1>1. IInv /\ [Next]_vars => IInv'
  BY TypeNext, PhaseNext, MapNext, CallNext, AskNext DEF IInv
<1> QED
  BY <1>1, InitHolds, PTL DEF Spec

\* Whatever earlier runs, and other runs at the same time, have left in the map,
\* a call at a URL that was not disturbed reaches the agent that was discovered
\* there and carries its token (transport.py, fetch_manifest and _headers_for).
THEOREM CallsReachWhomTheyName == Spec => []FreshCallsReachTheirAgent
<1>1. IInv => FreshCallsReachTheirAgent
  BY DEF IInv, CallInv
<1> QED
  BY <1>1, TransportInvariance, PTL

\* However URLs change hands, an answer is credited to another agent than its
\* author's only under a token that an agent discovered at that URL shares with
\* the author (peer_deliberation.py, _request_one; middleware.py).
THEOREM TokensKeepPeersApart == Spec => []AnswersAreAttributed
<1>1. IInv => AnswersAreAttributed
  BY DEF IInv, CallInv
<1> QED
  BY <1>1, TransportInvariance, PTL

\* However many URLs lead to one agent, an undisturbed run has one proposal of
\* it, and two of the initiator only where it is among its own peers
\* (peer_deliberation.py, _manifests and the self-proposal behind them).
THEOREM OneProposalEach == Spec => []AskedOnce
<1>1. IInv => AskedOnce
  <2> SUFFICES ASSUME IInv, NEW r \in Runs, NEW a \in Agents, answers[r][a] > 1,
                      disturbed[r] = {}
               PROVE  a = Self /\ Self \in Named(r)
    BY DEF AskedOnce
  <2>1. /\ answers[r][a] \in Nat
        /\ answers[r][a] <= (IF \E t \in asked[r] : t[1] = a THEN 1 ELSE 0)
                            + (IF a = Self /\ pc[r] \in Late THEN 1 ELSE 0)
    BY DEF IInv, TypeOK, AskInv
  <2>2. /\ a = Self /\ pc[r] \in Late
        /\ \E t \in asked[r] : t[1] = a
    BY <2>1
  <2>3. a \in Named(r)
    BY <2>2, Unprimed DEF IInv, PhaseInv, Early, Late
  <2> QED
    BY <2>2, <2>3
<1> QED
  BY <1>1, TransportInvariance, PTL
=============================================================================
