------------------------------ MODULE Transport ------------------------------
(***************************************************************************)
(* transport.py: the URL to agent-id map of one HttpTransport that the     *)
(* runs of an initiator share, the bearer token it makes each call carry,  *)
(* and the AuthMiddleware that receives it (middleware.py).                *)
(*                                                                         *)
(* The manifests of a run are fetched in parallel, and another run's       *)
(* fetches may be under way.  A URL may be handed over to another agent,   *)
(* or to none, between any two steps.  A call is sent and received in one  *)
(* step: its token is looked up when it is sent, and a handover on its way *)
(* is one before it.  Calls to public endpoints carry no token that        *)
(* matters and are left out: calibration, and the push of entries.         *)
(***************************************************************************)
EXTENDS Naturals, Sequences, FiniteSetsExt, Functions

CONSTANTS
    Agents, Urls,
    Self, SelfUrl,
    PeerLists,      \* the configured URLs, in order, for each deployment
    Runs,
    Bearer,         \* bearer_token of each agent, None where auth is not configured
    PeerTokens,     \* peer_tokens of the initiator: by agent, or for "*"
    MaxHandovers,   \* bound
    None

ASSUME TransportAssumption ==
    /\ Self \in Agents
    /\ SelfUrl \in Urls
    /\ \A l \in PeerLists : l \in Seq(Urls) /\ IsInjective(l)
    /\ None \notin Agents
    /\ \A a \in DOMAIN PeerTokens \cap Agents : PeerTokens[a] = Bearer[a]

VARIABLES
    peers,        \* the deployment's list
    host,         \* the agent behind each URL, or None
    handovers,    \* how often one was handed over
    ids,          \* _peer_agent_ids, with "*" for what it does not hold
    pc,           \* where each run is
    manifest,     \* the id in the manifest each run was answered with, or None
    fetched,      \* URLs of which each run has seen the answer or a failure
    asked,        \* the requests each run has made of its peers
    answers,      \* how many proposals each agent gave each run
    last,         \* the last protected call
    disturbed     \* URLs that were handed over during each run, or bound by an
                  \* outdated answer to another (history variable)

vars == <<peers, host, handovers, ids, pc, manifest, fetched, asked, answers, last, disturbed>>

PeerUrls == {peers[i] : i \in DOMAIN peers}

Init ==
    /\ peers \in PeerLists
    /\ host \in {h \in [Urls -> Agents] : h[SelfUrl] = Self}
    /\ handovers = 0
    /\ ids = [u \in Urls |-> "*"]
    /\ pc = [r \in Runs |-> "new"]
    /\ manifest = [r \in Runs |-> [u \in Urls |-> None]]
    /\ fetched = [r \in Runs |-> {}]
    /\ asked = [r \in Runs |-> {}]
    /\ answers = [r \in Runs |-> [a \in Agents |-> 0]]
    /\ last = None
    /\ disturbed = [r \in Runs |-> {}]

\* Another agent, or none, is deployed behind a URL that is not the initiator's.
Handover(u, a) ==
    /\ handovers < MaxHandovers
    /\ u # SelfUrl /\ host[u] # a
    /\ handovers' = handovers + 1
    /\ host' = [host EXCEPT ![u] = a]
    /\ disturbed' = [r \in Runs |-> disturbed[r] \cup {u}]
    /\ UNCHANGED <<peers, ids, pc, manifest, fetched, asked, answers, last>>
-----------------------------------------------------------------------------
\* Discovery.

Start(r) ==
    /\ pc[r] = "new"
    /\ pc' = [pc EXCEPT ![r] = "discover"]
    /\ disturbed' = [disturbed EXCEPT ![r] = {}]
    /\ UNCHANGED <<peers, host, handovers, ids, manifest, fetched, asked, answers, last>>

Fetching(r, u) == pc[r] = "discover" /\ u \in PeerUrls \ fetched[r]

\* GET /.well-known/adp-manifest.json at the peer.
Serve(r, u) ==
    /\ Fetching(r, u)
    /\ manifest[r][u] = None
    /\ host[u] # None
    /\ manifest' = [manifest EXCEPT ![r][u] = host[u]]
    /\ UNCHANGED <<peers, host, handovers, ids, pc, fetched, asked, answers, last, disturbed>>

\* (mutant)
BindOnce(u, a) == ids' = [ids EXCEPT ![u] = IF @ = "*" THEN a ELSE @]

\* register_agent, and what fetch_manifest does with its answer.
Bind(u, a) == ids' = [ids EXCEPT ![u] = a]

\* The answer is read.
Learn(r, u) ==
    /\ Fetching(r, u)
    /\ manifest[r][u] # None
    /\ fetched' = [fetched EXCEPT ![r] = @ \cup {u}]
    /\ Bind(u, manifest[r][u])
    /\ disturbed' = [s \in Runs |->
           disturbed[s] \cup (IF s # r /\ manifest[r][u] # host[u] THEN {u} ELSE {})]
    /\ UNCHANGED <<peers, host, handovers, pc, manifest, asked, answers, last>>

\* No answer within ten seconds, or one that is no manifest.
FetchFails(r, u) ==
    /\ Fetching(r, u)
    /\ fetched' = [fetched EXCEPT ![r] = @ \cup {u}]
    /\ manifest' = [manifest EXCEPT ![r][u] = None]
    /\ UNCHANGED <<peers, host, handovers, ids, pc, asked, answers, last, disturbed>>

\* run() binds its own URL.
RegisterSelf(r) == Bind(SelfUrl, Self)

Discovered(r) ==
    /\ pc[r] = "discover" /\ fetched[r] = PeerUrls
    /\ pc' = [pc EXCEPT ![r] = "collect"]
    /\ RegisterSelf(r)
    /\ UNCHANGED <<peers, host, handovers, manifest, fetched, asked, answers, last, disturbed>>

\* _manifests and _peer_url_map: of two URLs with one id the later counts.
Named(r) == {manifest[r][u] : u \in fetched[r]} \ {None}

UrlOf(r, a) ==
    IF a = Self THEN SelfUrl ELSE peers[Max({i \in DOMAIN peers : manifest[r][peers[i]] = a})]
-----------------------------------------------------------------------------
\* Calls.

\* get_peer_token.
PeerToken(id) ==
    CASE id \in DOMAIN PeerTokens -> PeerTokens[id]
      [] id \notin DOMAIN PeerTokens /\ "*" \in DOMAIN PeerTokens -> PeerTokens["*"]
      [] OTHER -> None

\* (mutant)
AcceptsAny(a, token) == Bearer[a] # None /\ token # None

\* AuthMiddleware on a protected path.
Accepts(a, token) == Bearer[a] # None /\ token = Bearer[a]

\* A call at URL u to the agent the run knows as a.
Call(r, a, u) ==
    [run |-> r, agent |-> a, url |-> u, by |-> host[u],
     accepted |-> host[u] # None /\ Accepts(host[u], PeerToken(ids[u]))]

\* POST /api/propose: the answer, if there is one, is host[u]'s proposal.
Request(r, a, u) ==
    LET c == Call(r, a, u)
    IN  /\ last' = c
        /\ answers' = IF c.accepted THEN [answers EXCEPT ![r][c.by] = @ + 1] ELSE answers

\* (mutant)
EveryUrl(r) == {<<manifest[r][u], u>> : u \in {v \in fetched[r] : manifest[r][v] # None}}

\* Whom run() asks for a proposal, and where.
Targets(r) == {<<a, UrlOf(r, a)>> : a \in Named(r)}

AskPeer(r) ==
    /\ pc[r] = "collect"
    /\ \E t \in Targets(r) \ asked[r] :
          /\ asked' = [asked EXCEPT ![r] = @ \cup {t}]
          /\ Request(r, t[1], t[2])
    /\ UNCHANGED <<peers, host, handovers, ids, pc, manifest, fetched, disturbed>>

\* The initiator asks itself last; without its own proposal the run fails.
AskSelf(r) ==
    /\ pc[r] = "collect" /\ asked[r] = Targets(r)
    /\ Request(r, Self, SelfUrl)
    /\ pc' = [pc EXCEPT ![r] = IF last'.accepted THEN "rounds" ELSE "failed"]
    /\ UNCHANGED <<peers, host, handovers, ids, manifest, fetched, asked, disturbed>>

\* POST /api/respond-falsification, to an agent that proposed.
Falsify(r, a) ==
    /\ pc[r] = "rounds"
    /\ answers[r][a] > 0 /\ a \in Named(r) \cup {Self}
    /\ last' = Call(r, a, UrlOf(r, a))
    /\ UNCHANGED <<peers, host, handovers, ids, pc, manifest, fetched, asked, answers, disturbed>>

\* The agent that proposed is not one that was discovered: _peer_url_map has
\* no URL for it, and run() raises.
FalsifyUnknown(r, a) ==
    /\ pc[r] = "rounds"
    /\ answers[r][a] > 0 /\ a \notin Named(r) \cup {Self}
    /\ pc' = [pc EXCEPT ![r] = "failed"]
    /\ UNCHANGED <<peers, host, handovers, ids, manifest, fetched, asked, answers, last, disturbed>>

Finish(r) ==
    /\ pc[r] = "rounds"
    /\ pc' = [pc EXCEPT ![r] = "done"]
    /\ UNCHANGED <<peers, host, handovers, ids, manifest, fetched, asked, answers, last, disturbed>>

Next ==
    \/ \E u \in Urls, a \in Agents \cup {None} : Handover(u, a)
    \/ \E r \in Runs :
          \/ Start(r)
          \/ \E u \in Urls : Serve(r, u) \/ Learn(r, u) \/ FetchFails(r, u)
          \/ Discovered(r)
          \/ AskPeer(r)
          \/ AskSelf(r)
          \/ \E a \in Agents : Falsify(r, a) \/ FalsifyUnknown(r, a)
          \/ Finish(r)

Spec == Init /\ [][Next]_vars
-----------------------------------------------------------------------------
\* A call reaches the agent that was discovered and is refused only if no token
\* is configured for it, unless the URL was handed over during the run, or an
\* outdated answer to another run came in: what earlier runs left in the map
\* does no harm (transport.py, fetch_manifest and _headers_for).  So a call of
\* the initiator to itself always carries its own token (peer_deliberation.py:
\* without register_agent it would be rejected with 401).
FreshCallsReachTheirAgent ==
    last # None /\ last.url \notin disturbed[last.run] =>
        /\ last.by = last.agent
        /\ last.accepted <=> PeerToken(last.agent) = Bearer[last.agent]
                             /\ Bearer[last.agent] # None

\* A proposal is counted for another agent than its author's only if some run
\* has discovered at that URL an agent with the author's token: the tokens keep
\* the peers apart, those under the wildcard excepted, which share one
\* (peer_deliberation.py, _request_one: weight and credit go to the id that was
\* asked; middleware.py, compare_digest).
AnswersAreAttributed ==
    last # None /\ last.accepted /\ last.by # last.agent =>
        \E r \in Runs :
            /\ last.url \in fetched[r] /\ manifest[r][last.url] # None
            /\ PeerToken(manifest[r][last.url]) = Bearer[last.by]

\* However many URLs lead to it, an agent gives a run one proposal; only the
\* initiator gives two, where it is among its own peers (peer_deliberation.py,
\* _manifests and the self-proposal behind them).  A run in which a URL changed
\* hands, or was bound by an answer out of date, is excepted; and no URL is listed
\* twice (TransportAssumption).
AskedOnce ==
    \A r \in Runs, a \in Agents :
        answers[r][a] > 1 => (a = Self /\ Self \in Named(r)) \/ disturbed[r] # {}
=============================================================================
