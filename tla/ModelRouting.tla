---------------------------- MODULE ModelRouting ----------------------------
(***************************************************************************)
(* Which backend a requested model reaches.  RoutingUpstreamClient         *)
(* (src/src/upstream.rs) keeps a catalog of what the upstreams list, loads *)
(* it again under an async mutex when it is ROUTING_MODEL_CATALOG_TTL_SECS *)
(* old, and resolves every dispatch by it.  The engine (src/src/engine.rs) *)
(* has a cached catalog of its own, made from the first, which it names    *)
(* the turn's model by; it then asks the routing client who may serve the  *)
(* model, and by that decides whether raw images may go out.               *)
(*                                                                         *)
(* A model id stands for itself trimmed; ids without a letter or digit are *)
(* left out.                                                               *)
(***************************************************************************)
EXTENDS Integers, Sequences, SequencesExt, FiniteSets, Picks

CONSTANTS
    Inbound,       \* the requests
    Names,         \* what a model may be called, the ids among it
    Asked,         \* what they ask for
    Blank,         \* no model asked for
    NoModel,       \* no rewrite, no exposed alias
    Key,           \* canonical_model_key of each name
    Remap,         \* what a profile makes of each name
    Profile,       \* native_vision of each name's profile
    SeemsNative,   \* the names that look native
    Chains,        \* upstreams, each with its chain of [rewrite, exposed]
    Routes,        \* model_routes: [exact, names, rewrite]
    Offers,        \* what an upstream's /v1/models may answer
    CatalogTtl,
    MaxTurnRounds, \* bound on the dispatches of a turn
    MaxChanges     \* bound on the changes of what is offered

Upstreams == DOMAIN Chains

\* An answer to /v1/models: a list, a failed request, or a list that cannot be
\* read.
Listed(ids) == [state |-> "listed", ids |-> ids]
Down == [state |-> "down", ids |-> <<>>]
Garbled == [state |-> "garbled", ids |-> <<>>]

Nobody == "nobody"

ASSUME RoutingAssumption ==
    /\ Nobody \notin Inbound
    /\ CatalogTtl \in Nat \ {0} /\ MaxTurnRounds \in Nat /\ MaxChanges \in Nat
    /\ Asked \subseteq Names
    /\ Chains \in Seq(Seq([rewrite : Names \cup {NoModel}, exposed : Names \cup {NoModel}]))
    /\ \A p \in Upstreams :
          Offers[p] \subseteq [state : {"listed", "down", "garbled"}, ids : Seq(Names)]
    /\ \A n \in Names : Remap[n] \in Names /\ Profile[n] \in {"native", "text", "unset"}
    /\ \A k \in DOMAIN Routes : Blank \notin Routes[k].names
    /\ \A p \in Upstreams : Chains[p][1].exposed = NoModel

VARIABLES
    offers,   \* what each upstream lists now
    changes,  \* how often that has changed
    catalog,  \* the routing client's cache: its age, and what it holds
    names,    \* the engine's cache: its age, and the ids
    refresh,  \* the holder of the routing mutex and the answers it has
    inbound   \* the requests

\* Beside a refresh, the catalog it made and the plan that was made by it
\* stands, for the properties, how often the offers had changed when the
\* refresh began: "since".

routingVars == <<offers, changes, catalog, names, refresh, inbound>>

Idle == [by |-> Nobody, answers |-> <<>>, since |-> 0]

-----------------------------------------------------------------------------
(* The catalog of a vector of answers.                                     *)

\* primary_provider_model_entries.
PrimaryModels(p, answer) ==
    IF answer = Garbled THEN <<>>
    ELSE IF Chains[p][1].rewrite # NoModel THEN <<Chains[p][1].rewrite>>
    ELSE answer.ids

\* One upstream's candidates: served by its whole chain, or an alias served by
\* one fallback; the first of an id counts.
CandidatesOf(p, answer) ==
    LET listed  == PrimaryModels(p, answer)
        models  == [k \in DOMAIN listed |-> [provider |-> p, model |-> listed[k], only |-> 0]]
        aliases == [k \in DOMAIN Chains[p] |->
                       [provider |-> p, model |-> Chains[p][k].exposed, only |-> k]]
        all     == models \o aliases
        ids     == [k \in DOMAIN all |-> all[k].model]
    IN  Picked(all, {k \in Firsts(ids) : ids[k] # NoModel})

\* The candidates of all upstreams in their order, and the ids /v1/models
\* answers.  A refresh fails only if there is nothing at all to dispatch to.
CatalogOf(answers) ==
    LET all == FlattenSeq([p \in DOMAIN answers |-> CandidatesOf(p, answers[p])])
        ids == [k \in DOMAIN all |-> all[k].model]
    IN  [ok |-> all # <<>> \/ Routes # <<>>, all |-> all, ids |-> Picked(ids, Firsts(ids))]

NoCatalog == [ok |-> FALSE, all |-> <<>>, ids |-> <<>>]

-----------------------------------------------------------------------------
(* The two ladders.                                                        *)

RouteFits(route, name) == name \in route.names

\* match_route: a name before a glob, then the order of declaration.
MatchRoute(name) ==
    LET exact == SelectInSeq(Routes, LAMBDA r : r.exact /\ RouteFits(r, name))
    IN  IF exact # 0 THEN exact
        ELSE SelectInSeq(Routes, LAMBDA r : ~r.exact /\ RouteFits(r, name))

\* The ids that differ from the name by case and punctuation only.
Alike(ids, name) == {id \in ToSet(ids) : name # Blank /\ Key[id] = Key[name]}

NoTarget == [provider |-> 0, model |-> NoModel, only |-> 0]
RouteTarget(k, name) ==
    [provider |-> 0, only |-> k,
     model |-> IF Routes[k].rewrite = NoModel THEN name ELSE Routes[k].rewrite]

FirstOf(all, id) == all[SelectInSeq(all, LAMBDA c : c.model = id)]

\* RoutingModelCatalog::resolve.
Resolve(found, name) ==
    LET route == MatchRoute(name)
        alike == Alike(found.ids, name)
    IN  IF name \in ToSet(found.ids) THEN FirstOf(found.all, name)
        ELSE IF route # 0 THEN RouteTarget(route, name)
        ELSE IF Cardinality(alike) = 1 THEN FirstOf(found.all, CHOOSE id \in alike : TRUE)
        ELSE IF found.all # <<>> THEN Head(found.all) ELSE NoTarget

Named(model, genuine) == [model |-> model, genuine |-> genuine]

CanonicalFirst(ids, name) ==
    LET alike == Alike(ids, name)
    IN  IF Cardinality(alike) = 1 THEN Named(CHOOSE id \in alike : TRUE, TRUE)
        ELSE IF MatchRoute(name) # 0 THEN Named(name, TRUE)
        ELSE IF ids # <<>> THEN Named(Head(ids), FALSE) ELSE Named(name, TRUE)

\* normalize_upstream_model: the model to serve, and whether it is the one that
\* was asked for.  A route's name stays as it is.
Normalize(ids, name) ==
    LET alike == Alike(ids, name)
    IN  IF name \in ToSet(ids) \/ MatchRoute(name) # 0 THEN Named(name, TRUE)
        ELSE IF Cardinality(alike) = 1 THEN Named(CHOOSE id \in alike : TRUE, TRUE)
        ELSE IF ids # <<>> THEN Named(Head(ids), FALSE) ELSE Named(name, TRUE)

-----------------------------------------------------------------------------
(* Who may serve, as it is planned and as it is done.                      *)

\* provider_upstream_model, or the model as it is.
EffectiveModel(p, k, model) ==
    IF Chains[p][k].rewrite = NoModel THEN model ELSE Chains[p][k].rewrite

\* FailoverUpstreamClient::backend_candidate_plan: the whole chain, whoever is
\* cooling down.
ChainPlan(p, model) ==
    [k \in DOMAIN Chains[p] |-> EffectiveModel(p, k, model)]

\* backend_candidate_plan: a route's one backend, an alias's one provider
\* (failover_provider_model), or the chain.
PlanFor(found, name) ==
    LET target == Resolve(found, name)
    IN  IF ~found.ok \/ target = NoTarget THEN <<>>
        ELSE IF target.provider = 0 THEN <<target.model>>
        ELSE IF target.only # 0
             THEN <<EffectiveModel(target.provider, target.only, target.model)>>
        ELSE ChainPlan(target.provider, target.model)

\* request_for_provider: what the k-th of a chain is sent of a request.
SentTo(p, k, model) ==
    IF Chains[p][k].rewrite # NoModel THEN Chains[p][k].rewrite ELSE model

\* The providers of the chain that stream_chat_completion_with_timeout tries:
\* all of them, or the one of ..._from_provider.
Tried(target) ==
    IF target.only # 0 THEN {target.only} ELSE DOMAIN Chains[target.provider]

\* The models that may serve a dispatch, before its first chunk.
Servers(target) ==
    IF target.provider = 0 THEN {target.model}
    ELSE {SentTo(target.provider, k, target.model) : k \in Tried(target)}

CandidateIsNative(model) ==
    Profile[model] = "native" \/ (Profile[model] = "unset" /\ model \in SeemsNative)

\* backend_is_native_vision: the profile of the name that was asked for speaks
\* for the first candidate, if the name is genuine.
IsNative(name, genuine, plan) ==
    /\ plan # <<>>
    /\ \A k \in DOMAIN plan :
          IF k = 1 /\ genuine /\ Profile[name] # "unset" THEN Profile[name] = "native"
          ELSE CandidateIsNative(plan[k])

-----------------------------------------------------------------------------
(* The requests.  A raw completion has neither name resolution nor gate.   *)

Fresh(cache) == cache.age < CatalogTtl

NewTurn(kind, name) ==
    [kind |-> kind, name |-> name, at |-> IF kind = "turn" THEN "naming" ELSE "routing",
     model |-> name, genuine |-> TRUE, plan |-> <<>>, since |-> 0,
     raw |-> FALSE, landed |-> {}, rounds |-> 0]

Away == [NewTurn("raw", Blank) EXCEPT !.at = "idle"]
Left == [Away EXCEPT !.at = "over"]

Move(r, to) == inbound' = [inbound EXCEPT ![r] = to]
At(r, place) == inbound[r].at = place

AskFor(r, kind, name) ==
    /\ At(r, "idle")
    /\ Move(r, NewTurn(kind, name))
    /\ UNCHANGED <<offers, changes, catalog, names, refresh>>

NameFromCache(r) ==
    /\ At(r, "naming") /\ Fresh(names)
    /\ \A other \in Inbound : ~At(other, "listing")
    /\ LET named == Normalize(names.ids, Remap[inbound[r].name])
       IN  Move(r, [inbound[r] EXCEPT !.at = "gating", !.model = named.model,
                                      !.genuine = named.genuine])
    /\ UNCHANGED <<offers, changes, catalog, names, refresh>>

\* load_upstream_model_catalog holds the engine's mutex over the routing
\* client's load.
TakeNames(r) ==
    /\ At(r, "naming") /\ ~Fresh(names)
    /\ \A other \in Inbound : ~At(other, "listing")
    /\ Move(r, [inbound[r] EXCEPT !.at = "listing"])
    /\ UNCHANGED <<offers, changes, catalog, names, refresh>>

\* Without a catalog the name goes through as it is.
ListingEnds(r, found) ==
    /\ At(r, "listing")
    /\ LET asked == Remap[inbound[r].name]
           named == IF found.ok THEN Normalize(found.ids, asked) ELSE Named(asked, TRUE)
       IN  Move(r, [inbound[r] EXCEPT !.at = "gating", !.model = named.model,
                                      !.genuine = named.genuine])
    /\ names' = IF found.ok THEN [age |-> 0, ids |-> found.ids] ELSE names

GatingEnds(r, found, since) ==
    /\ At(r, "gating")
    /\ LET plan == PlanFor(found, inbound[r].model)
       IN  Move(r, [inbound[r] EXCEPT
              !.at = "budgeting", !.plan = plan, !.since = since,
              !.raw = IsNative(inbound[r].name, inbound[r].genuine, plan)])
    /\ UNCHANGED names

\* A second plan, for the context windows.
BudgetingEnds(r) ==
    /\ At(r, "budgeting")
    /\ Move(r, [inbound[r] EXCEPT !.at = "routing"])
    /\ UNCHANGED names

\* The dispatch resolves by the catalog of now; any of the chain may serve.
Routed(r, target) ==
    \E served \in Servers(target) :
        Move(r, [inbound[r] EXCEPT !.at = "streaming", !.landed = @ \cup {served},
                                   !.rounds = @ + 1])

RoutingEnds(r, found) ==
    /\ At(r, "routing")
    /\ LET target == Resolve(found, inbound[r].model)
       IN  IF found.ok /\ target # NoTarget THEN Routed(r, target) ELSE Move(r, Left)
    /\ UNCHANGED names

LoadEnds(r, found, since) ==
    \/ ListingEnds(r, found) \/ GatingEnds(r, found, since)
    \/ BudgetingEnds(r) \/ RoutingEnds(r, found)

Loading(r) == inbound[r].at \in {"listing", "gating", "budgeting", "routing"}

\* load_catalog.
LoadCached(r) ==
    /\ refresh = Idle /\ Fresh(catalog)
    /\ LoadEnds(r, catalog.found, catalog.since)
    /\ UNCHANGED <<offers, changes, catalog, refresh>>

StartRefresh(r) ==
    /\ refresh = Idle /\ ~Fresh(catalog) /\ Loading(r)
    /\ refresh' = [by |-> r, answers |-> <<>>, since |-> changes]
    /\ UNCHANGED <<offers, changes, catalog, names, inbound>>

\* The upstreams are asked one after the other, under the mutex.
Hear(r) ==
    /\ refresh.by = r /\ Len(refresh.answers) < Len(Chains)
    /\ refresh' = [refresh EXCEPT !.answers = Append(@, offers[Len(@) + 1])]
    /\ UNCHANGED <<offers, changes, catalog, names, inbound>>

Ending(r, found, since) ==
    /\ catalog' = IF found.ok THEN [age |-> 0, found |-> found, since |-> since]
                  ELSE catalog
    /\ LoadEnds(r, found, since)
    /\ UNCHANGED <<offers, changes>>

\* A failed refresh is not cached: who waits will try again.
FinishRefresh(r) ==
    /\ refresh.by = r /\ Len(refresh.answers) = Len(Chains)
    /\ refresh' = Idle
    /\ Ending(r, CatalogOf(refresh.answers), refresh.since)

\* The answer asks for another round, or the turn is over.
AnswerOver(r) ==
    /\ At(r, "streaming")
    /\ \/ /\ inbound[r].kind = "turn" /\ inbound[r].rounds < MaxTurnRounds
          /\ Move(r, [inbound[r] EXCEPT !.at = "routing"])
       \/ Move(r, Left)
    /\ UNCHANGED <<offers, changes, catalog, names, refresh>>

HangUpCaches(r) ==
    /\ inbound[r].at \notin {"idle", "over"}
    /\ Move(r, Left)
    /\ refresh' = IF refresh.by = r THEN Idle ELSE refresh
    /\ catalog' = IF refresh.by = r
                  THEN [age |-> 0, found |-> CatalogOf(refresh.answers),
                        since |-> refresh.since]
                  ELSE catalog
    /\ UNCHANGED <<offers, changes, names>>

\* The future is dropped, and with it the mutex it holds and the answers it has.
HangUp(r) ==
    /\ inbound[r].at \notin {"idle", "over"}
    /\ Move(r, Left)
    /\ refresh' = IF refresh.by = r THEN Idle ELSE refresh
    /\ UNCHANGED <<offers, changes, catalog, names>>

Older(cache) == IF Fresh(cache) THEN [cache EXCEPT !.age = @ + 1] ELSE cache

TimePasses ==
    /\ Fresh(catalog) \/ Fresh(names)
    /\ catalog' = Older(catalog) /\ names' = Older(names)
    /\ UNCHANGED <<offers, changes, refresh, inbound>>

\* An upstream goes, comes back or loads another model.
OfferChanges(p) ==
    /\ changes < MaxChanges
    /\ \E answer \in Offers[p] \ {offers[p]} : offers' = [offers EXCEPT ![p] = answer]
    /\ changes' = changes + 1
    /\ UNCHANGED <<catalog, names, refresh, inbound>>

RoutingInit ==
    /\ offers \in {o \in [Upstreams -> UNION {Offers[p] : p \in Upstreams}] :
                      \A p \in Upstreams : o[p] \in Offers[p]}
    /\ changes = 0
    /\ catalog = [age |-> CatalogTtl, found |-> NoCatalog, since |-> 0]
    /\ names = [age |-> CatalogTtl, ids |-> <<>>]
    /\ refresh = Idle
    /\ inbound = [r \in Inbound |-> Away]

RoutingStep(r) ==
    \/ \E kind \in {"turn", "raw"}, name \in Asked : AskFor(r, kind, name)
    \/ NameFromCache(r) \/ TakeNames(r) \/ LoadCached(r)
    \/ StartRefresh(r) \/ Hear(r) \/ FinishRefresh(r)
    \/ AnswerOver(r) \/ HangUp(r)

RoutingNext ==
    \/ \E r \in Inbound : RoutingStep(r)
    \/ TimePasses
    \/ \E p \in Upstreams : OfferChanges(p)

RoutingSpec == RoutingInit /\ [][RoutingNext]_routingVars

-----------------------------------------------------------------------------
(* Properties.                                                             *)

\* The engine's copy of the ladder agrees with the routing client's: to name
\* the model first and resolve the name then leads where the name that was
\* asked for would (engine.rs: "Precedence (mirrors
\* RoutingModelCatalog::resolve)").
LaddersAgree ==
    \A name \in Names :
        Resolve(catalog.found, Normalize(catalog.found.ids, name).model)
        = Resolve(catalog.found, name)

\* Whoever serves any round of a turn was in the plan that its images were
\* judged by (backend_candidate_plan: "the SAME route/catalog resolution as
\* stream_chat_completion"), the first of a chain, a fallback, an alias or a
\* route alike: unless an upstream has changed what it lists since the catalog
\* of the plan was asked for.  In between, that catalog may have expired and
\* others may have loaded it again, given up a refresh, or failed at it.
ServerWasJudged ==
    \A r \in Inbound :
        inbound[r].kind = "turn" /\ inbound[r].since = changes
        => inbound[r].landed \subseteq ToSet(inbound[r].plan)

\* engine.rs on its sweep: 'the TRUE choke point for "no raw image reaches a
\* non-native-vision backend"'; upstream.rs: native-vision gating "can never
\* disagree with the provider that serves".
ImagesStayNative ==
    \A r \in Inbound :
        inbound[r].kind = "turn" /\ inbound[r].raw /\ Profile[inbound[r].name] = "unset"
        => \A model \in inbound[r].landed : CandidateIsNative(model)
=============================================================================
