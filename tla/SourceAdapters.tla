--------------------------- MODULE SourceAdapters ---------------------------
(***************************************************************************)
(* One adapter execution after another: how the options of a command or of *)
(* POST /admin/crawl become the adapter's context and configuration, and   *)
(* which answer of the source becomes which AdapterResult.                 *)
(*                                                                         *)
(* Collector takes a source for a pair of an adapter and a scope_key; this *)
(* module is about whether the pair names the source.  Adapters are made   *)
(* without arguments, as the CLI and the API make them, so everything they *)
(* know comes with the context.                                            *)
(***************************************************************************)
EXTENDS Naturals, Sequences, FiniteSets

CONSTANTS Texts,     \* tokens, slugs and URLs that operators type
          Names,     \* company names
          Empty,     \* the empty string
          None,
          Postings,  \* how many postings an answer of a source can have
          MaxRuns    \* bound on the executions

SourceScope == [demo |-> "fixture", greenhouse |-> "greenhouse_board_token",
                lever |-> "lever_company_slug", custom_page |-> "custom_page_config"]
Adapters == DOMAIN SourceScope
DefaultScopes == {SourceScope[a] : a \in Adapters}

ASSUME SourceAdaptersAssumption ==
    /\ {None, Empty} \cap (Texts \cup Names \cup DefaultScopes) = {}
    /\ None \notin {Empty, "configure", "fetch", "parse"}
    /\ Postings \subseteq Nat
    /\ MaxRuns \in Nat

VARIABLES pc,        \* where the execution is
          context,   \* the AdapterContext it was given
          answer,    \* what the source or the browser answered
          result,    \* the AdapterResult that fetch_jobs returned
          runs       \* the executions: adapter, recorded scope_key, source
                     \* and whether its options were plain; the last one runs

vars == <<pc, context, answer, result, runs>>

Adapter == runs[Len(runs)].adapter

ScopeKeys == {"scope_key", "board_token", "company_slug", "listing_url"}

(* The request's options; only scope_key distinguishes empty from absent.  *)
Options == [scope_key : Texts \cup {None, Empty}, board_token : Texts \cup {None},
            company_slug : Texts \cup {None}, listing_url : Texts \cup {None},
            api_url : Texts \cup {None}, company_name : Names \cup {None}]

NoOptions == [scope_key |-> None, board_token |-> None, company_slug |-> None,
              listing_url |-> None, api_url |-> None, company_name |-> None]

(* Python's `or`                                                           *)
x ?? y == IF x \in {None, Empty} THEN y ELSE x
-----------------------------------------------------------------------------
(* From options to a context                                               *)

(* The arguments of `crawl run`; a config file names a company and a page. *)
Arguments == [scope : Texts \cup {None}, company : Names \cup {None},
              api_url : Texts \cup {None}, listing : Texts \cup {None},
              config : [company : Names, listing : Texts] \cup {None}]

(* Otherwise _custom_page_options raises BadParameter.                     *)
Accepted(a, args) ==
    a = "custom_page" => \/ args.config # None
                         \/ args.listing # None /\ args.company # None

(* _cli_context                                                            *)
CliOptions(a, args) ==
    LET given(names, value) == IF a \in names THEN value ELSE None
        page == IF args.config # None THEN args.config
                ELSE [company |-> None, listing |-> args.listing]
    IN  [scope_key    |-> given({"demo", "custom_page"}, args.scope),
         board_token  |-> given({"greenhouse"}, args.scope),
         company_slug |-> given({"lever"}, args.scope),
         listing_url  |-> given({"custom_page"}, page.listing),
         company_name |-> args.company ?? given({"custom_page"}, page.company),
         api_url      |-> args.api_url]

(* Variant, wrong: company_slug is not among SCOPE_OPTION_KEYS.            *)
ContextWithoutSlug(o) ==
    [scope   |-> IF o.scope_key # None THEN o.scope_key
                 ELSE o.board_token ?? o.listing_url,
     options |-> [o EXCEPT !.scope_key = None]]

(* context_from_options                                                    *)
ContextFrom(o) ==
    [scope   |-> IF o.scope_key # None THEN o.scope_key
                 ELSE o.board_token ?? o.company_slug ?? o.listing_url,
     options |-> [o EXCEPT !.scope_key = None]]

(* Variant, wrong: an empty scope_key is taken as it is.                   *)
ScopeGiven(a) == IF context.scope = None THEN SourceScope[a] ELSE context.scope

(* checkpoint_scope                                                        *)
CheckpointScope(a) == context.scope ?? SourceScope[a]

(* The options name the source, if at all, in one way.                     *)
Plain(o) ==
    /\ o.api_url = None
    /\ Cardinality({k \in ScopeKeys : o[k] # None}) <= 1
-----------------------------------------------------------------------------
(* The executions                                                          *)

Init ==
    /\ pc = "idle"
    /\ context = ContextFrom(NoOptions)
    /\ answer = None
    /\ result = None
    /\ runs = <<>>

(* The collector starts an adapter with a context.                         *)
Begin(a, c, plain) ==
    /\ pc = "idle"
    /\ Len(runs) < MaxRuns
    /\ pc' = "collect"
    /\ context' = c
    /\ runs' = Append(runs, [adapter |-> a, scope |-> None, source |-> None, plain |-> plain])
    /\ UNCHANGED <<answer, result>>

CrawlRun ==
    \E a \in Adapters, args \in Arguments :
        /\ Accepted(a, args)
        /\ Begin(a, ContextFrom(CliOptions(a, args)), Plain(CliOptions(a, args)))

AdminCrawl ==
    \E a \in Adapters, o \in Options : Begin(a, ContextFrom(o), Plain(o))

(* _resume_contexts: the recorded scope_key, and no options.               *)
CrawlResume ==
    \E i \in DOMAIN runs :
        Begin(runs[i].adapter, [scope |-> runs[i].scope, options |-> NoOptions], runs[i].plain)

(* Collector.run opens the adapter's state row and calls fetch_jobs.       *)
Collect ==
    /\ pc = "collect"
    /\ pc' = "configure"
    /\ context' = [context EXCEPT !.scope = CheckpointScope(Adapter)]
    /\ runs' = [runs EXCEPT ![Len(runs)].scope = CheckpointScope(Adapter)]
    /\ UNCHANGED <<answer, result>>

(* fetch_jobs raises: the collector records an error, and no result.       *)
Raise ==
    /\ pc' = "returned"
    /\ UNCHANGED <<context, answer, result, runs>>

Return(jobs, error, next) ==
    /\ pc' = "returned"
    /\ result' = [jobs |-> jobs, error |-> error, next |-> next]
    /\ UNCHANGED <<context, answer, runs>>

Turn(step) == pc' = step /\ UNCHANGED <<context, result>>

(* CustomPageConfig forbids what it does not know and needs two fields.    *)
PageConfigValid(o) ==
    /\ o.board_token = None /\ o.company_slug = None /\ o.api_url = None
    /\ o.company_name # None /\ o.listing_url # None

(* The URL fetch_jobs asks; Collect has seen to it that there is a scope.  *)
Source(a, scope, o) ==
    CASE a = "demo"        -> <<"fixture">>
      [] a = "greenhouse"  -> o.api_url ?? <<"boards", o.board_token ?? scope>>
      [] a = "lever"       -> o.api_url ?? <<"postings", o.company_slug ?? scope>>
      [] a = "custom_page" -> o.listing_url

(* _config_from_context, and the head of fetch_jobs; nothing reads the     *)
(* context after it.                                                       *)
NotConfigured ==
    /\ pc = "configure"
    /\ Adapter = "custom_page"
    /\ \/ context.options = NoOptions /\ Return(0, "configure", None)
       \/ context.options # NoOptions /\ ~PageConfigValid(context.options) /\ Raise

Configured ==
    /\ pc = "configure"
    /\ Adapter = "custom_page" => PageConfigValid(context.options)
    /\ runs' = [runs EXCEPT ![Len(runs)].source =
                   Source(Adapter, context.scope, context.options)]
    /\ pc' = IF Adapter = "demo" THEN "parse" ELSE "fetch"
    /\ context' = ContextFrom(NoOptions)
    /\ UNCHANGED <<answer, result>>

(* The source answers with n postings, bad of which lack what a            *)
(* RawJobPosting must have.                                                *)
Answers(step) ==
    \E n \in Postings : \E bad \in 0 .. n :
        /\ answer' = [postings |-> n, bad |-> bad]
        /\ UNCHANGED runs
        /\ Turn(step)

FetchOk == pc = "fetch" /\ Answers("parse")

(* FetchError; a page may be configured to be asked for with a browser.    *)
FetchFails ==
    /\ pc = "fetch"
    /\ \/ Return(0, "fetch", None)
       \/ Adapter = "custom_page" /\ UNCHANGED <<answer, runs>> /\ Turn("browser")

FetchRaises == pc \in {"fetch", "browser"} /\ Raise

BrowserOk == pc = "browser" /\ Answers("parse")

(* parse_payload: the first bad posting raises.                            *)
ParsePayload ==
    /\ pc = "parse"
    /\ Adapter \in {"greenhouse", "lever"}
    /\ IF answer.bad > 0 THEN Raise ELSE Return(answer.postings, None, "instant")

(* Variant, wrong: bad postings are skipped.                               *)
ParseHtmlLeniently ==
    /\ pc = "parse"
    /\ Adapter = "custom_page"
    /\ IF answer.postings = 0 THEN Return(0, "parse", None)
       ELSE Return(answer.postings - answer.bad, None, None)

(* parse_html: a page without postings, or with a bad one, is a ValueError. *)
ParseHtml ==
    /\ pc = "parse"
    /\ Adapter = "custom_page"
    /\ IF answer.postings = 0 \/ answer.bad > 0 THEN Return(0, "parse", None)
       ELSE Return(answer.postings, None, None)

DemoReturns ==
    /\ pc = "parse"
    /\ Adapter = "demo"
    /\ Return(2, None, "demo-complete")

(* The collector is done with the adapter; only the run's record stays.    *)
Finish ==
    /\ pc = "returned"
    /\ pc' = "idle"
    /\ context' = ContextFrom(NoOptions)
    /\ answer' = None
    /\ result' = None
    /\ UNCHANGED runs

Next ==
    \/ CrawlRun
    \/ AdminCrawl
    \/ CrawlResume
    \/ Collect
    \/ NotConfigured
    \/ Configured
    \/ FetchOk
    \/ FetchFails
    \/ FetchRaises
    \/ BrowserOk
    \/ ParsePayload
    \/ ParseHtml
    \/ DemoReturns
    \/ Finish

Spec == Init /\ [][Next]_vars
-----------------------------------------------------------------------------
(* Properties                                                              *)

Sources == {<<"fixture">>} \cup Texts
           \cup {"boards", "postings"} \X (Texts \cup DefaultScopes)

(* Every variable has its type; the state row's scope_key is never empty,  *)
(* and neither is that of the context the adapter is called with.          *)
TypeOK ==
    /\ pc \in {"idle", "collect", "configure", "fetch", "browser", "parse", "returned"}
    /\ context \in [scope : Texts \cup {None, Empty} \cup DefaultScopes,
                    options : Options]
    /\ pc = "configure" => context.scope \notin {None, Empty}
    /\ answer \in [postings : Postings, bad : Nat] \cup {None}
    /\ result \in [jobs : Nat, error : {None, "configure", "fetch", "parse"},
                   next : {None, "instant", "demo-complete"}] \cup {None}
    /\ \A i \in DOMAIN runs :
          /\ runs[i].adapter \in Adapters
          /\ runs[i].scope \in Texts \cup DefaultScopes
                              \cup (IF i = Len(runs) THEN {None} ELSE {})
          /\ runs[i].source \in Sources \cup {None}
          /\ runs[i].plain \in BOOLEAN

(* Adapter and scope_key name the source, under which checkpoints are kept *)
(* and runs are resumed: of executions whose options name the source in    *)
(* one way at most, and resumes of them, those with the same adapter and   *)
(* scope_key that asked a source asked the same one.                       *)
ScopeNamesSource ==
    \A i, j \in DOMAIN runs :
        /\ runs[i].plain /\ runs[j].plain
        /\ runs[i].adapter = runs[j].adapter
        /\ runs[i].scope = runs[j].scope
        /\ None \notin {runs[i].source, runs[j].source}
        => runs[i].source = runs[j].source

(* fetch_jobs gives all the postings of an answer or none: a result with   *)
(* an error has no postings and no cursor for the checkpoint, and one      *)
(* without has every posting the source answered with.                     *)
AllOrNothing ==
    result # None =>
        IF result.error # None THEN result.jobs = 0 /\ result.next = None
        ELSE answer # None => result.jobs = answer.postings
=============================================================================
