------------------------ MODULE SourceAdaptersProofs ------------------------
(***************************************************************************)
(* Theorems about SourceAdapters, for any texts, names and number of       *)
(* executions: adapter and scope_key name the source, and fetch_jobs gives *)
(* all the postings of an answer or none.  After them, about Salary, for   *)
(* any amounts: parse_salary answers what a posting quotes.  The text of a *)
(* posting is amounts and what stands around them; the lemmas say what the *)
(* pattern reads of an amount wherever it stands, that the scan reads      *)
(* nothing else, and what is made of the numbers it gives.                 *)
(***************************************************************************)
EXTENDS SourceAdapters, Salary, FiniteSetTheorems, SequenceTheorems, WellFoundedInduction, TLAPS

(* The source that a scope_key names                                       *)
Named(a, scope) ==
    CASE a = "demo"        -> <<"fixture">>
      [] a = "greenhouse"  -> <<"boards", scope>>
      [] a = "lever"       -> <<"postings", scope>>
      [] a = "custom_page" -> scope

Labels == {"idle", "collect", "configure", "fetch", "browser", "parse", "returned"}
Contexts == [scope : Texts \cup {None, Empty} \cup DefaultScopes, options : Options]
Answered == [postings : Postings, bad : Nat]
Results == [jobs : Nat, error : {None, "configure", "fetch", "parse"},
            next : {None, "instant", "demo-complete"}]
Runs == [adapter : Adapters, scope : Texts \cup DefaultScopes \cup {None},
         source : Sources \cup {None}, plain : BOOLEAN]

Typed ==
    /\ pc \in Labels
    /\ context \in Contexts
    /\ answer \in Answered \cup {None}
    /\ result \in Results \cup {None}
    /\ runs \in Seq(Runs)

(* A run has its scope_key once its state row is there, and a source once  *)
(* the adapter is configured; plain ones then ask what the scope_key names.*)
RunsOK ==
    /\ pc # "idle" => runs # <<>>
    /\ \A i \in 1 .. Len(runs) :
          /\ runs[i].scope = None => i = Len(runs) /\ pc = "collect"
          /\ i = Len(runs) /\ pc \in {"collect", "configure"} => runs[i].source = None
          /\ runs[i].plain /\ runs[i].source # None =>
                runs[i].source = Named(runs[i].adapter, runs[i].scope)

(* A context names the source, if its options do, by its scope_key.        *)
NamesSource(a, c) ==
    /\ c.options.api_url = None
    /\ a = "greenhouse" => c.options.board_token \in {None, c.scope}
    /\ a = "lever" => c.options.company_slug \in {None, c.scope}
    /\ a = "custom_page" => c.options.listing_url \in {None, c.scope}

(* The context of a plain execution names its source by its scope_key.     *)
ContextOK ==
    /\ pc \in {"collect", "configure"} /\ runs[Len(runs)].plain =>
          NamesSource(Adapter, context)
    /\ pc = "configure" =>
          /\ context.scope \notin {None, Empty}
          /\ context.scope = runs[Len(runs)].scope

(* Answers and results are those of the adapter that runs.                 *)
AnswersOK ==
    /\ pc \in {"idle", "collect", "configure", "fetch", "browser"} => answer = None
    /\ pc # "returned" => result = None
    /\ pc \in {"fetch", "browser"} => Adapter # "demo"
    /\ pc = "parse" => IF Adapter = "demo" THEN answer = None ELSE answer \in Answered
    /\ AllOrNothing

Inv == Typed /\ RunsOK /\ ContextOK /\ AnswersOK
-----------------------------------------------------------------------------
(* Facts about the operators                                               *)

LEMMA AdaptersAre == Adapters = {"demo", "greenhouse", "lever", "custom_page"}
  BY DEF Adapters, SourceScope

LEMMA NoneIsNothing ==
    /\ None \notin Texts /\ None \notin Names /\ None \notin DefaultScopes
    /\ Empty \notin Texts /\ Empty \notin Names /\ Empty \notin DefaultScopes
    /\ None # Empty
    /\ None # "configure" /\ None # "fetch" /\ None # "parse"
  BY SourceAdaptersAssumption

LEMMA DefaultScopesType == \A a \in Adapters : SourceScope[a] \in DefaultScopes
  BY DEF DefaultScopes

(* Of the keys of plain options one at most has a value.                   *)
LEMMA PlainHasOne ==
    ASSUME NEW o, Plain(o), NEW k \in ScopeKeys, NEW l \in ScopeKeys,
           o[k] # None, o[l] # None
    PROVE  k = l
<1> DEFINE given == {m \in ScopeKeys : o[m] # None}
<1>1. IsFiniteSet(ScopeKeys)
  <2>1. ScopeKeys = {"scope_key", "board_token", "company_slug", "listing_url"}
    BY DEF ScopeKeys
  <2>2. IsFiniteSet({}) /\ ScopeKeys = ((({} \cup {"scope_key"}) \cup {"board_token"})
                                          \cup {"company_slug"}) \cup {"listing_url"}
    BY <2>1, FS_EmptySet
  <2> QED
    BY <2>2, FS_AddElement
<1>2. IsFiniteSet(given) /\ Cardinality(given) <= 1
  BY <1>1, FS_Subset DEF Plain
<1>3. SUFFICES ASSUME k # l PROVE FALSE
  OBVIOUS
<1>4. {k, l} \subseteq given
  OBVIOUS
<1>5. IsFiniteSet({k}) /\ Cardinality({k}) = 1 /\ l \notin {k} /\ {k} \cup {l} = {k, l}
  BY <1>3, FS_Singleton
<1>6. IsFiniteSet({k, l}) /\ Cardinality({k, l}) = 2
  BY <1>5, FS_AddElement
<1>7. Cardinality({k, l}) <= Cardinality(given) /\ Cardinality(given) \in Nat
  BY <1>2, <1>4, FS_Subset, FS_CardinalityType
<1> QED
  BY <1>2, <1>6, <1>7

LEMMA CliOptionsType ==
    ASSUME NEW a \in Adapters, NEW args \in Arguments
    PROVE  CliOptions(a, args) \in Options
<1> DEFINE page == IF args.config # None THEN args.config
                   ELSE [company |-> None, listing |-> args.listing]
<1>1. /\ args.scope \in Texts \cup {None} /\ args.company \in Names \cup {None}
      /\ args.api_url \in Texts \cup {None} /\ args.listing \in Texts \cup {None}
      /\ args.config # None => args.config \in [company : Names, listing : Texts]
  BY DEF Arguments
<1>2. page.company \in Names \cup {None} /\ page.listing \in Texts \cup {None}
  BY <1>1
<1>3. (args.company ?? (IF a \in {"custom_page"} THEN page.company ELSE None)) \in Names \cup {None}
  BY <1>1, <1>2 DEF ??
<1> QED
  BY <1>1, <1>2, <1>3 DEF CliOptions, Options

LEMMA ContextFromType ==
    ASSUME NEW o \in Options
    PROVE  ContextFrom(o) \in Contexts
<1>1. /\ o.scope_key \in Texts \cup {None, Empty}
      /\ {o.board_token, o.company_slug, o.listing_url} \subseteq Texts \cup {None}
  BY DEF Options
<1>2. (o.board_token ?? o.company_slug) ?? o.listing_url \in Texts \cup {None}
  BY <1>1 DEF ??
<1>3. [o EXCEPT !.scope_key = None] \in Options
  BY DEF Options
<1> QED
  BY <1>1, <1>2, <1>3 DEF ContextFrom, Contexts

LEMMA PlainContext ==
    ASSUME NEW o \in Options, Plain(o), NEW a
    PROVE  NamesSource(a, ContextFrom(o))
<1>1. /\ {o.board_token, o.company_slug, o.listing_url} \subseteq Texts \cup {None}
      /\ {o.board_token, o.company_slug, o.listing_url} \cap {Empty} = {}
  BY NoneIsNothing DEF Options
<1>2. {"scope_key", "board_token", "company_slug", "listing_url"} = ScopeKeys
  BY DEF ScopeKeys
<1>3. /\ o.board_token # None => o.scope_key = None /\ o.company_slug = None /\ o.listing_url = None
      /\ o.company_slug # None => o.scope_key = None /\ o.board_token = None /\ o.listing_url = None
      /\ o.listing_url # None => o.scope_key = None /\ o.board_token = None /\ o.company_slug = None
  BY <1>2, PlainHasOne
<1>4. /\ [o EXCEPT !.scope_key = None].api_url = o.api_url
      /\ [o EXCEPT !.scope_key = None].board_token = o.board_token
      /\ [o EXCEPT !.scope_key = None].company_slug = o.company_slug
      /\ [o EXCEPT !.scope_key = None].listing_url = o.listing_url
  BY DEF Options
<1>5. /\ o.board_token # None => ContextFrom(o).scope = o.board_token
      /\ o.company_slug # None => ContextFrom(o).scope = o.company_slug
      /\ o.listing_url # None => ContextFrom(o).scope = o.listing_url
  BY <1>1, <1>3 DEF ContextFrom, ??
<1>6. ContextFrom(o).options = [o EXCEPT !.scope_key = None]
  BY DEF ContextFrom
<1>7. o.api_url = None
  BY DEF Plain
<1> QED
  BY <1>4, <1>5, <1>6, <1>7 DEF NamesSource

LEMMA NoOptionsType == NoOptions \in Options /\ ContextFrom(NoOptions) \in Contexts
<1>1. NoOptions \in Options
  BY DEF NoOptions, Options
<1> QED
  BY <1>1, ContextFromType

(* checkpoint_scope always finds one.                                      *)
LEMMA CheckpointScopeType ==
    ASSUME context \in Contexts, NEW a \in Adapters
    PROVE  /\ CheckpointScope(a) \in Texts \cup DefaultScopes
           /\ context.scope \notin {None, Empty} => CheckpointScope(a) = context.scope
  BY DefaultScopesType DEF CheckpointScope, ??, Contexts

(* What a configured adapter asks; plain options ask what scope_key names. *)
LEMMA SourceType ==
    ASSUME NEW a \in Adapters, NEW c \in Contexts, c.scope \notin {None, Empty},
           a = "custom_page" => PageConfigValid(c.options)
    PROVE  /\ Source(a, c.scope, c.options) \in Sources
           /\ NamesSource(a, c) => Source(a, c.scope, c.options) = Named(a, c.scope)
<1> DEFINE o == c.options
<1>1. /\ c.scope \in Texts \cup DefaultScopes
      /\ {o.api_url, o.board_token, o.company_slug, o.listing_url} \subseteq Texts \cup {None}
      /\ {o.api_url, o.board_token, o.company_slug, o.listing_url} \cap {Empty} = {}
  BY NoneIsNothing DEF Contexts, Options
<1>2. /\ o.board_token ?? c.scope \in Texts \cup DefaultScopes
      /\ o.company_slug ?? c.scope \in Texts \cup DefaultScopes
      /\ o.board_token \in {None, c.scope} => o.board_token ?? c.scope = c.scope
      /\ o.company_slug \in {None, c.scope} => o.company_slug ?? c.scope = c.scope
  BY <1>1 DEF ??
<1>3. CASE a = "demo"
  BY <1>3 DEF Source, Sources, Named
<1>4. CASE a = "greenhouse"
  <2>1. Source(a, c.scope, o) = o.api_url ?? <<"boards", o.board_token ?? c.scope>>
    BY <1>4 DEF Source
  <2>2. Source(a, c.scope, o) \in Sources
    BY <1>1, <1>2, <2>1 DEF ??, Sources
  <2>3. NamesSource(a, c) => Source(a, c.scope, o) = <<"boards", c.scope>>
    BY <1>2, <1>4, <2>1 DEF ??, NamesSource
  <2> QED
    BY <1>4, <2>2, <2>3 DEF Named
<1>5. CASE a = "lever"
  <2>1. Source(a, c.scope, o) = o.api_url ?? <<"postings", o.company_slug ?? c.scope>>
    BY <1>5 DEF Source
  <2>2. Source(a, c.scope, o) \in Sources
    BY <1>1, <1>2, <2>1 DEF ??, Sources
  <2>3. NamesSource(a, c) => Source(a, c.scope, o) = <<"postings", c.scope>>
    BY <1>2, <1>5, <2>1 DEF ??, NamesSource
  <2> QED
    BY <1>5, <2>2, <2>3 DEF Named
<1>6. CASE a = "custom_page"
  <2>1. Source(a, c.scope, o) = o.listing_url
    BY <1>6 DEF Source
  <2>2. o.listing_url \in Texts
    BY <1>1, <1>6 DEF PageConfigValid
  <2>3. NamesSource(a, c) => o.listing_url = c.scope
    BY <1>6, <2>2, NoneIsNothing DEF NamesSource
  <2> QED
    BY <1>6, <2>1, <2>2, <2>3 DEF Sources, Named
<1> QED
  BY <1>3, <1>4, <1>5, <1>6, AdaptersAre

LEMMA LastRun ==
    ASSUME runs \in Seq(Runs), runs # <<>>
    PROVE  /\ Len(runs) \in Nat /\ Len(runs) \in 1 .. Len(runs)
           /\ runs[Len(runs)] \in Runs
           /\ Adapter \in Adapters
<1>1. Len(runs) \in Nat /\ Len(runs) # 0
  OBVIOUS
<1>2. runs[Len(runs)] \in Runs
  BY <1>1
<1> QED
  BY <1>1, <1>2 DEF Adapter, Runs

(* The last run's row changes.                                             *)
LEMMA LastRunChanges ==
    ASSUME runs \in Seq(Runs), runs # <<>>, NEW r \in Runs,
           runs' = [runs EXCEPT ![Len(runs)] = r]
    PROVE  /\ runs' \in Seq(Runs) /\ Len(runs') = Len(runs) /\ runs' # <<>>
           /\ runs'[Len(runs)] = r
           /\ \A i \in 1 .. Len(runs) : i # Len(runs) => runs'[i] = runs[i]
<1>1. Len(runs) \in 1 .. Len(runs)
  BY LastRun
<1> QED
  BY <1>1
-----------------------------------------------------------------------------
(* The steps                                                               *)

LEMMA InitInv == Init => Inv
<1> SUFFICES ASSUME Init PROVE Inv
  OBVIOUS
<1>1. Typed
  BY NoOptionsType DEF Init, Typed, Labels
<1>2. RunsOK /\ ContextOK /\ AnswersOK
  BY DEF Init, RunsOK, ContextOK, AnswersOK, AllOrNothing
<1> QED
  BY <1>1, <1>2 DEF Inv

(* Steps after the source is known, which leave the runs as they are.      *)
LEMMA LaterInv ==
    ASSUME Inv, UNCHANGED runs, pc \notin {"idle", "collect"},
           pc' \notin {"collect", "configure"}, Typed', AnswersOK'
    PROVE  Inv'
<1>1. RunsOK'
  BY DEF Inv, RunsOK
<1>2. ContextOK'
  BY DEF ContextOK
<1> QED
  BY <1>1, <1>2 DEF Inv

LEMMA RaiseInv ==
    ASSUME Inv, Raise, pc \in {"configure", "fetch", "browser", "parse"}
    PROVE  Inv'
<1>1. Typed'
  BY DEF Inv, Typed, Raise, Labels
<1>2. AnswersOK'
  BY DEF Inv, AnswersOK, AllOrNothing, Raise
<1> QED
  BY <1>1, <1>2, LaterInv DEF Raise

(* fetch_jobs returns all postings, or none and no cursor.                 *)
LEMMA ReturnInv ==
    ASSUME Inv, pc \in {"configure", "fetch", "parse"},
           NEW jobs \in Nat, NEW error \in {None, "configure", "fetch", "parse"},
           NEW next \in {None, "instant", "demo-complete"}, Return(jobs, error, next),
           error # None => jobs = 0 /\ next = None,
           error = None /\ answer # None => jobs = answer.postings
    PROVE  Inv'
<1>1. result' \in Results /\ result'.jobs = jobs /\ result'.error = error /\ result'.next = next
  BY DEF Return, Results
<1>2. Typed'
  BY <1>1 DEF Inv, Typed, Return, Labels
<1>3. AnswersOK'
  BY <1>1 DEF AnswersOK, AllOrNothing, Return
<1> QED
  BY <1>2, <1>3, LaterInv DEF Return

LEMMA AnswersInv ==
    ASSUME Inv, pc \in {"fetch", "browser"}, Answers("parse")
    PROVE  Inv'
<1>1. PICK n \in Postings : \E bad \in 0 .. n : answer' = [postings |-> n, bad |-> bad]
  BY DEF Answers
<1>2. /\ UNCHANGED <<runs, context, result>> /\ pc' = "parse"
  BY DEF Answers, Turn
<1>3. answer' \in Answered
  BY <1>1, SourceAdaptersAssumption DEF Answered
<1>4. Typed'
  BY <1>2, <1>3 DEF Inv, Typed, Labels
<1>5. AnswersOK'
  BY <1>2, <1>3 DEF Inv, AnswersOK, AllOrNothing, Adapter
<1> QED
  BY <1>2, <1>4, <1>5, LaterInv

(* An execution begins with a context that names its source, if it is      *)
(* plain.                                                                  *)
LEMMA BeginInv ==
    ASSUME Inv, NEW a \in Adapters, NEW c \in Contexts, NEW plain \in BOOLEAN,
           Begin(a, c, plain), plain => NamesSource(a, c)
    PROVE  Inv'
<1> DEFINE r == [adapter |-> a, scope |-> None, source |-> None, plain |-> plain]
<1>1. /\ pc = "idle" /\ pc' = "collect" /\ context' = c /\ runs' = Append(runs, r)
      /\ UNCHANGED <<answer, result>>
  BY DEF Begin
<1>2. r \in Runs /\ runs \in Seq(Runs)
  BY DEF Runs, Inv, Typed
<1>3. /\ runs' \in Seq(Runs) /\ Len(runs) \in Nat /\ Len(runs') = Len(runs) + 1 /\ runs' # <<>>
      /\ runs'[Len(runs')] = r
      /\ \A i \in 1 .. Len(runs) : runs'[i] = runs[i]
  BY <1>1, <1>2
<1>4. Adapter' = a
  BY <1>3 DEF Adapter
<1>5. Typed'
  BY <1>1, <1>3 DEF Inv, Typed, Labels
<1>6. RunsOK'
  <2>1. ASSUME NEW i \in 1 .. Len(runs), i # Len(runs')
        PROVE  /\ runs'[i].scope # None
               /\ runs'[i].plain /\ runs'[i].source # None =>
                     runs'[i].source = Named(runs'[i].adapter, runs'[i].scope)
    BY <1>1, <1>3, <2>1 DEF Inv, RunsOK
  <2>2. r.scope = None /\ r.source = None
    OBVIOUS
  <2>3. \A i \in 1 .. Len(runs') : i = Len(runs') \/ (i \in 1 .. Len(runs) /\ i # Len(runs'))
    BY <1>3
  <2> QED
    BY <1>1, <1>3, <2>1, <2>2, <2>3 DEF RunsOK
<1>7. ContextOK'
  <2>1. r.plain = plain
    OBVIOUS
  <2> QED
    BY <1>1, <1>3, <1>4, <2>1 DEF ContextOK, NamesSource
<1>8. AnswersOK'
  BY <1>1 DEF Inv, AnswersOK, AllOrNothing
<1> QED
  BY <1>5, <1>6, <1>7, <1>8 DEF Inv

LEMMA CrawlRunInv == Inv /\ CrawlRun => Inv'
<1> SUFFICES ASSUME Inv, NEW a \in Adapters, NEW args \in Arguments,
                    Begin(a, ContextFrom(CliOptions(a, args)), Plain(CliOptions(a, args)))
             PROVE  Inv'
  BY DEF CrawlRun
<1> DEFINE o == CliOptions(a, args)
<1>1. o \in Options /\ Plain(o) \in BOOLEAN
  BY CliOptionsType DEF Plain
<1>2. ContextFrom(o) \in Contexts /\ (Plain(o) => NamesSource(a, ContextFrom(o)))
  BY <1>1, ContextFromType, PlainContext
<1> QED
  BY <1>1, <1>2, BeginInv

LEMMA AdminCrawlInv == Inv /\ AdminCrawl => Inv'
<1> SUFFICES ASSUME Inv, NEW a \in Adapters, NEW o \in Options,
                    Begin(a, ContextFrom(o), Plain(o))
             PROVE  Inv'
  BY DEF AdminCrawl
<1>1. Plain(o) \in BOOLEAN
  BY DEF Plain
<1>2. ContextFrom(o) \in Contexts /\ (Plain(o) => NamesSource(a, ContextFrom(o)))
  BY ContextFromType, PlainContext
<1> QED
  BY <1>1, <1>2, BeginInv

(* A resume has the scope_key and no options beside it.                    *)
LEMMA CrawlResumeInv == Inv /\ CrawlResume => Inv'
<1> SUFFICES ASSUME Inv, NEW i \in 1 .. Len(runs),
                    Begin(runs[i].adapter, [scope |-> runs[i].scope, options |-> NoOptions],
                          runs[i].plain)
             PROVE  Inv'
  BY DEF CrawlResume, Inv, Typed
<1> DEFINE c == [scope |-> runs[i].scope, options |-> NoOptions]
<1>1. runs[i] \in Runs
  BY DEF Inv, Typed
<1>2. runs[i].adapter \in Adapters /\ runs[i].plain \in BOOLEAN /\ c \in Contexts
  BY <1>1, NoOptionsType DEF Runs, Contexts
<1>3. NamesSource(runs[i].adapter, c)
  BY DEF NamesSource, NoOptions
<1> QED
  BY <1>2, <1>3, BeginInv

LEMMA CollectInv == Inv /\ Collect => Inv'
<1> SUFFICES ASSUME Inv, Collect PROVE Inv'
  OBVIOUS
<1> DEFINE scope == CheckpointScope(Adapter)
           last == runs[Len(runs)]
           r == [last EXCEPT !.scope = scope]
<1>1. /\ pc = "collect" /\ pc' = "configure" /\ UNCHANGED <<answer, result>>
      /\ context' = [context EXCEPT !.scope = scope]
      /\ runs' = [runs EXCEPT ![Len(runs)] = r]
  BY DEF Collect
<1>2. runs \in Seq(Runs) /\ runs # <<>> /\ context \in Contexts
  BY <1>1 DEF Inv, Typed, RunsOK
<1>3. last \in Runs /\ Adapter \in Adapters /\ Len(runs) \in 1 .. Len(runs)
  BY <1>2, LastRun
<1>4. /\ scope \in Texts \cup DefaultScopes
      /\ context.scope \notin {None, Empty} => scope = context.scope
  BY <1>2, <1>3, CheckpointScopeType
<1>5. scope # None /\ scope # Empty
  BY <1>4, NoneIsNothing
<1>6. /\ r \in Runs /\ r.scope = scope /\ r.source = last.source
      /\ r.adapter = last.adapter /\ r.plain = last.plain
  BY <1>3, <1>4 DEF Runs
<1>7. /\ runs' \in Seq(Runs) /\ Len(runs') = Len(runs) /\ runs' # <<>>
      /\ runs'[Len(runs)] = r
      /\ \A i \in 1 .. Len(runs) : i # Len(runs) => runs'[i] = runs[i]
  BY <1>1, <1>2, <1>6, LastRunChanges
<1>8. /\ context' \in Contexts /\ context'.scope = scope /\ context'.options = context.options
  BY <1>1, <1>2, <1>4 DEF Contexts
<1>9. last.source = None
  BY <1>1, <1>3 DEF Inv, RunsOK
<1>10. Adapter' = Adapter
  BY <1>6, <1>7 DEF Adapter
<1>11. Typed'
  BY <1>1, <1>7, <1>8 DEF Inv, Typed, Labels
<1>12. RunsOK'
  BY <1>1, <1>5, <1>6, <1>7, <1>9 DEF Inv, RunsOK
<1>13. ContextOK'
  <2>1. last.plain => NamesSource(Adapter, context)
    BY <1>1 DEF Inv, ContextOK
  <2>2. context.options \in Options
    BY <1>2 DEF Contexts
  <2>3. last.plain => NamesSource(Adapter, context')
    BY <1>4, <1>8, <2>1, <2>2, NoneIsNothing DEF NamesSource, Options
  <2> QED
    BY <1>1, <1>5, <1>6, <1>7, <1>8, <1>10, <2>3 DEF ContextOK, NamesSource
<1>14. AnswersOK'
  BY <1>1 DEF Inv, AnswersOK, AllOrNothing
<1> QED
  BY <1>11, <1>12, <1>13, <1>14 DEF Inv

(* The source a configured adapter asks is the one that is recorded.       *)
LEMMA ConfiguredInv == Inv /\ Configured => Inv'
<1> SUFFICES ASSUME Inv, Configured PROVE Inv'
  OBVIOUS
<1> DEFINE source == Source(Adapter, context.scope, context.options)
           last == runs[Len(runs)]
           r == [last EXCEPT !.source = source]
<1>1. /\ pc = "configure" /\ pc' = (IF Adapter = "demo" THEN "parse" ELSE "fetch")
      /\ context' = ContextFrom(NoOptions) /\ UNCHANGED <<answer, result>>
      /\ runs' = [runs EXCEPT ![Len(runs)] = r]
      /\ Adapter = "custom_page" => PageConfigValid(context.options)
  BY DEF Configured
<1>2. runs \in Seq(Runs) /\ runs # <<>> /\ context \in Contexts
  BY <1>1 DEF Inv, Typed, RunsOK
<1>3. last \in Runs /\ Adapter \in Adapters /\ Adapter = last.adapter
      /\ Len(runs) \in 1 .. Len(runs)
  BY <1>2, LastRun DEF Adapter
<1>4. /\ context.scope \notin {None, Empty} /\ context.scope = last.scope
      /\ last.plain => NamesSource(Adapter, context)
  BY <1>1 DEF Inv, ContextOK
<1>5. source \in Sources /\ (last.plain => source = Named(Adapter, last.scope))
  BY <1>1, <1>2, <1>3, <1>4, SourceType
<1>6. /\ r \in Runs /\ r.source = source /\ r.scope = last.scope
      /\ r.adapter = last.adapter /\ r.plain = last.plain
  BY <1>3, <1>5 DEF Runs
<1>7. /\ runs' \in Seq(Runs) /\ Len(runs') = Len(runs) /\ runs' # <<>>
      /\ runs'[Len(runs)] = r
      /\ \A i \in 1 .. Len(runs) : i # Len(runs) => runs'[i] = runs[i]
  BY <1>1, <1>2, <1>6, LastRunChanges
<1>8. Adapter' = Adapter
  BY <1>3, <1>6, <1>7 DEF Adapter
<1>9. Typed'
  BY <1>1, <1>7, NoOptionsType DEF Inv, Typed, Labels
<1>10. RunsOK'
  BY <1>1, <1>3, <1>5, <1>6, <1>7 DEF Inv, RunsOK
<1>11. ContextOK'
  BY <1>1 DEF ContextOK
<1>12. AnswersOK'
  BY <1>1, <1>8 DEF Inv, AnswersOK, AllOrNothing
<1> QED
  BY <1>9, <1>10, <1>11, <1>12 DEF Inv

LEMMA NotConfiguredInv == Inv /\ NotConfigured => Inv'
<1> SUFFICES ASSUME Inv, NotConfigured PROVE Inv'
  OBVIOUS
<1>1. pc = "configure" /\ answer = None
  BY DEF NotConfigured, Inv, AnswersOK
<1>2. CASE Return(0, "configure", None)
  BY <1>1, <1>2, ReturnInv, NoneIsNothing
<1>3. CASE Raise
  BY <1>1, <1>3, RaiseInv
<1> QED
  BY <1>2, <1>3 DEF NotConfigured

LEMMA FetchFailsInv == Inv /\ FetchFails => Inv'
<1> SUFFICES ASSUME Inv, FetchFails PROVE Inv'
  OBVIOUS
<1>1. pc = "fetch" /\ answer = None
  BY DEF FetchFails, Inv, AnswersOK
<1>2. CASE Return(0, "fetch", None)
  BY <1>1, <1>2, ReturnInv, NoneIsNothing
<1>3. CASE UNCHANGED <<answer, runs>> /\ Turn("browser")
  <2>1. Typed'
    BY <1>3 DEF Inv, Typed, Turn, Labels
  <2>2. AnswersOK'
    BY <1>1, <1>3 DEF Inv, AnswersOK, AllOrNothing, Turn, Adapter
  <2> QED
    BY <1>1, <1>3, <2>1, <2>2, LaterInv DEF Turn
<1> QED
  BY <1>2, <1>3 DEF FetchFails

(* An answer is taken whole.                                               *)
LEMMA ParseInv == Inv /\ (ParsePayload \/ ParseHtml \/ DemoReturns) => Inv'
<1> SUFFICES ASSUME Inv, ParsePayload \/ ParseHtml \/ DemoReturns PROVE Inv'
  OBVIOUS
<1>1. pc = "parse" /\ (IF Adapter = "demo" THEN answer = None ELSE answer \in Answered)
  BY DEF Inv, AnswersOK, ParsePayload, ParseHtml, DemoReturns
<1>2. answer \in Answered => answer.postings \in Nat
  BY SourceAdaptersAssumption DEF Answered
<1>3. CASE ParsePayload
  <2>1. answer.postings \in Nat
    BY <1>1, <1>2, <1>3 DEF ParsePayload
  <2>2. Raise \/ Return(answer.postings, None, "instant")
    BY <1>3 DEF ParsePayload
  <2> QED
    BY <1>1, <2>1, <2>2, RaiseInv, ReturnInv
<1>4. CASE ParseHtml
  <2>1. answer.postings \in Nat
    BY <1>1, <1>2, <1>4 DEF ParseHtml
  <2>2. Return(0, "parse", None) \/ Return(answer.postings, None, None)
    BY <1>4 DEF ParseHtml
  <2>3. None # "parse"
    BY NoneIsNothing
  <2> QED
    BY <1>1, <2>1, <2>2, <2>3, ReturnInv
<1>5. CASE DemoReturns
  BY <1>1, <1>5, ReturnInv DEF DemoReturns
<1> QED
  BY <1>3, <1>4, <1>5

LEMMA FinishInv == Inv /\ Finish => Inv'
<1> SUFFICES ASSUME Inv, Finish PROVE Inv'
  OBVIOUS
<1>1. Typed'
  BY NoOptionsType DEF Inv, Typed, Finish, Labels
<1>2. RunsOK'
  BY DEF Inv, RunsOK, Finish
<1>3. ContextOK' /\ AnswersOK'
  BY DEF ContextOK, AnswersOK, AllOrNothing, Finish
<1> QED
  BY <1>1, <1>2, <1>3 DEF Inv

LEMMA NextInv == Inv /\ [Next]_vars => Inv'
<1> SUFFICES ASSUME Inv, [Next]_vars PROVE Inv'
  OBVIOUS
<1>1. CASE CrawlRun \/ AdminCrawl \/ CrawlResume
  BY <1>1, CrawlRunInv, AdminCrawlInv, CrawlResumeInv
<1>2. CASE Collect \/ NotConfigured \/ Configured
  BY <1>2, CollectInv, NotConfiguredInv, ConfiguredInv
<1>3. CASE FetchOk \/ BrowserOk
  BY <1>3, AnswersInv DEF FetchOk, BrowserOk
<1>4. CASE FetchFails
  BY <1>4, FetchFailsInv
<1>5. CASE FetchRaises
  BY <1>5, RaiseInv DEF FetchRaises
<1>6. CASE ParsePayload \/ ParseHtml \/ DemoReturns
  BY <1>6, ParseInv
<1>7. CASE Finish
  BY <1>7, FinishInv
<1>8. CASE UNCHANGED vars
  BY <1>8 DEF vars, Inv, Typed, RunsOK, ContextOK, AnswersOK, AllOrNothing, Adapter
<1> QED
  BY <1>1, <1>2, <1>3, <1>4, <1>5, <1>6, <1>7, <1>8 DEF Next

LEMMA Invariance == Spec => []Inv
  BY InitInv, NextInv, PTL DEF Spec
-----------------------------------------------------------------------------
(* Theorems                                                                *)

(* However many texts, executions and resumes of resumes: executions with  *)
(* the same adapter and scope_key whose options are plain ask one source.  *)
THEOREM ScopesNameSources == Spec => []ScopeNamesSource
<1>1. Inv => ScopeNamesSource
  BY DEF Inv, Typed, RunsOK, ScopeNamesSource
<1> QED
  BY <1>1, Invariance, PTL

(* Whatever a source answers, fetch_jobs gives all of it or nothing.       *)
THEOREM AnswersAreWhole == Spec => []AllOrNothing
<1>1. Inv => AllOrNothing
  BY DEF Inv, AnswersOK
<1> QED
  BY <1>1, Invariance, PTL

(* Every variable has its type; no state row is left without a scope_key.  *)
THEOREM AdapterTypes == Spec => []TypeOK
<1>1. Inv => TypeOK
  <2> SUFFICES ASSUME Inv PROVE TypeOK
    OBVIOUS
  <2>1. ASSUME NEW i \in DOMAIN runs
        PROVE  /\ runs[i].adapter \in Adapters
               /\ runs[i].scope \in Texts \cup DefaultScopes
                                    \cup (IF i = Len(runs) THEN {None} ELSE {})
               /\ runs[i].source \in Sources \cup {None}
               /\ runs[i].plain \in BOOLEAN
    <3>1. i \in 1 .. Len(runs) /\ runs[i] \in Runs
      BY DEF Inv, Typed
    <3>2. runs[i].scope = None => i = Len(runs)
      BY <3>1 DEF Inv, RunsOK
    <3> QED
      BY <3>1, <3>2 DEF Runs
  <2>2. pc = "configure" => context.scope \notin {None, Empty}
    BY DEF Inv, ContextOK
  <2> QED
    BY <2>1, <2>2 DEF Inv, Typed, Labels, Contexts, Answered, Results, TypeOK
<1> QED
  BY <1>1, Invariance, PTL
-----------------------------------------------------------------------------
(* parse_salary: what an amount in a text is read as                       *)

(* A set of numbers has a least one.                                       *)
LEMMA LeastElement ==
    ASSUME NEW T \in SUBSET Nat, T # {}
    PROVE  \E x \in T : \A y \in T : x <= y
<1> DEFINE R == {ss \in Nat \X Nat : ss[1] < ss[2]}
<1>1. IsWellFoundedOn(R, Nat)
  BY NatLessThanWellFounded DEF OpToRel
<1>2. \A x, y \in Nat : <<y, x>> \in R <=> y < x
  OBVIOUS
<1> HIDE DEF R
<1>3. PICK x \in T : \A y \in T : ~ (<<y, x>> \in R)
  BY <1>1, WFMin
<1>4. \A y \in T : ~ (y < x)
  BY <1>2, <1>3, Zenon
<1> QED
  BY <1>3, <1>4

(* A text whose only currency, if any, has the forms F                     *)
Tokens(F) == ({"digits", ",", ".", " ", "-", "k", "x"} \cup F) \X Nat \X Nat
IsToken(t) == t[2] \in Nat /\ t[3] \in Nat

(* The kind, length and value of a token; what is a token of such a text    *)
LEMMA TokensAre ==
    /\ \A F : \A t \in Tokens(F) :
           IsToken(t) /\ t[1] \in {"digits", ",", ".", " ", "-", "k", "x"} \cup F
    /\ \A c, d : Sign(d)[1] = d /\ IsToken(Sign(d))
    /\ \A F : \A d \in {",", ".", " ", "-", "k", "x"} \cup F : Sign(d) \in Tokens(F)
    /\ \A l \in Nat, n \in Nat : /\ Digits(l, n)[1] = "digits" /\ Digits(l, n)[2] = l
                                 /\ Digits(l, n)[3] = n /\ IsToken(Digits(l, n))
    /\ \A F : \A l \in Nat, n \in Nat : Digits(l, n) \in Tokens(F)
  BY DEF Tokens, IsToken, Sign, Digits

(* The value of the digits at p with the g groups after them               *)
ValueBody(s, p, f, n) == IF n = 0 THEN s[p][3] ELSE 1000 * f[n - 1] + s[p + 2 * n][3]
IsValue(s, p, g, f) == f = [n \in 0 .. g |-> ValueBody(s, p, f, n)]

(* Amount's recursive function has one solution.                            *)
LEMMA ValueUnique ==
    ASSUME NEW s, NEW p, NEW g \in Nat, NEW f, IsValue(s, p, g, f), NEW h, IsValue(s, p, g, h)
    PROVE  \A n \in 0 .. g : f[n] = h[n]
<1> DEFINE wrong == {n \in 0 .. g : f[n] # h[n]}
<1> SUFFICES ASSUME wrong # {} PROVE FALSE
  OBVIOUS
<1>1. PICK n \in wrong : \A m \in wrong : n <= m
  <2>1. wrong \in SUBSET Nat
    OBVIOUS
  <2> HIDE DEF wrong
  <2> QED
    BY <2>1, LeastElement
<1>2. \A m \in 0 .. g : /\ f[m] = IF m = 0 THEN s[p][3] ELSE 1000 * f[m - 1] + s[p + 2 * m][3]
                        /\ h[m] = IF m = 0 THEN s[p][3] ELSE 1000 * h[m - 1] + s[p + 2 * m][3]
  BY DEF IsValue, ValueBody
<1>3. n # 0
  BY <1>2
<1>4. n - 1 \in 0 .. g /\ n - 1 \notin wrong
  BY <1>1, <1>3
<1>5. f[n - 1] = h[n - 1]
  BY <1>4
<1> QED
  BY <1>2, <1>3, <1>5

(* The groups at p are g when g groups follow and no comma follows them.   *)
Group(s, p, m) == Is(s, p + 2 * m - 1, {","}) /\ IsDigits(s, p + 2 * m, {3})
Following(s, p, n) == \A m \in 1 .. n : Group(s, p, m)

LEMMA UpTo == ASSUME NEW g \in Nat PROVE Cardinality(1 .. g) = g
<1>1. CASE g = 0
  <2>1. 1 .. g = {}
    BY <1>1
  <2> QED
    BY <1>1, <2>1, FS_EmptySet
<1>2. CASE g # 0
  <2>1. 1 \in Int /\ g \in Int /\ ~(1 > g) /\ g - 1 + 1 = g
    BY <1>2
  <2> QED
    BY <2>1, FS_Interval
<1> QED
  BY <1>1, <1>2

LEMMA GroupsAre ==
    ASSUME NEW s, Len(s) \in Nat, DOMAIN s = 1 .. Len(s), NEW p \in Nat, NEW g \in Nat,
           Following(s, p, g), ~Group(s, p, g + 1)
    PROVE  Groups(s, p) = g
<1> DEFINE N == {n \in 1 .. Len(s) : Following(s, p, n)}
<1>1. ASSUME NEW n \in 1 .. g PROVE n \in N
  <2>1. Group(s, p, n)
    BY DEF Following
  <2>2. p + 2 * n \in 1 .. Len(s)
    BY <2>1 DEF Group, IsDigits, Is
  <2>3. n \in 1 .. Len(s)
    BY <2>2
  <2>4. \A m \in 1 .. n : m \in 1 .. g
    OBVIOUS
  <2>5. Following(s, p, n)
    BY <2>4 DEF Following
  <2> QED
    BY <2>3, <2>5
<1>2. ASSUME NEW n \in N PROVE n \in 1 .. g
  <2>1. n \in 1 .. Len(s) /\ Following(s, p, n)
    OBVIOUS
  <2>2. ~(g + 1 \in 1 .. n)
    BY <2>1 DEF Following
  <2> QED
    BY <2>1, <2>2
<1>3. Groups(s, p) = Cardinality(N)
  BY DEF Groups, Following, Group
<1> HIDE DEF N
<1>4. N = 1 .. g
  BY <1>1, <1>2
<1> QED
  BY <1>3, <1>4, UpTo

(* What is read at p, in tenths                                            *)
Tenths(s, p, f) ==
    10 * f[GroupsRead(s, p)] + IF HasDecimal(s, p) THEN s[p + 2][3] ELSE 0

(* Amount is what any solution of its recursive function gives.             *)
LEMMA AmountIs ==
    ASSUME NEW s, NEW p, GroupsRead(s, p) \in Nat,
           NEW f, IsValue(s, p, GroupsRead(s, p), f)
    PROVE  Amount(s, p) =
               Tenths(s, p, f) * (IF EndOfSuffix(s, EndOfNumber(s, p)) > EndOfNumber(s, p)
                                  THEN 1000 ELSE 1)
<1> DEFINE g == GroupsRead(s, p)
<1>1. PICK h : /\ IsValue(s, p, g, h)
               /\ Amount(s, p) =
                      Tenths(s, p, h) * (IF EndOfSuffix(s, EndOfNumber(s, p)) > EndOfNumber(s, p)
                                         THEN 1000 ELSE 1)
  <2>1. \E h : IsValue(s, p, g, h)
    OBVIOUS
  <2> QED
    BY <2>1, Zenon DEF IsValue, ValueBody, Amount, Tenths
<1>2. g \in 0 .. g
  OBVIOUS
<1> HIDE DEF g
<1>3. f[g] = h[g]
  BY <1>1, <1>2, ValueUnique DEF g
<1>4. Tenths(s, p, f) = Tenths(s, p, h)
  BY <1>3 DEF Tenths, g
<1> QED
  BY <1>1, <1>4

-----------------------------------------------------------------------------
(* Thousands separators                                                    *)

Upper(n) == n \div 1000
Lower(n) == n % 1000
Tail3(r) == <<Sign(","), Digits(3, r)>>

GroupedBody(f, n) == IF n < 1000 THEN Whole(n) ELSE f[Upper(n)] \o Tail3(Lower(n))

IsGrouped(m, f) == f = [n \in 0 .. m |-> GroupedBody(f, n)]

(* A number in thousands and the rest                                       *)
LEMMA Thousands ==
    \A n \in Nat : /\ Upper(n) \in Nat /\ Lower(n) \in Nat /\ Lower(n) < 1000
                   /\ n = 1000 * Upper(n) + Lower(n)
                   /\ ~(n < 1000) => Upper(n) < n
<1> SUFFICES ASSUME NEW n \in Nat
             PROVE  /\ Upper(n) \in Nat /\ Lower(n) \in Nat /\ Lower(n) < 1000
                    /\ n = 1000 * Upper(n) + Lower(n)
                    /\ ~(n < 1000) => Upper(n) < n
  OBVIOUS
<1>1. \E q \in Nat, r \in Nat : r < 1000 /\ n = 1000 * q + r
  <2>1. n \div 1000 \in Nat /\ n - 1000 * (n \div 1000) \in 0 .. 999
    OBVIOUS
  <2>2. \A q \in Nat : n - 1000 * q \in 0 .. 999 => \E r \in Nat : r < 1000 /\ n = 1000 * q + r
    <3>1. \A q \in Nat : n = 1000 * q + (n - 1000 * q)
      OBVIOUS
    <3> QED
      BY <3>1
  <2> QED
    BY <2>1, <2>2
<1>2. PICK q \in Nat, r \in Nat : r < 1000 /\ n = 1000 * q + r
  BY <1>1
<1>3. Upper(n) = q /\ Lower(n) = r
  BY <1>2 DEF Upper, Lower
<1> QED
  BY <1>2, <1>3

LEMMA UpperIsLess == \A n \in Nat : ~(n < 1000) => Upper(n) \in Nat /\ Upper(n) < n
  BY Thousands

LEMMA GroupedBodySmall == \A n : n < 1000 => \A f : GroupedBody(f, n) = Whole(n)
  BY DEF GroupedBody

LEMMA GroupedBodyLarge ==
    ASSUME NEW n \in Nat, ~(n < 1000), NEW f
    PROVE  GroupedBody(f, n) = f[Upper(n)] \o Tail3(Lower(n))
<1> DEFINE small == n < 1000
<1>1. ~small
  OBVIOUS
<1> HIDE DEF small
<1>2. GroupedBody(f, n) = IF small THEN Whole(n)
                          ELSE f[Upper(n)] \o Tail3(Lower(n))
  BY Zenon DEF GroupedBody, small
<1> QED
  BY <1>1, <1>2, Zenon

(* Two solutions of Grouped's recursion agree where both are defined.       *)
LEMMA GroupedAgree ==
    ASSUME NEW m \in Nat, NEW f, IsGrouped(m, f), NEW l \in Nat, NEW h, IsGrouped(l, h)
    PROVE  \A n \in Nat : n <= m /\ n <= l => f[n] = h[n]
<1> DEFINE wrong == {n \in Nat : n <= m /\ n <= l /\ f[n] # h[n]}
<1> SUFFICES ASSUME wrong # {} PROVE FALSE
  OBVIOUS
<1>1. PICK n \in wrong : \A k \in wrong : n <= k
  <2>1. wrong \in SUBSET Nat
    OBVIOUS
  <2> HIDE DEF wrong
  <2> QED
    BY <2>1, LeastElement
<1>2. n \in Nat /\ n <= m /\ n <= l /\ f[n] # h[n]
  OBVIOUS
<1>3. n \in 0 .. m /\ n \in 0 .. l
  BY <1>2
<1>4. f[n] = GroupedBody(f, n) /\ h[n] = GroupedBody(h, n)
  BY <1>3 DEF IsGrouped
<1> HIDE DEF wrong
<1>5. ~(n < 1000)
  <2> SUFFICES ASSUME n < 1000 PROVE FALSE
    OBVIOUS
  <2>1. GroupedBody(f, n) = Whole(n) /\ GroupedBody(h, n) = Whole(n)
    BY GroupedBodySmall
  <2> QED
    BY <1>2, <1>4, <2>1
<1>6. Upper(n) \in Nat /\ Upper(n) < n
  BY <1>2, <1>5, Thousands
<1>7. Upper(n) \notin wrong /\ Upper(n) <= m /\ Upper(n) <= l
  BY <1>1, <1>2, <1>6
<1>8. f[Upper(n)] = h[Upper(n)]
  BY <1>6, <1>7 DEF wrong
<1>9. /\ GroupedBody(f, n) = f[Upper(n)] \o Tail3(Lower(n))
      /\ GroupedBody(h, n) = h[Upper(n)] \o Tail3(Lower(n))
  BY <1>2, <1>5, GroupedBodyLarge
<1> QED
  BY <1>2, <1>4, <1>8, <1>9

(* Below any bound there is a solution,                                     *)
LEMMA GroupedUpTo ==
    ASSUME NEW m \in Nat
    PROVE  \E f : IsGrouped(m, f)
<1> DEFINE wrong == {l \in Nat : ~ \E f : IsGrouped(l, f)}
<1> SUFFICES ASSUME wrong # {} PROVE FALSE
  OBVIOUS
<1>1. PICK l \in wrong : \A k \in wrong : l <= k
  <2>1. wrong \in SUBSET Nat
    OBVIOUS
  <2> HIDE DEF wrong
  <2> QED
    BY <2>1, LeastElement
<1>2. l \in Nat /\ ~ \E f : IsGrouped(l, f)
  OBVIOUS
<1>3. \E f : l = 0 \/ IsGrouped(l - 1, f)
  <2>1. CASE l = 0
    BY <2>1
  <2>2. CASE l # 0
    <3>1. l - 1 \in Nat /\ l - 1 \notin wrong
      BY <1>1, <1>2, <2>2
    <3> QED
      BY <3>1
  <2> QED
    BY <2>1, <2>2
<1>4. PICK f : l = 0 \/ IsGrouped(l - 1, f)
  BY <1>3
<1> DEFINE h == [n \in 0 .. l |-> IF n = l THEN GroupedBody(f, l) ELSE f[n]]
<1>5. \A n \in 0 .. l : h[n] = IF n = l THEN GroupedBody(f, l) ELSE f[n]
  OBVIOUS
<1>6. ASSUME NEW n \in 0 .. l
      PROVE  GroupedBody(h, n) = GroupedBody(f, n)
  <2> HIDE DEF h
  <2>1. CASE n < 1000
    BY <2>1 DEF GroupedBody
  <2>2. CASE ~(n < 1000)
    <3>1. n \in Nat
      BY <1>2
    <3>2. Upper(n) \in Nat /\ Upper(n) < n
      BY <2>2, <3>1, UpperIsLess
    <3>3. Upper(n) \in 0 .. l /\ Upper(n) # l
      BY <1>2, <3>2
    <3>4. h[Upper(n)] = f[Upper(n)]
      BY <1>5, <3>3
    <3> QED
      BY <3>4 DEF GroupedBody
  <2> QED
    BY <2>1, <2>2
<1>7. ASSUME NEW n \in 0 .. l
      PROVE  (IF n = l THEN GroupedBody(f, l) ELSE f[n]) = GroupedBody(h, n)
  <2> HIDE DEF h
  <2>1. CASE n = l
    BY <1>6, <2>1
  <2>2. CASE n # l
    <3>1. l # 0 /\ n \in 0 .. l - 1
      BY <1>2, <2>2
    <3>2. f[n] = GroupedBody(f, n)
      BY <1>4, <3>1 DEF IsGrouped
    <3> QED
      BY <1>6, <2>2, <3>2
  <2> QED
    BY <2>1, <2>2
<1>8. h = [n \in 0 .. l |-> GroupedBody(h, n)]
  BY <1>7, Zenon
<1> HIDE DEF h
<1> QED
  BY <1>2, <1>8 DEF IsGrouped

(* so Grouped is what its definition says.                                  *)
LEMMA GroupedIs == \A n \in Nat : Grouped[n] = GroupedBody(Grouped, n)
<1> DEFINE upto(m) == CHOOSE f : IsGrouped(m, f)
           h == [n \in Nat |-> upto(n)[n]]
<1>1. \A m \in Nat : IsGrouped(m, upto(m))
  BY GroupedUpTo, Zenon
<1>2. \A n \in Nat : h[n] = upto(n)[n]
  OBVIOUS
<1>3. ASSUME NEW n \in Nat PROVE upto(n)[n] = GroupedBody(h, n)
  <2> HIDE DEF h, upto
  <2>1. n \in 0 .. n
    OBVIOUS
  <2>2. upto(n)[n] = GroupedBody(upto(n), n)
    BY <1>1, <2>1 DEF IsGrouped
  <2>3. CASE n < 1000
    BY <2>2, <2>3 DEF GroupedBody
  <2>4. CASE ~(n < 1000)
    <3>1. Upper(n) \in Nat /\ Upper(n) <= n /\ Upper(n) <= Upper(n)
      BY <2>4, Thousands
    <3>2. upto(n)[Upper(n)] = upto(Upper(n))[Upper(n)]
      BY <1>1, <3>1, GroupedAgree
    <3>3. upto(n)[Upper(n)] = h[Upper(n)]
      BY <1>2, <3>1, <3>2
    <3>4. /\ GroupedBody(h, n) = h[Upper(n)] \o Tail3(Lower(n))
          /\ GroupedBody(upto(n), n) = upto(n)[Upper(n)] \o Tail3(Lower(n))
      BY <2>4, GroupedBodyLarge
    <3> QED
      BY <2>2, <3>3, <3>4
  <2> QED
    BY <2>3, <2>4
<1>4. h = [n \in Nat |-> GroupedBody(h, n)]
  BY <1>3, Zenon
<1> HIDE DEF h
<1>5. \E f : f = [n \in Nat |-> GroupedBody(f, n)]
  BY <1>4
<1>6. Grouped = [n \in Nat |-> GroupedBody(Grouped, n)]
  BY <1>5, Zenon DEF Grouped, GroupedBody, Upper, Lower, Tail3
<1> QED
  BY <1>6

(* Digits in groups that are worth n                                       *)
AmountTokens == {"digits", ",", ".", " ", "k"} \X Nat \X Nat

Shaped(w, g, n) ==
    /\ w \in Seq(AmountTokens)
    /\ Len(w) = 2 * g + 1
    /\ w[1][1] = "digits"
    /\ w[1][2] \in 1 .. 3
    /\ Following(w, 1, g)
    /\ \E f : IsValue(w, 1, g, f) /\ f[g] = n

(* An amount without groups is one token.                                   *)
LEMMA WholeIs ==
    ASSUME NEW n \in Nat
    PROVE  /\ Whole(n) \in Seq(AmountTokens) /\ Len(Whole(n)) = 1
           /\ Whole(n)[1] = Digits(Length(n), n) /\ Length(n) \in Nat
           /\ Length(n) \in 1 .. 4 /\ (n < 1000 => Length(n) \in 1 .. 3)
<1>1. Length(n) \in 1 .. 4 /\ (n < 1000 => Length(n) \in 1 .. 3) /\ Length(n) \in Nat
  BY DEF Length
<1>2. Digits(Length(n), n) \in AmountTokens
  BY <1>1 DEF Digits, AmountTokens
<1> DEFINE t == Digits(Length(n), n)
<1>3. t \in AmountTokens
  BY <1>2
<1> HIDE DEF t
<1>4. <<t>> \in Seq(AmountTokens) /\ Len(<<t>>) = 1 /\ <<t>>[1] = t
  BY <1>3
<1> QED
  BY <1>1, <1>4 DEF Whole, t

LEMMA GroupedBase ==
    ASSUME NEW n \in Nat, n < 1000
    PROVE  Shaped(Whole(n), 0, n)
<1> DEFINE w == Whole(n)
           f == [k \in 0 .. 0 |-> n]
<1>1. /\ w \in Seq(AmountTokens) /\ Len(w) = 1
      /\ w[1] = Digits(Length(n), n) /\ Length(n) \in 1 .. 3 /\ Length(n) \in Nat
  BY WholeIs
<1> HIDE DEF w
<1> DEFINE l == Length(n)
<1>2. l \in Nat /\ l \in 1 .. 3 /\ w[1] = Digits(l, n)
  BY <1>1
<1> HIDE DEF l
<1>3. w[1][1] = "digits" /\ w[1][2] = l /\ w[1][3] = n
  BY <1>2 DEF Digits
<1>4. Following(w, 1, 0)
  BY DEF Following
<1>5. f[0] = n
  OBVIOUS
<1>6. \A k \in 0 .. 0 : n = ValueBody(w, 1, f, k)
  BY <1>3 DEF ValueBody
<1>7. f = [k \in 0 .. 0 |-> ValueBody(w, 1, f, k)]
  BY <1>6, Zenon
<1> HIDE DEF f
<1>8. IsValue(w, 1, 0, f)
  BY <1>7 DEF IsValue
<1>9. Shaped(w, 0, n)
  BY <1>1, <1>2, <1>3, <1>4, <1>5, <1>8 DEF Shaped
<1> QED
  BY <1>9 DEF w

LEMMA PutTwo ==
    \A S : \A w \in Seq(S), a \in S, b \in S :
        /\ w \o <<a, b>> \in Seq(S) /\ Len(w \o <<a, b>>) = Len(w) + 2
        /\ \A i \in 1 .. Len(w) : (w \o <<a, b>>)[i] = w[i]
        /\ (w \o <<a, b>>)[Len(w) + 1] = a /\ (w \o <<a, b>>)[Len(w) + 2] = b
  OBVIOUS

(* Three more digits after a comma                                          *)
LEMMA GroupedStep ==
    ASSUME NEW m \in Nat, NEW g \in Nat, NEW w, Shaped(w, g, m), NEW r \in Nat
    PROVE  Shaped(w \o Tail3(r), g + 1, 1000 * m + r)
<1> DEFINE t == Digits(3, r)
           c == Sign(",")
           u == w \o <<c, t>>
           n == 1000 * m + r
<1>1. n = 1000 * m + r /\ n \in Nat
  OBVIOUS
<1> HIDE DEF n
<1>2. /\ w \in Seq(AmountTokens) /\ Len(w) = 2 * g + 1
      /\ w[1][1] = "digits" /\ w[1][2] \in 1 .. 3 /\ Following(w, 1, g)
  BY DEF Shaped
<1>3. PICK f : IsValue(w, 1, g, f) /\ f[g] = m
  BY DEF Shaped
<1>4. /\ t[1] = "digits" /\ t[2] = 3 /\ t[3] = r /\ c[1] = ","
      /\ t \in AmountTokens /\ c \in AmountTokens
  BY DEF AmountTokens, Digits, Sign
<1> HIDE DEF t, c
<1>5. /\ u \in Seq(AmountTokens) /\ Len(u) = Len(w) + 2
      /\ \A i \in 1 .. Len(w) : u[i] = w[i]
      /\ u[Len(w) + 1] = c /\ u[Len(w) + 2] = t
  <2>1. w \in Seq(AmountTokens) /\ c \in AmountTokens /\ t \in AmountTokens
    BY <1>2, <1>4
  <2> QED
    BY <2>1, PutTwo
<1> HIDE DEF u
<1> DEFINE l == Len(w)
<1>6. l \in Nat /\ l = 2 * g + 1
  BY <1>2
<1>7. /\ u \in Seq(AmountTokens) /\ Len(u) = l + 2 /\ DOMAIN u = 1 .. l + 2
      /\ \A i \in 1 .. l : u[i] = w[i]
      /\ u[l + 1] = c /\ u[l + 2] = t
  BY <1>5, <1>6
<1>8. DOMAIN w = 1 .. l
  BY <1>2
<1> HIDE DEF l
<1>9. u[1][1] = "digits" /\ u[1][2] \in 1 .. 3
  <2>1. 1 \in 1 .. l
    BY <1>6
  <2> QED
    BY <1>2, <1>7, <2>1
<1>10. ASSUME NEW k \in 1 .. g + 1 PROVE Group(u, 1, k)
  <2>1. CASE k \in 1 .. g
    <3>1. Group(w, 1, k)
      BY <1>2, <2>1 DEF Following
    <3>2. 1 + 2 * k - 1 \in 1 .. l /\ 1 + 2 * k \in 1 .. l
          /\ 1 + 2 * k - 1 \in 1 .. l + 2 /\ 1 + 2 * k \in 1 .. l + 2
      BY <1>6, <2>1
    <3>3. u[1 + 2 * k - 1] = w[1 + 2 * k - 1] /\ u[1 + 2 * k] = w[1 + 2 * k]
      BY <1>7, <3>2
    <3>4. w[1 + 2 * k - 1][1] = "," /\ w[1 + 2 * k][1] = "digits" /\ w[1 + 2 * k][2] = 3
      BY <3>1 DEF Group, IsDigits, Is
    <3> QED
      BY <1>7, <3>2, <3>3, <3>4 DEF Group, IsDigits, Is
  <2>2. CASE k = g + 1
    <3>1. 1 + 2 * k - 1 = l + 1 /\ 1 + 2 * k = l + 2
          /\ l + 1 \in 1 .. l + 2 /\ l + 2 \in 1 .. l + 2
      BY <1>6, <2>2
    <3>2. Is(u, l + 1, {","}) /\ IsDigits(u, l + 2, {3})
      BY <1>4, <1>7, <3>1 DEF IsDigits, Is
    <3> QED
      BY <3>1, <3>2 DEF Group
  <2> QED
    BY <2>1, <2>2
<1>11. Following(u, 1, g + 1)
  BY <1>10 DEF Following
<1> DEFINE h == [k \in 0 .. g + 1 |-> IF k = g + 1 THEN n ELSE f[k]]
<1>12. \A k \in 0 .. g + 1 : h[k] = IF k = g + 1 THEN n ELSE f[k]
  OBVIOUS
<1>13. \A k \in 0 .. g : f[k] = ValueBody(w, 1, f, k)
  BY <1>3 DEF IsValue
<1>14. ASSUME NEW k \in 0 .. g + 1
       PROVE  (IF k = g + 1 THEN n ELSE f[k]) = ValueBody(u, 1, h, k)
  <2> HIDE DEF h
  <2>1. CASE k = g + 1
    <3>1. k # 0 /\ k - 1 = g /\ g \in 0 .. g + 1 /\ g # g + 1 /\ 1 + 2 * k = l + 2
      BY <1>6, <2>1
    <3>2. h[k - 1] = m
      BY <1>3, <1>12, <3>1
    <3>3. u[1 + 2 * k][3] = r
      BY <1>4, <1>7, <3>1
    <3> QED
      BY <1>1, <2>1, <3>1, <3>2, <3>3 DEF ValueBody
  <2>2. CASE k # g + 1
    <3>1. k \in 0 .. g /\ 1 + 2 * k \in 1 .. l /\ 1 \in 1 .. l
      BY <1>6, <2>2
    <3>2. u[1 + 2 * k] = w[1 + 2 * k] /\ u[1] = w[1]
      BY <1>7, <3>1
    <3>3. f[k] = ValueBody(w, 1, f, k)
      BY <1>13, <3>1
    <3>4. k # 0 => h[k - 1] = f[k - 1]
      <4>1. k # 0 => k - 1 \in 0 .. g + 1 /\ k - 1 # g + 1
        BY <3>1
      <4> QED
        BY <1>12, <4>1
    <3> QED
      BY <2>2, <3>2, <3>3, <3>4 DEF ValueBody
  <2> QED
    BY <2>1, <2>2
<1>15. h = [k \in 0 .. g + 1 |-> ValueBody(u, 1, h, k)]
  BY <1>14, Zenon
<1>16. h[g + 1] = n
  OBVIOUS
<1> HIDE DEF h
<1>17. IsValue(u, 1, g + 1, h)
  BY <1>15 DEF IsValue
<1>18. Len(u) = 2 * (g + 1) + 1
  BY <1>6, <1>7
<1>19. Shaped(u, g + 1, n)
  BY <1>7, <1>9, <1>11, <1>16, <1>17, <1>18 DEF Shaped
<1> QED
  BY <1>19 DEF u, t, c, n, Tail3

(* Every number is written as groups of three digits worth it.              *)
LEMMA GroupedShape == \A n \in Nat : \E g \in Nat : Shaped(Grouped[n], g, n)
<1> DEFINE wrong == {n \in Nat : ~ \E g \in Nat : Shaped(Grouped[n], g, n)}
<1> SUFFICES ASSUME wrong # {} PROVE FALSE
  OBVIOUS
<1>1. PICK n \in wrong : \A k \in wrong : n <= k
  <2>1. wrong \in SUBSET Nat
    OBVIOUS
  <2> HIDE DEF wrong
  <2> QED
    BY <2>1, LeastElement
<1>2. n \in Nat /\ ~ \E g \in Nat : Shaped(Grouped[n], g, n)
  OBVIOUS
<1>3. Grouped[n] = GroupedBody(Grouped, n)
  BY <1>2, GroupedIs
<1>4. CASE n < 1000
  <2>1. Grouped[n] = Whole(n)
    BY <1>3, <1>4, GroupedBodySmall
  <2>2. Shaped(Whole(n), 0, n)
    BY <1>2, <1>4, GroupedBase
  <2> QED
    BY <1>2, <2>1, <2>2
<1>5. CASE ~(n < 1000)
  <2> DEFINE m == Upper(n)
             r == Lower(n)
  <2>1. m \in Nat /\ r \in Nat /\ n = 1000 * m + r /\ m < n
    BY <1>2, <1>5, Thousands
  <2>2. Grouped[n] = Grouped[m] \o Tail3(r)
    BY <1>2, <1>3, <1>5, GroupedBodyLarge
  <2> HIDE DEF m, r
  <2>3. m \notin wrong
    BY <1>1, <1>2, <2>1
  <2>4. PICK g \in Nat : Shaped(Grouped[m], g, m)
    BY <2>1, <2>3
  <2>5. Shaped(Grouped[n], g + 1, 1000 * m + r)
    BY <2>1, <2>2, <2>4, GroupedStep
  <2>6. Shaped(Grouped[n], g + 1, n) /\ g + 1 \in Nat
    BY <2>1, <2>5
  <2> QED
    BY <1>2, <2>6
<1> QED
  BY <1>4, <1>5

-----------------------------------------------------------------------------
(* What an amount is read as, wherever it stands                           *)

IsText(s) == Len(s) \in Nat /\ DOMAIN s = 1 .. Len(s)

At(s, p, w) == \A i \in 1 .. Len(w) : p + i - 1 \in DOMAIN s /\ s[p + i - 1] = w[i]
Ends(s, q) == ~Is(s, q, {",", ".", "k"}) /\ ~Is(s, q + 1, {"k"})

End(s, p) == EndOfSuffix(s, EndOfNumber(s, p))

(* An amount with such a follower has no group, decimal or k after it.      *)
LEMMA EndsIs ==
    ASSUME NEW s, NEW q, Ends(s, q)
    PROVE  /\ ~Is(s, q, {","}) /\ ~Is(s, q, {"."}) /\ ~Is(s, q, {"k"}) /\ ~Is(s, q + 1, {"k"})
           /\ EndOfSuffix(s, q) = q
<1>1. ~Is(s, q, {","}) /\ ~Is(s, q, {"."}) /\ ~Is(s, q, {"k"}) /\ ~Is(s, q + 1, {"k"})
  BY DEF Ends, Is
<1> QED
  BY <1>1 DEF EndOfSuffix

(* A run of digits with no comma after it                                  *)
Decimal(s, p) == IF HasDecimal(s, p) THEN s[p + 2][3] ELSE 0
PlainAt(s, p, l, n, d) ==
    /\ IsText(s) /\ p \in DOMAIN s /\ s[p] = Digits(l, n) /\ ~Is(s, p + 1, {","})
    /\ Decimal(s, p) = d

LEMMA PlainReads ==
    ASSUME NEW s, NEW p \in Nat, NEW l \in Nat, NEW n \in Nat, NEW d \in Nat,
           PlainAt(s, p, l, n, d)
    PROVE  /\ EndOfNumber(s, p) = IF HasDecimal(s, p) THEN p + 3 ELSE p + 1
           /\ End(s, p) = EndOfNumber(s, p) => Amount(s, p) = 10 * n + d
           /\ End(s, p) > EndOfNumber(s, p) => Amount(s, p) = 1000 * (10 * n + d)
<1>1. GroupsRead(s, p) = 0
  <2>1. Following(s, p, 0)
    BY DEF Following
  <2>2. p + 2 * (0 + 1) - 1 = p + 1
    OBVIOUS
  <2>3. ~Group(s, p, 0 + 1)
    BY <2>2 DEF Group, PlainAt
  <2>4. Groups(s, p) = 0
    BY <2>1, <2>3, GroupsAre DEF IsText, PlainAt
  <2> QED
    BY <2>4 DEF GroupsRead
<1> DEFINE f == [k \in 0 .. 0 |-> n]
<1>2. f[0] = n
  OBVIOUS
<1>3. s[p][3] = n
  <2>1. s[p] = Digits(l, n)
    BY DEF PlainAt
  <2> QED
    BY <2>1 DEF Digits
<1>4. \A k \in 0 .. 0 : n = ValueBody(s, p, f, k)
  BY <1>3 DEF ValueBody
<1>5. f = [k \in 0 .. 0 |-> ValueBody(s, p, f, k)]
  BY <1>4, Zenon
<1> HIDE DEF f
<1>6. IsValue(s, p, GroupsRead(s, p), f) /\ GroupsRead(s, p) \in Nat
  BY <1>1, <1>5 DEF IsValue
<1>7. Amount(s, p) = Tenths(s, p, f) * (IF End(s, p) > EndOfNumber(s, p) THEN 1000 ELSE 1)
  BY <1>6, AmountIs DEF End
<1>8. Tenths(s, p, f) = 10 * n + d
  BY <1>1, <1>2 DEF Tenths, Decimal, PlainAt
<1>9. EndOfNumber(s, p) = IF HasDecimal(s, p) THEN p + 3 ELSE p + 1
  BY <1>1 DEF EndOfNumber
<1> DEFINE e == EndOfNumber(s, p)
           q == End(s, p)
<1>10. Amount(s, p) = (10 * n + d) * (IF q > e THEN 1000 ELSE 1)
  BY <1>7, <1>8
<1> HIDE DEF e, q
<1>11. q > e => Amount(s, p) = (10 * n + d) * 1000
  BY <1>10
<1>12. ~(q > e) => Amount(s, p) = (10 * n + d) * 1
  BY <1>10
<1>13. (10 * n + d) * 1000 = 1000 * (10 * n + d) /\ (10 * n + d) * 1 = 10 * n + d
  OBVIOUS
<1>14. e \in Nat /\ q = e => ~(q > e)
  OBVIOUS
<1>15. e \in Nat
  BY <1>9 DEF e
<1> QED
  BY <1>9, <1>11, <1>12, <1>13, <1>14, <1>15 DEF e, q

LEMMA PutOne ==
    \A S : \A w \in Seq(S), a \in S :
        /\ w \o <<a>> \in Seq(S) /\ Len(w \o <<a>>) = Len(w) + 1
        /\ \A i \in 1 .. Len(w) : (w \o <<a>>)[i] = w[i]
        /\ (w \o <<a>>)[Len(w) + 1] = a
  OBVIOUS

ReadAs(w, n) ==
    /\ w \in Seq(AmountTokens) /\ Len(w) \in Nat \ {0} /\ w[1][1] = "digits"
    /\ \A s : \A p \in Nat :
           IsText(s) /\ At(s, p, w) /\ Ends(s, p + Len(w))
               => Amount(s, p) = n /\ End(s, p) = p + Len(w)

(* The first tokens of an amount written at p                              *)
LEMMA First ==
    \A s, w : \A p \in Nat : Len(w) \in Nat /\ 1 <= Len(w) /\ At(s, p, w)
                              => p \in DOMAIN s /\ s[p] = w[1]
<1> TAKE s, w
<1> TAKE p \in Nat
<1>1. p + 1 - 1 = p
  OBVIOUS
<1>2. Len(w) \in Nat /\ 1 <= Len(w) => 1 \in 1 .. Len(w)
  OBVIOUS
<1> QED
  BY <1>1, <1>2, Zenon DEF At

LEMMA Second ==
    \A s, w : \A p \in Nat : Len(w) \in Nat /\ 2 <= Len(w) /\ At(s, p, w)
                              => p + 1 \in DOMAIN s /\ s[p + 1] = w[2]
<1> TAKE s, w
<1> TAKE p \in Nat
<1>1. p + 2 - 1 = p + 1
  OBVIOUS
<1>2. Len(w) \in Nat /\ 2 <= Len(w) => 2 \in 1 .. Len(w)
  OBVIOUS
<1> QED
  BY <1>1, <1>2, Zenon DEF At

LEMMA Third ==
    \A s, w : \A p \in Nat : Len(w) \in Nat /\ 3 <= Len(w) /\ At(s, p, w)
                              => p + 2 \in DOMAIN s /\ s[p + 2] = w[3]
<1> TAKE s, w
<1> TAKE p \in Nat
<1>1. p + 3 - 1 = p + 2
  OBVIOUS
<1>2. Len(w) \in Nat /\ 3 <= Len(w) => 3 \in 1 .. Len(w)
  OBVIOUS
<1> QED
  BY <1>1, <1>2, Zenon DEF At

LEMMA Fourth ==
    \A s, w : \A p \in Nat : Len(w) \in Nat /\ 4 <= Len(w) /\ At(s, p, w)
                              => p + 3 \in DOMAIN s /\ s[p + 3] = w[4]
<1> TAKE s, w
<1> TAKE p \in Nat
<1>1. p + 4 - 1 = p + 3
  OBVIOUS
<1>2. Len(w) \in Nat /\ 4 <= Len(w) => 4 \in 1 .. Len(w)
  OBVIOUS
<1> QED
  BY <1>1, <1>2, Zenon DEF At

(* 90000                                                                    *)
LEMMA InFull ==
    ASSUME NEW n \in Nat
    PROVE  ReadAs(Whole(n), 10 * n)
<1> DEFINE w == Whole(n)
           l == Length(n)
<1>1. w \in Seq(AmountTokens) /\ Len(w) = 1 /\ w[1] = Digits(l, n) /\ l \in Nat
  BY WholeIs
<1> HIDE DEF w, l
<1>2. w[1][1] = "digits"
  BY <1>1 DEF Digits
<1>3. ASSUME NEW s, NEW p \in Nat, IsText(s), At(s, p, w), Ends(s, p + Len(w))
      PROVE  Amount(s, p) = 10 * n /\ End(s, p) = p + Len(w)
  <2>1. p \in DOMAIN s /\ s[p] = Digits(l, n)
    <3>1. Len(w) \in Nat /\ 1 <= Len(w) /\ At(s, p, w)
      BY <1>1, <1>3
    <3> QED
      BY <1>1, <3>1, First
  <2>2. Ends(s, p + 1)
    BY <1>1, <1>3
  <2>3. ~Is(s, p + 1, {","}) /\ ~Is(s, p + 1, {"."}) /\ EndOfSuffix(s, p + 1) = p + 1
    BY <2>2, EndsIs
  <2>4. ~HasDecimal(s, p)
    BY <2>3 DEF HasDecimal
  <2>5. PlainAt(s, p, l, n, 0)
    BY <1>3, <2>1, <2>3, <2>4 DEF PlainAt, Decimal
  <2>6. EndOfNumber(s, p) = p + 1
    BY <1>1, <2>4, <2>5, PlainReads
  <2>7. End(s, p) = p + 1
    BY <2>3, <2>6 DEF End
  <2>8. Amount(s, p) = 10 * n + 0
    BY <1>1, <2>6, <2>7, <2>5, PlainReads
  <2> QED
    BY <1>1, <2>7, <2>8
<1>4. ReadAs(w, 10 * n)
  BY <1>1, <1>2, <1>3 DEF ReadAs
<1> QED
  BY <1>4 DEF w

(* 90000.0                                                                  *)
LEMMA WithDecimal ==
    ASSUME NEW n \in Nat
    PROVE  ReadAs(Whole(n) \o <<Sign("."), Digits(1, 0)>>, 10 * n)
<1> DEFINE v == Whole(n)
           l == Length(n)
           dot == Sign(".")
           t == Digits(1, 0)
           w == v \o <<dot, t>>
<1>1. v \in Seq(AmountTokens) /\ Len(v) = 1 /\ v[1] = Digits(l, n) /\ l \in Nat
  BY WholeIs
<1>2. /\ dot \in AmountTokens /\ t \in AmountTokens
      /\ dot[1] = "." /\ t[1] = "digits" /\ t[3] = 0
  BY DEF Sign, Digits, AmountTokens
<1> HIDE DEF v, l, dot, t
<1>3. /\ w \in Seq(AmountTokens) /\ Len(w) = 3
      /\ w[1] = Digits(l, n) /\ w[2] = dot /\ w[3] = t
  <2>1. /\ w \in Seq(AmountTokens) /\ Len(w) = Len(v) + 2
        /\ \A i \in 1 .. Len(v) : w[i] = v[i]
        /\ w[Len(v) + 1] = dot /\ w[Len(v) + 2] = t
    <3>1. v \in Seq(AmountTokens) /\ dot \in AmountTokens /\ t \in AmountTokens
      BY <1>1, <1>2
    <3> QED
      BY <3>1, PutTwo
  <2> HIDE DEF w
  <2>2. 1 \in 1 .. Len(v) /\ Len(v) + 1 = 2 /\ Len(v) + 2 = 3
    BY <1>1
  <2> QED
    BY <1>1, <2>1, <2>2
<1> HIDE DEF w
<1>4. w[1][1] = "digits"
  BY <1>3 DEF Digits
<1>5. ASSUME NEW s, NEW p \in Nat, IsText(s), At(s, p, w), Ends(s, p + Len(w))
      PROVE  Amount(s, p) = 10 * n /\ End(s, p) = p + Len(w)
  <2>1. /\ p \in DOMAIN s /\ s[p] = Digits(l, n)
        /\ p + 1 \in DOMAIN s /\ s[p + 1] = dot
        /\ p + 2 \in DOMAIN s /\ s[p + 2] = t
    <3>1. Len(w) \in Nat /\ 1 <= Len(w) /\ 2 <= Len(w) /\ 3 <= Len(w)
      BY <1>3
    <3>2. At(s, p, w)
      BY <1>5
    <3>3. p \in DOMAIN s /\ s[p] = w[1]
      BY <3>1, <3>2, First
    <3>4. p + 1 \in DOMAIN s /\ s[p + 1] = w[2]
      BY <3>1, <3>2, Second
    <3>5. p + 2 \in DOMAIN s /\ s[p + 2] = w[3]
      BY <3>1, <3>2, Third
    <3> QED
      BY <1>3, <3>3, <3>4, <3>5
  <2>2. Ends(s, p + 3)
    BY <1>3, <1>5
  <2>3. EndOfSuffix(s, p + 3) = p + 3
    BY <2>2, EndsIs
  <2>4. HasDecimal(s, p) /\ ~Is(s, p + 1, {","})
    BY <1>2, <2>1 DEF HasDecimal, Is
  <2>5. PlainAt(s, p, l, n, 0)
    BY <1>2, <1>5, <2>1, <2>4 DEF PlainAt, Decimal
  <2>6. EndOfNumber(s, p) = IF HasDecimal(s, p) THEN p + 3 ELSE p + 1
    BY <1>1, <2>5, PlainReads
  <2>7. EndOfNumber(s, p) = p + 3
    BY <2>4, <2>6
  <2>8. End(s, p) = p + 3
    BY <2>3, <2>7 DEF End
  <2>9. Amount(s, p) = 10 * n + 0
    BY <1>1, <2>7, <2>8, <2>5, PlainReads
  <2> QED
    BY <1>3, <2>8, <2>9
<1>6. ReadAs(w, 10 * n)
  BY <1>3, <1>4, <1>5 DEF ReadAs
<1> QED
  BY <1>6 DEF w, v, dot, t

Suffixes == {<<Sign("k")>>, <<Sign(" "), Sign("k")>>}

(* 90k and 90 k                                                             *)
LEMMA InThousands ==
    ASSUME NEW n \in Nat, NEW k \in Suffixes
    PROVE  ReadAs(Whole(n) \o k, 10000 * n)
<1> DEFINE v == Whole(n)
           l == Length(n)
           w == v \o k
<1>1. k \in {<<Sign("k")>>, <<Sign(" "), Sign("k")>>}
  BY DEF Suffixes
<1>2. v \in Seq(AmountTokens) /\ Len(v) = 1 /\ v[1] = Digits(l, n) /\ l \in Nat
  BY WholeIs
<1>3. \E a, b \in AmountTokens : /\ a[1] = " " /\ b[1] = "k"
                                 /\ k = <<b>> \/ k = <<a, b>>
  <2>1. /\ Sign(" ") \in AmountTokens /\ Sign(" ")[1] = " "
        /\ Sign("k") \in AmountTokens /\ Sign("k")[1] = "k"
    BY DEF Sign, AmountTokens
  <2> QED
    BY <1>1, <2>1, Zenon
<1>4. PICK a \in AmountTokens, b \in AmountTokens :
          /\ a[1] = " " /\ b[1] = "k"
          /\ k = <<b>> \/ k = <<a, b>>
  BY <1>3
<1> HIDE DEF v, l
<1>5. w \in Seq(AmountTokens) /\ w[1] = Digits(l, n)
      /\ \/ Len(w) = 2 /\ w[2] = b
         \/ Len(w) = 3 /\ w[2] = a /\ w[3] = b
  <2>1. CASE k = <<b>>
    <3>1. w = v \o <<b>>
      BY <2>1
    <3>2. /\ w \in Seq(AmountTokens) /\ Len(w) = Len(v) + 1
          /\ \A i \in 1 .. Len(v) : w[i] = v[i]
          /\ w[Len(v) + 1] = b
      <4>1. v \in Seq(AmountTokens) /\ b \in AmountTokens
        BY <1>2
      <4>2. /\ v \o <<b>> \in Seq(AmountTokens) /\ Len(v \o <<b>>) = Len(v) + 1
            /\ \A i \in 1 .. Len(v) : (v \o <<b>>)[i] = v[i]
            /\ (v \o <<b>>)[Len(v) + 1] = b
        BY <4>1, PutOne
      <4> QED
        BY <3>1, <4>2
    <3> HIDE DEF w
    <3>3. 1 \in 1 .. Len(v) /\ Len(v) + 1 = 2
      BY <1>2
    <3> QED
      BY <1>2, <3>2, <3>3
  <2>2. CASE k = <<a, b>>
    <3>1. w = v \o <<a, b>>
      BY <2>2
    <3>2. /\ w \in Seq(AmountTokens) /\ Len(w) = Len(v) + 2
          /\ \A i \in 1 .. Len(v) : w[i] = v[i]
          /\ w[Len(v) + 1] = a /\ w[Len(v) + 2] = b
      <4>1. v \in Seq(AmountTokens) /\ a \in AmountTokens /\ b \in AmountTokens
        BY <1>2
      <4>2. /\ v \o <<a, b>> \in Seq(AmountTokens) /\ Len(v \o <<a, b>>) = Len(v) + 2
            /\ \A i \in 1 .. Len(v) : (v \o <<a, b>>)[i] = v[i]
            /\ (v \o <<a, b>>)[Len(v) + 1] = a /\ (v \o <<a, b>>)[Len(v) + 2] = b
        BY <4>1, PutTwo
      <4> QED
        BY <3>1, <4>2
    <3> HIDE DEF w
    <3>3. 1 \in 1 .. Len(v) /\ Len(v) + 1 = 2 /\ Len(v) + 2 = 3
      BY <1>2
    <3> QED
      BY <1>2, <3>2, <3>3
  <2> QED
    BY <1>4, <2>1, <2>2
<1> HIDE DEF w
<1>6. w[1][1] = "digits" /\ Len(w) \in Nat \ {0}
  BY <1>5 DEF Digits
<1>7. ASSUME NEW s, NEW p \in Nat, IsText(s), At(s, p, w)
      PROVE  Amount(s, p) = 10000 * n /\ End(s, p) = p + Len(w)
  <2>1. p \in DOMAIN s /\ s[p] = Digits(l, n) /\ p + 1 \in DOMAIN s /\ s[p + 1] = w[2]
    <3>1. Len(w) \in Nat /\ 1 <= Len(w) /\ 2 <= Len(w)
      BY <1>5
    <3>2. At(s, p, w)
      BY <1>7
    <3>3. p \in DOMAIN s /\ s[p] = w[1]
      BY <3>1, <3>2, First
    <3>4. p + 1 \in DOMAIN s /\ s[p + 1] = w[2]
      BY <3>1, <3>2, Second
    <3> QED
      BY <1>5, <3>3, <3>4
  <2>2. ~Is(s, p + 1, {","}) /\ ~HasDecimal(s, p)
    BY <1>4, <1>5, <2>1 DEF HasDecimal, Is
  <2>3. PlainAt(s, p, l, n, 0)
    BY <1>7, <2>1, <2>2 DEF PlainAt, Decimal
  <2>4. EndOfNumber(s, p) = IF HasDecimal(s, p) THEN p + 3 ELSE p + 1
    BY <1>2, <2>3, PlainReads
  <2>5. EndOfNumber(s, p) = p + 1
    BY <2>2, <2>4
  <2>6. EndOfSuffix(s, p + 1) = p + Len(w)
    <3>1. CASE Len(w) = 2
      <4>1. Is(s, p + 1, {"k"})
        BY <1>4, <1>5, <2>1, <3>1 DEF Is
      <4>2. EndOfSuffix(s, p + 1) = p + 1 + 1
        BY <4>1 DEF EndOfSuffix
      <4> QED
        BY <3>1, <4>2
    <3>2. CASE Len(w) = 3
      <4>1. p + 2 \in DOMAIN s /\ s[p + 2] = b /\ s[p + 1] = a /\ p + 1 + 1 = p + 2
        <5>1. Len(w) \in Nat /\ 3 <= Len(w)
          BY <3>2
        <5>2. p + 2 \in DOMAIN s /\ s[p + 2] = w[3]
          BY <1>7, <5>1, Third
        <5> QED
          BY <1>5, <2>1, <3>2, <5>2
      <4>2. ~Is(s, p + 1, {"k"}) /\ Is(s, p + 1, {" "}) /\ Is(s, p + 1 + 1, {"k"})
        BY <1>4, <2>1, <4>1 DEF Is
      <4>3. EndOfSuffix(s, p + 1) = p + 1 + 2
        BY <4>2 DEF EndOfSuffix
      <4> QED
        BY <3>2, <4>3
    <3> QED
      BY <1>5, <3>1, <3>2
  <2>7. End(s, p) = p + Len(w) /\ p + Len(w) > p + 1
    BY <1>5, <2>5, <2>6 DEF End
  <2>8. Amount(s, p) = 1000 * (10 * n + 0)
    BY <1>2, <2>5, <2>7, <2>3, PlainReads
  <2> QED
    BY <2>7, <2>8
<1>8. ReadAs(w, 10000 * n)
  BY <1>5, <1>6, <1>7 DEF ReadAs
<1> QED
  BY <1>8 DEF w, v

-----------------------------------------------------------------------------
LEMMA PutThree ==
    \A S : \A w \in Seq(S), a \in S, b \in S, c \in S :
        /\ w \o <<a, b, c>> \in Seq(S) /\ Len(w \o <<a, b, c>>) = Len(w) + 3
        /\ \A i \in 1 .. Len(w) : (w \o <<a, b, c>>)[i] = w[i]
        /\ (w \o <<a, b, c>>)[Len(w) + 1] = a /\ (w \o <<a, b, c>>)[Len(w) + 2] = b
        /\ (w \o <<a, b, c>>)[Len(w) + 3] = c
  OBVIOUS

(* 12.5k                                                                    *)
LEMMA InHalfThousands ==
    ASSUME NEW n \in Nat
    PROVE  ReadAs(Whole(n) \o <<Sign("."), Digits(1, 5), Sign("k")>>, 1000 * (10 * n + 5))
<1> DEFINE v == Whole(n)
           l == Length(n)
           dot == Sign(".")
           t == Digits(1, 5)
           k == Sign("k")
           w == v \o <<dot, t, k>>
<1>1. v \in Seq(AmountTokens) /\ Len(v) = 1 /\ v[1] = Digits(l, n) /\ l \in Nat
  BY WholeIs
<1>2. /\ dot \in AmountTokens /\ t \in AmountTokens /\ k \in AmountTokens
      /\ dot[1] = "." /\ t[1] = "digits" /\ t[3] = 5 /\ k[1] = "k"
  BY DEF Sign, Digits, AmountTokens
<1> HIDE DEF v, l, dot, t, k
<1>3. /\ w \in Seq(AmountTokens) /\ Len(w) = 4
      /\ w[1] = Digits(l, n) /\ w[2] = dot /\ w[3] = t /\ w[4] = k
  <2>1. v \in Seq(AmountTokens) /\ dot \in AmountTokens /\ t \in AmountTokens /\ k \in AmountTokens
    BY <1>1, <1>2
  <2>2. /\ w \in Seq(AmountTokens) /\ Len(w) = Len(v) + 3
        /\ \A i \in 1 .. Len(v) : w[i] = v[i]
        /\ w[Len(v) + 1] = dot /\ w[Len(v) + 2] = t /\ w[Len(v) + 3] = k
    BY <2>1, PutThree
  <2> HIDE DEF w
  <2>3. 1 \in 1 .. Len(v) /\ Len(v) + 1 = 2 /\ Len(v) + 2 = 3 /\ Len(v) + 3 = 4
    BY <1>1
  <2> QED
    BY <1>1, <2>2, <2>3
<1> HIDE DEF w
<1>4. w[1][1] = "digits"
  BY <1>3 DEF Digits
<1>5. ASSUME NEW s, NEW p \in Nat, IsText(s), At(s, p, w)
      PROVE  Amount(s, p) = 1000 * (10 * n + 5) /\ End(s, p) = p + Len(w)
  <2>1. /\ p \in DOMAIN s /\ s[p] = Digits(l, n)
        /\ p + 1 \in DOMAIN s /\ s[p + 1] = dot
        /\ p + 2 \in DOMAIN s /\ s[p + 2] = t
        /\ p + 3 \in DOMAIN s /\ s[p + 3] = k
    <3>1. Len(w) \in Nat /\ 1 <= Len(w) /\ 2 <= Len(w) /\ 3 <= Len(w) /\ 4 <= Len(w)
      BY <1>3
    <3>2. At(s, p, w)
      BY <1>5
    <3>3. p \in DOMAIN s /\ s[p] = w[1]
      BY <3>1, <3>2, First
    <3>4. p + 1 \in DOMAIN s /\ s[p + 1] = w[2]
      BY <3>1, <3>2, Second
    <3>5. p + 2 \in DOMAIN s /\ s[p + 2] = w[3]
      BY <3>1, <3>2, Third
    <3>6. p + 3 \in DOMAIN s /\ s[p + 3] = w[4]
      BY <3>1, <3>2, Fourth
    <3> QED
      BY <1>3, <3>3, <3>4, <3>5, <3>6
  <2>2. HasDecimal(s, p) /\ ~Is(s, p + 1, {","})
    BY <1>2, <2>1 DEF HasDecimal, Is
  <2>3. PlainAt(s, p, l, n, 5)
    BY <1>2, <1>5, <2>1, <2>2 DEF PlainAt, Decimal
  <2>4. EndOfNumber(s, p) = IF HasDecimal(s, p) THEN p + 3 ELSE p + 1
    BY <1>1, <2>3, PlainReads
  <2>5. EndOfNumber(s, p) = p + 3
    BY <2>2, <2>4
  <2>6. Is(s, p + 3, {"k"})
    BY <1>2, <2>1 DEF Is
  <2>7. EndOfSuffix(s, p + 3) = p + 3 + 1
    BY <2>6 DEF EndOfSuffix
  <2>8. End(s, p) = p + 3 + 1
    BY <2>5, <2>7 DEF End
  <2>9. End(s, p) > EndOfNumber(s, p)
    BY <2>5, <2>8
  <2>10. Amount(s, p) = 1000 * (10 * n + 5)
    BY <1>1, <2>3, <2>9, PlainReads
  <2> QED
    BY <1>3, <2>8, <2>10
<1>6. ReadAs(w, 1000 * (10 * n + 5))
  BY <1>3, <1>4, <1>5 DEF ReadAs
<1> QED
  BY <1>6 DEF w, v, dot, t, k

(* 90,000 and 12,150,000                                                    *)
LEMMA InGroups ==
    ASSUME NEW w, NEW g \in Nat, NEW n \in Nat, Shaped(w, g, n), w[1][2] \in {2, 3}
    PROVE  ReadAs(w, 10 * n)
<1>1. /\ w \in Seq(AmountTokens) /\ Len(w) = 2 * g + 1 /\ w[1][1] = "digits"
      /\ Following(w, 1, g)
  BY DEF Shaped
<1>2. PICK f : IsValue(w, 1, g, f) /\ f[g] = n
  BY DEF Shaped
<1>3. Len(w) \in Nat \ {0}
  BY <1>1
<1>4. ASSUME NEW s, NEW p \in Nat, IsText(s), At(s, p, w), Ends(s, p + Len(w))
      PROVE  Amount(s, p) = 10 * n /\ End(s, p) = p + Len(w)
  <2>1. ASSUME NEW m \in 1 .. g
        PROVE  /\ p + 2 * m - 1 \in DOMAIN s /\ s[p + 2 * m - 1] = w[2 * m]
               /\ p + 2 * m \in DOMAIN s /\ s[p + 2 * m] = w[2 * m + 1]
    <3>1. 2 * m \in 1 .. Len(w) /\ 2 * m + 1 \in 1 .. Len(w)
      BY <1>1
    <3>2. p + (2 * m) - 1 \in DOMAIN s /\ s[p + (2 * m) - 1] = w[2 * m]
      BY <1>4, <3>1 DEF At
    <3>3. p + (2 * m + 1) - 1 \in DOMAIN s /\ s[p + (2 * m + 1) - 1] = w[2 * m + 1]
      BY <1>4, <3>1 DEF At
    <3>4. p + (2 * m + 1) - 1 = p + 2 * m
      OBVIOUS
    <3> QED
      BY <3>2, <3>3, <3>4
  <2>2. p \in DOMAIN s /\ s[p] = w[1]
    <3>1. Len(w) \in Nat /\ 1 <= Len(w) /\ At(s, p, w)
      BY <1>3, <1>4
    <3> QED
      BY <3>1, First
  <2>3. ASSUME NEW m \in 1 .. g
        PROVE  w[2 * m][1] = "," /\ w[2 * m + 1][1] = "digits" /\ w[2 * m + 1][2] = 3
    <3>1. Group(w, 1, m)
      BY <1>1 DEF Following
    <3>2. 1 + 2 * m - 1 = 2 * m /\ 1 + 2 * m = 2 * m + 1
      OBVIOUS
    <3>3. w[1 + 2 * m - 1][1] = "," /\ w[1 + 2 * m][1] = "digits" /\ w[1 + 2 * m][2] = 3
      BY <3>1 DEF Group, IsDigits, Is
    <3> QED
      BY <3>2, <3>3
  <2>4. Following(s, p, g)
    <3>1. ASSUME NEW m \in 1 .. g PROVE Group(s, p, m)
      <4>1. /\ p + 2 * m - 1 \in DOMAIN s /\ s[p + 2 * m - 1][1] = ","
            /\ p + 2 * m \in DOMAIN s
            /\ s[p + 2 * m][1] = "digits" /\ s[p + 2 * m][2] = 3
        <5>1. s[p + 2 * m - 1] = w[2 * m] /\ s[p + 2 * m] = w[2 * m + 1]
              /\ p + 2 * m - 1 \in DOMAIN s /\ p + 2 * m \in DOMAIN s
          BY <2>1
        <5>2. w[2 * m][1] = "," /\ w[2 * m + 1][1] = "digits" /\ w[2 * m + 1][2] = 3
          BY <2>3
        <5> QED
          BY <5>1, <5>2
      <4> QED
        BY <4>1 DEF Group, IsDigits, Is
    <3> QED
      BY <3>1 DEF Following
  <2> DEFINE e == p + Len(w)
  <2>5. e \in Nat /\ e = p + 2 * g + 1
    BY <1>1
  <2>6. Ends(s, e)
    BY <1>4
  <2> HIDE DEF e
  <2>7. ~Is(s, e, {","}) /\ ~Is(s, e, {"."}) /\ EndOfSuffix(s, e) = e
    BY <2>6, EndsIs
  <2>8. ~Group(s, p, g + 1)
    <3>1. p + 2 * (g + 1) - 1 = e
      BY <2>5
    <3> QED
      BY <2>7, <3>1 DEF Group
  <2>9. Groups(s, p) = g
    BY <1>4, <2>4, <2>8, GroupsAre DEF IsText
  <2>10. IsDigits(s, p, {2, 3})
    BY <1>1, <2>2 DEF IsDigits, Is
  <2>11. GroupsRead(s, p) = g
    BY <2>9, <2>10 DEF GroupsRead
  <2>12. \A k \in 0 .. g : f[k] = ValueBody(w, 1, f, k)
    BY <1>2 DEF IsValue
  <2>13. ASSUME NEW k \in 0 .. g PROVE ValueBody(w, 1, f, k) = ValueBody(s, p, f, k)
    <3>1. CASE k = 0
      BY <2>2, <3>1 DEF ValueBody
    <3>2. CASE k # 0
      <4>1. k \in 1 .. g /\ 1 + 2 * k = 2 * k + 1
        BY <3>2
      <4>2. s[p + 2 * k] = w[1 + 2 * k]
        BY <2>1, <4>1
      <4> QED
        BY <3>2, <4>2 DEF ValueBody
    <3> QED
      BY <3>1, <3>2
  <2>14. f = [k \in 0 .. g |-> ValueBody(s, p, f, k)]
    <3>1. f = [k \in 0 .. g |-> ValueBody(w, 1, f, k)]
      BY <1>2 DEF IsValue
    <3> QED
      BY <2>13, <3>1, Zenon
  <2>15. IsValue(s, p, GroupsRead(s, p), f) /\ GroupsRead(s, p) \in Nat
    BY <2>11, <2>14 DEF IsValue
  <2>16. ~HasDecimal(s, p)
    <3>1. CASE g = 0
      <4>1. p + 1 = e
        BY <2>5, <3>1
      <4> QED
        BY <2>7, <4>1 DEF HasDecimal
    <3>2. CASE g # 0
      <4>1. 1 \in 1 .. g /\ p + 2 * 1 - 1 = p + 1 /\ 2 * 1 = 2
        BY <3>2
      <4>2. s[p + 1] = w[2] /\ w[2][1] = ","
        BY <2>1, <2>3, <4>1
      <4> QED
        BY <4>2 DEF HasDecimal, Is
    <3> QED
      BY <3>1, <3>2
  <2>17. EndOfNumber(s, p) = e
    <3>1. CASE g = 0
      BY <2>5, <2>11, <2>16, <3>1 DEF EndOfNumber
    <3>2. CASE g # 0
      <4>1. g > 0 /\ p + 1 + 2 * g = e
        BY <2>5, <3>2
      <4> QED
        BY <2>11, <4>1 DEF EndOfNumber
    <3> QED
      BY <3>1, <3>2
  <2>18. End(s, p) = e
    BY <2>7, <2>17 DEF End
  <2>19. Tenths(s, p, f) = 10 * n + 0
    BY <1>2, <2>11, <2>16 DEF Tenths
  <2>20. Amount(s, p) = (10 * n + 0) * (IF End(s, p) > EndOfNumber(s, p) THEN 1000 ELSE 1)
    BY <2>15, <2>19, AmountIs DEF End
  <2>21. Amount(s, p) = (10 * n + 0) * 1
    BY <2>5, <2>17, <2>18, <2>20
  <2> QED
    BY <2>18, <2>21 DEF e
<1> QED
  BY <1>1, <1>3, <1>4 DEF ReadAs

(* Every form in which postings write an amount is read as it.             *)
LEMMA WrittenReads ==
    ASSUME NEW n \in Nat, NEW w \in Written(n)
    PROVE  ReadAs(w, 10 * n)
<1> DEFINE q == Upper(n)
           r == Lower(n)
<1>1. q \in Nat /\ r \in Nat /\ n = 1000 * q + r
  BY Thousands
<1>2. \/ w = Whole(n)
      \/ w = Whole(n) \o <<Sign("."), Digits(1, 0)>>
      \/ r = 0 /\ \E k \in Suffixes : w = Whole(q) \o k
      \/ r = 500 /\ w = Whole(q) \o <<Sign("."), Digits(1, 5), Sign("k")>>
      \/ Grouped[n][1][2] > 1 /\ w = Grouped[n]
  <2>1. w \in {Whole(n), Whole(n) \o <<Sign("."), Digits(1, 0)>>}
             \cup {Whole(q) \o k : k \in IF r = 0 THEN Suffixes ELSE {}}
             \cup {Whole(q) \o <<Sign("."), Digits(1, 5), Sign("k")>> : k \in
                      IF r = 500 THEN {1} ELSE {}}
             \cup {Grouped[m] : m \in IF Grouped[n][1][2] > 1 THEN {n} ELSE {}}
    BY Zenon DEF Written, Suffixes, Upper, Lower
  <2> HIDE DEF q, r
  <2>2. \/ w \in {Whole(n), Whole(n) \o <<Sign("."), Digits(1, 0)>>}
        \/ w \in {Whole(q) \o k : k \in IF r = 0 THEN Suffixes ELSE {}}
        \/ w \in {Whole(q) \o <<Sign("."), Digits(1, 5), Sign("k")>> : k \in
                      IF r = 500 THEN {1} ELSE {}}
        \/ w \in {Grouped[m] : m \in IF Grouped[n][1][2] > 1 THEN {n} ELSE {}}
    BY <2>1, Zenon
  <2>3. w \in {Whole(q) \o k : k \in IF r = 0 THEN Suffixes ELSE {}}
            => r = 0 /\ \E k \in Suffixes : w = Whole(q) \o k
    BY Zenon
  <2>4. w \in {Whole(q) \o <<Sign("."), Digits(1, 5), Sign("k")>> : k \in
                      IF r = 500 THEN {1} ELSE {}}
            => r = 500 /\ w = Whole(q) \o <<Sign("."), Digits(1, 5), Sign("k")>>
    BY Zenon
  <2>5. w \in {Grouped[m] : m \in IF Grouped[n][1][2] > 1 THEN {n} ELSE {}}
            => Grouped[n][1][2] > 1 /\ w = Grouped[n]
    BY Zenon
  <2> QED
    BY <2>2, <2>3, <2>4, <2>5, Zenon
<1> HIDE DEF q, r
<1>3. CASE w = Whole(n)
  BY <1>3, InFull
<1>4. CASE w = Whole(n) \o <<Sign("."), Digits(1, 0)>>
  BY <1>4, WithDecimal
<1>5. CASE r = 0 /\ \E k \in Suffixes : w = Whole(q) \o k
  <2>1. ReadAs(w, 10000 * q)
    BY <1>1, <1>5, InThousands
  <2>2. 10000 * q = 10 * n
    BY <1>1, <1>5
  <2> QED
    BY <2>1, <2>2
<1>6. CASE r = 500 /\ w = Whole(q) \o <<Sign("."), Digits(1, 5), Sign("k")>>
  <2>1. ReadAs(Whole(q) \o <<Sign("."), Digits(1, 5), Sign("k")>>, 1000 * (10 * q + 5))
    BY <1>1, InHalfThousands
  <2>2. 1000 * (10 * q + 5) = 10 * n
    BY <1>1, <1>6
  <2> QED
    BY <1>6, <2>1, <2>2
<1>7. CASE Grouped[n][1][2] > 1 /\ w = Grouped[n]
  <2>1. PICK g \in Nat : Shaped(w, g, n)
    BY <1>7, GroupedShape
  <2>2. w[1][2] \in 1 .. 3
    BY <2>1 DEF Shaped
  <2>3. w[1][2] \in {2, 3}
    BY <1>7, <2>2
  <2> QED
    BY <2>1, <2>3, InGroups
<1> QED
  BY <1>2, <1>3, <1>4, <1>5, <1>6, <1>7

-----------------------------------------------------------------------------
(* Numbers: the scan of a text                                             *)

(* The groups at p end.                                                     *)
LEMMA GroupsBound ==
    ASSUME NEW s, IsText(s), NEW p \in Nat
    PROVE  \E g \in Nat : Groups(s, p) = g /\ Following(s, p, g)
<1> DEFINE ends == {g \in Nat : ~Group(s, p, g + 1)}
<1>1. Len(s) \in ends
  <2>1. Len(s) \in Nat /\ ~(p + 2 * (Len(s) + 1) \in DOMAIN s)
    BY DEF IsText
  <2>2. ~Group(s, p, Len(s) + 1)
    BY <2>1 DEF Group, IsDigits, Is
  <2> QED
    BY <2>1, <2>2
<1>2. PICK g \in ends : \A k \in ends : g <= k
  <2>1. ends \in SUBSET Nat
    OBVIOUS
  <2> HIDE DEF ends
  <2> QED
    BY <1>1, <2>1, LeastElement
<1>3. g \in Nat /\ ~Group(s, p, g + 1)
  OBVIOUS
<1>4. ASSUME NEW m \in 1 .. g PROVE Group(s, p, m)
  <2>1. m - 1 \in Nat /\ m - 1 < g /\ m - 1 + 1 = m
    OBVIOUS
  <2>2. m - 1 \notin ends
    BY <1>2, <1>3, <2>1
  <2>3. Group(s, p, m - 1 + 1)
    BY <2>1, <2>2
  <2> QED
    BY <2>1, <2>3
<1>5. Following(s, p, g)
  BY <1>4 DEF Following
<1>6. Groups(s, p) = g
  BY <1>3, <1>5, GroupsAre DEF IsText
<1> QED
  BY <1>3, <1>5, <1>6

(* A match takes a token at least and ends in the text.                    *)
LEMMA EndBound ==
    ASSUME NEW s, IsText(s), NEW p \in 1 .. Len(s)
    PROVE  End(s, p) \in p + 1 .. Len(s) + 1
<1> DEFINE n == Len(s)
<1>1. n \in Nat /\ DOMAIN s = 1 .. n /\ p \in Nat /\ p \in 1 .. n
  BY DEF IsText
<1> HIDE DEF n
<1>2. GroupsRead(s, p) \in Nat /\ Following(s, p, GroupsRead(s, p))
  <2>1. Following(s, p, 0)
    BY DEF Following
  <2>2. Groups(s, p) \in Nat /\ Following(s, p, Groups(s, p))
    BY <1>1, GroupsBound
  <2> QED
    BY <2>1, <2>2 DEF GroupsRead
<1> DEFINE g == GroupsRead(s, p)
           e == EndOfNumber(s, p)
<1>3. g > 0 => p + 2 * g \in 1 .. n
  <2>1. ASSUME g > 0 PROVE p + 2 * g \in DOMAIN s
    <3>1. g \in 1 .. g
      BY <1>2, <2>1
    <3>2. Group(s, p, g)
      BY <1>2, <3>1 DEF Following
    <3> HIDE DEF g
    <3> QED
      BY <3>2 DEF Group, IsDigits, Is
  <2> QED
    BY <1>1, <2>1
<1>4. HasDecimal(s, p) => p + 2 \in 1 .. n
  BY <1>1 DEF HasDecimal, Is
<1>5. \/ g > 0 /\ e = p + 1 + 2 * g
      \/ HasDecimal(s, p) /\ e = p + 3
      \/ e = p + 1
  BY DEF EndOfNumber
<1>6. g \in Nat
  BY <1>2
<1> HIDE DEF g, e
<1>7. e \in Nat /\ e \in p + 1 .. n + 1
  BY <1>1, <1>3, <1>4, <1>5, <1>6
<1>8. Is(s, e, {"k"}) => e \in 1 .. n
  BY <1>1 DEF Is
<1>9. Is(s, e + 1, {"k"}) => e + 1 \in 1 .. n
  BY <1>1 DEF Is
<1>10. \/ Is(s, e, {"k"}) /\ EndOfSuffix(s, e) = e + 1
       \/ Is(s, e + 1, {"k"}) /\ EndOfSuffix(s, e) = e + 2
       \/ EndOfSuffix(s, e) = e
  BY DEF EndOfSuffix
<1> DEFINE q == EndOfSuffix(s, e)
<1>11. \/ e \in 1 .. n /\ q = e + 1
       \/ e + 1 \in 1 .. n /\ q = e + 2
       \/ q = e
  BY <1>8, <1>9, <1>10
<1>12. End(s, p) = q
  BY DEF End, e
<1> HIDE DEF q
<1>13. q \in p + 1 .. n + 1
  BY <1>1, <1>7, <1>11
<1> QED
  BY <1>12, <1>13 DEF n

ScanBody(s, f, p) ==
    IF p > Len(s) THEN <<>>
    ELSE IF StartsNumber(s, p)
         THEN <<Amount(s, p)>> \o f[End(s, p)]
         ELSE f[p + 1]

ScansFrom(s, b, f) == f = [p \in b .. Len(s) + 1 |-> ScanBody(s, f, p)]
Scans(s, f) == f = [p \in 1 .. Len(s) + 1 |-> ScanBody(s, f, p)]

(* A step of the scan depends on what comes later only.                     *)
LEMMA ScanBodyAgrees ==
    ASSUME NEW s, IsText(s), NEW p \in Nat \ {0}, NEW f, NEW h,
           \A q \in p + 1 .. Len(s) + 1 : f[q] = h[q]
    PROVE  ScanBody(s, f, p) = ScanBody(s, h, p)
<1>1. CASE p > Len(s)
  BY <1>1 DEF ScanBody
<1>2. CASE ~(p > Len(s))
  <2>1. p \in 1 .. Len(s) /\ p + 1 \in p + 1 .. Len(s) + 1
    BY <1>2 DEF IsText
  <2>2. End(s, p) \in p + 1 .. Len(s) + 1
    BY <2>1, EndBound
  <2>3. f[End(s, p)] = h[End(s, p)] /\ f[p + 1] = h[p + 1]
    BY <2>1, <2>2
  <2> QED
    BY <2>3 DEF ScanBody
<1> QED
  BY <1>1, <1>2

(* The scan is defined, from the end of the text to its beginning.          *)
LEMMA ScanExists ==
    ASSUME NEW s, IsText(s)
    PROVE  \E f : Scans(s, f)
<1> DEFINE n == Len(s)
           wrong == {d \in 0 .. n : ~ \E f : ScansFrom(s, n + 1 - d, f)}
<1>1. n \in Nat
  BY DEF IsText
<1>2. wrong = {}
  <2> SUFFICES ASSUME wrong # {} PROVE FALSE
    OBVIOUS
  <2>1. PICK d \in wrong : \A k \in wrong : d <= k
    <3>1. wrong \in SUBSET Nat
      BY <1>1
    <3> HIDE DEF wrong
    <3> QED
      BY <3>1, LeastElement
  <2>2. d \in 0 .. n /\ ~ \E f : ScansFrom(s, n + 1 - d, f)
    OBVIOUS
  <2> DEFINE b == n + 1 - d
  <2>3. b \in Nat \ {0} /\ b <= n + 1
    BY <1>1, <2>2
  <2>4. \E f : d = 0 \/ ScansFrom(s, b + 1, f)
    <3>1. CASE d = 0
      BY <3>1
    <3>2. CASE d # 0
      <4>1. d - 1 \in 0 .. n /\ d - 1 \notin wrong /\ n + 1 - (d - 1) = b + 1
        BY <1>1, <2>1, <2>2, <3>2
      <4>2. \E f : ScansFrom(s, n + 1 - (d - 1), f)
        BY <4>1
      <4> QED
        BY <4>1, <4>2
    <3> QED
      BY <3>1, <3>2
  <2>5. PICK f : d = 0 \/ ScansFrom(s, b + 1, f)
    BY <2>4
  <2>6. d = 0 => b = n + 1
    BY <1>1
  <2> HIDE DEF wrong, b, n
  <2> DEFINE h == [p \in b .. n + 1 |-> IF p = b THEN ScanBody(s, f, b) ELSE f[p]]
  <2>7. \A p \in b .. n + 1 : h[p] = IF p = b THEN ScanBody(s, f, b) ELSE f[p]
    OBVIOUS
  <2> HIDE DEF h
  <2>8. ASSUME NEW p \in b .. n + 1
        PROVE  ScanBody(s, h, p) = ScanBody(s, f, p)
    <3>1. p \in Nat \ {0}
      BY <1>1, <2>3
    <3>2. \A q \in p + 1 .. n + 1 : h[q] = f[q]
      <4> TAKE q \in p + 1 .. n + 1
      <4>1. q \in b .. n + 1 /\ q # b
        BY <1>1, <2>3, <3>1
      <4> QED
        BY <2>7, <4>1
    <3> QED
      BY <3>1, <3>2, ScanBodyAgrees DEF n
  <2>9. ASSUME NEW p \in b .. n + 1
        PROVE  (IF p = b THEN ScanBody(s, f, b) ELSE f[p]) = ScanBody(s, h, p)
    <3>1. CASE p = b
      BY <2>8, <3>1
    <3>2. CASE p # b
      <4>1. d # 0 /\ p \in b + 1 .. n + 1
        BY <1>1, <2>3, <2>6, <3>2
      <4>2. f[p] = ScanBody(s, f, p)
        BY <2>5, <4>1 DEF ScansFrom, n
      <4> QED
        BY <2>8, <3>2, <4>2
    <3> QED
      BY <3>1, <3>2
  <2>10. h = [p \in b .. n + 1 |-> ScanBody(s, h, p)]
    BY <2>9, Zenon DEF h
  <2>11. ScansFrom(s, b, h)
    BY <2>10 DEF ScansFrom, n
  <2> QED
    BY <2>2, <2>11 DEF b
<1>3. n \in 0 .. n /\ n \notin wrong /\ n + 1 - n = 1
  BY <1>1, <1>2
<1>4. \E f : ScansFrom(s, n + 1 - n, f)
  BY <1>3
<1> HIDE DEF n, wrong
<1>5. PICK f : ScansFrom(s, 1, f)
  BY <1>3, <1>4
<1> QED
  BY <1>5 DEF ScansFrom, Scans

LEMMA NumbersAre ==
    ASSUME NEW s, IsText(s)
    PROVE  \E f : Scans(s, f) /\ Numbers(s) = f[1]
<1>1. \E f : Scans(s, f)
  BY ScanExists
<1> QED
  BY <1>1, Zenon DEF Scans, ScanBody, Numbers, End

(* The steps of the scan                                                   *)
LEMMA ScanSteps ==
    ASSUME NEW s, IsText(s), NEW f, Scans(s, f), NEW p \in 1 .. Len(s) + 1
    PROVE  /\ p = Len(s) + 1 => f[p] = <<>>
           /\ p # Len(s) + 1 /\ ~StartsNumber(s, p) => f[p] = f[p + 1]
           /\ p # Len(s) + 1 /\ StartsNumber(s, p) => f[p] = <<Amount(s, p)>> \o f[End(s, p)]
<1>1. f[p] = ScanBody(s, f, p)
  BY DEF Scans
<1>2. Len(s) \in Nat
  BY DEF IsText
<1>3. CASE p = Len(s) + 1
  <2>1. p > Len(s)
    BY <1>2, <1>3
  <2> QED
    BY <1>1, <1>3, <2>1 DEF ScanBody
<1>4. CASE p # Len(s) + 1
  <2>1. ~(p > Len(s))
    BY <1>2, <1>4
  <2> QED
    BY <1>1, <1>4, <2>1 DEF ScanBody
<1> QED
  BY <1>3, <1>4

(* What is no run of digits is skipped.                                    *)
NoDigits(s, p, q) == \A i \in p .. q - 1 : i \in DOMAIN s /\ s[i][1] # "digits"

LEMMA Skips ==
    ASSUME NEW s, IsText(s), NEW f, Scans(s, f),
           NEW p \in Nat \ {0}, NEW q \in Nat, p <= q, q <= Len(s) + 1, NoDigits(s, p, q)
    PROVE  f[p] = f[q]
<1> DEFINE wrong == {d \in 0 .. q - p : f[q - d] # f[q]}
<1>1. Len(s) \in Nat /\ DOMAIN s = 1 .. Len(s)
  BY DEF IsText
<1>2. wrong = {}
  <2> SUFFICES ASSUME wrong # {} PROVE FALSE
    OBVIOUS
  <2>1. PICK d \in wrong : \A k \in wrong : d <= k
    <3>1. wrong \in SUBSET Nat
      OBVIOUS
    <3> HIDE DEF wrong
    <3> QED
      BY <3>1, LeastElement
  <2>2. d \in 0 .. q - p /\ f[q - d] # f[q] /\ d # 0
    BY <2>1
  <2>3. d - 1 \in 0 .. q - p /\ d - 1 \notin wrong
    BY <2>1, <2>2
  <2>4. f[q - (d - 1)] = f[q]
    BY <2>3
  <2> DEFINE r == q - d
  <2>5. q - (d - 1) = r + 1 /\ r \in p .. q - 1 /\ r \in 1 .. Len(s) + 1 /\ r # Len(s) + 1
    BY <1>1, <2>2
  <2> HIDE DEF wrong, r
  <2>6. ~StartsNumber(s, r)
    BY <2>5 DEF NoDigits, StartsNumber, Is
  <2>7. f[r] = f[r + 1]
    BY <2>5, <2>6, ScanSteps
  <2> QED
    BY <2>2, <2>4, <2>5, <2>7 DEF r
<1>3. q - p \in 0 .. q - p /\ q - (q - p) = p
  OBVIOUS
<1>4. f[q - (q - p)] = f[q]
  <2>1. q - p \notin wrong
    BY <1>2, Zenon
  <2> QED
    BY <1>3, <2>1
<1> QED
  BY <1>3, <1>4

(* An amount is read and the scan goes on after it.                        *)
TakesAt(s, f, p, w, n) ==
    /\ IsText(s) /\ Scans(s, f) /\ p \in Nat \ {0} /\ ReadAs(w, n) /\ At(s, p, w)
    /\ Ends(s, p + Len(w)) /\ ~Is(s, p - 1, Words)

LEMMA Takes ==
    ASSUME NEW s, NEW f, NEW p, NEW w, NEW n, TakesAt(s, f, p, w, n)
    PROVE  f[p] = <<n>> \o f[p + Len(w)]
<1>1. /\ IsText(s) /\ Scans(s, f) /\ p \in Nat \ {0} /\ ReadAs(w, n) /\ At(s, p, w)
      /\ Ends(s, p + Len(w)) /\ ~Is(s, p - 1, Words)
  BY DEF TakesAt
<1>2. Len(w) \in Nat \ {0} /\ w[1][1] = "digits" /\ p \in Nat
  BY <1>1 DEF ReadAs
<1>3. Amount(s, p) = n /\ End(s, p) = p + Len(w)
  BY <1>1, <1>2 DEF ReadAs
<1>4. p \in DOMAIN s /\ s[p] = w[1]
  <2>1. 1 \in 1 .. Len(w) /\ p + 1 - 1 = p
    BY <1>2
  <2> QED
    BY <1>1, <2>1, Zenon DEF At
<1>5. StartsNumber(s, p)
  BY <1>1, <1>2, <1>4 DEF StartsNumber, Is
<1>6. p \in 1 .. Len(s) + 1 /\ p # Len(s) + 1
  BY <1>1, <1>4 DEF IsText
<1> QED
  BY <1>1, <1>3, <1>5, <1>6, ScanSteps

-----------------------------------------------------------------------------
(* A text put together from amounts and what stands around them            *)

(* What a concatenation has where                                           *)
LEMMA Put ==
    \A S : \A v, w \in Seq(S) :
        /\ v \o w \in Seq(S) /\ Len(v \o w) = Len(v) + Len(w)
        /\ \A i \in 1 .. Len(v) : (v \o w)[i] = v[i]
        /\ \A i \in 1 .. Len(w) : (v \o w)[Len(v) + i] = w[i]
  OBVIOUS

LEMMA Lengths ==
    \A S : \A v \in Seq(S) : Len(v) \in Nat /\ DOMAIN v = 1 .. Len(v) /\ IsText(v) /\ At(v, 1, v)
<1> SUFFICES ASSUME NEW S, NEW v \in Seq(S)
             PROVE  Len(v) \in Nat /\ DOMAIN v = 1 .. Len(v) /\ IsText(v) /\ At(v, 1, v)
  OBVIOUS
<1>1. Len(v) \in Nat /\ DOMAIN v = 1 .. Len(v)
  OBVIOUS
<1>2. ASSUME NEW i \in 1 .. Len(v) PROVE 1 + i - 1 \in DOMAIN v /\ v[1 + i - 1] = v[i]
  <2>1. 1 + i - 1 = i
    BY <1>1
  <2> QED
    BY <1>1, <2>1
<1> QED
  BY <1>1, <1>2 DEF IsText, At

(* What is put at the end of a text is there, and the rest where it was.    *)
LEMMA AtPut ==
    ASSUME NEW S, NEW s \in Seq(S), NEW x \in Seq(S)
    PROVE  /\ s \o x \in Seq(S) /\ Len(s \o x) = Len(s) + Len(x)
           /\ At(s \o x, Len(s) + 1, x)
           /\ \A p \in Nat : \A v : At(s, p, v) => At(s \o x, p, v)
<1> DEFINE u == s \o x
           l == Len(s)
           n == Len(x)
<1>1. /\ u \in Seq(S) /\ Len(u) = l + n
      /\ \A i \in 1 .. l : u[i] = s[i]
      /\ \A i \in 1 .. n : u[l + i] = x[i]
  BY Put
<1>2. l \in Nat /\ n \in Nat /\ DOMAIN s = 1 .. l
  BY Lengths
<1> HIDE DEF u, l, n
<1>3. DOMAIN u = 1 .. l + n
  BY <1>1, Lengths
<1>4. ASSUME NEW i \in 1 .. n PROVE l + 1 + i - 1 \in DOMAIN u /\ u[l + 1 + i - 1] = x[i]
  <2>1. l + 1 + i - 1 = l + i /\ l + i \in 1 .. l + n
    BY <1>2
  <2> QED
    BY <1>1, <1>3, <2>1
<1>5. At(u, l + 1, x)
  BY <1>4 DEF At, n
<1>6. ASSUME NEW p \in Nat, NEW v, At(s, p, v)
      PROVE  At(u, p, v)
  <2>1. ASSUME NEW i \in 1 .. Len(v)
        PROVE  p + i - 1 \in DOMAIN u /\ u[p + i - 1] = v[i]
    <3>1. p + i - 1 \in 1 .. l /\ s[p + i - 1] = v[i]
      BY <1>2, <1>6 DEF At
    <3>2. u[p + i - 1] = v[i]
      BY <1>1, <3>1
    <3>3. \A j \in 1 .. l : j \in 1 .. l + n
      BY <1>2
    <3> QED
      BY <1>3, <3>1, <3>2, <3>3
  <2> QED
    BY <2>1 DEF At
<1> QED
  BY <1>1, <1>5, <1>6 DEF u, l, n

(* What stands around amounts                                              *)
Clean(v) == \A i \in 1 .. Len(v) : v[i][1] \notin {"digits", ",", ".", "k"}
NotLastWord(v) == Len(v) > 0 => v[Len(v)][1] \notin Words

SkipsAt(s, f, p, v, q) ==
    /\ IsText(s) /\ Scans(s, f) /\ p \in Nat \ {0}
    /\ Len(v) \in Nat /\ At(s, p, v) /\ Clean(v) /\ q = p + Len(v) /\ q <= Len(s) + 1

(* Nothing is read in it.                                                   *)
LEMMA CleanSkips ==
    ASSUME NEW s, NEW f, NEW p, NEW v, NEW q, SkipsAt(s, f, p, v, q)
    PROVE  f[p] = f[q]
<1>1. /\ q \in Nat /\ p <= q /\ q <= Len(s) + 1
      /\ p \in Nat \ {0} /\ Len(v) \in Nat /\ q = p + Len(v)
  BY DEF SkipsAt
<1>2. ASSUME NEW i \in p .. q - 1 PROVE i \in DOMAIN s /\ s[i][1] # "digits"
  <2> DEFINE k == i - p + 1
  <2>1. k \in 1 .. Len(v) /\ p + k - 1 = i
    BY <1>1
  <2> HIDE DEF k
  <2>2. i \in DOMAIN s /\ s[i] = v[k]
    BY <2>1 DEF At, SkipsAt
  <2> QED
    BY <2>1, <2>2 DEF Clean, SkipsAt
<1>3. NoDigits(s, p, q)
  BY <1>2 DEF NoDigits
<1>4. IsText(s) /\ Scans(s, f)
  BY DEF SkipsAt
<1> QED
  BY <1>1, <1>3, <1>4, Skips

After(s, q, v) ==
    ~Is(s, q + Len(v), {",", ".", "k"}) /\ (Len(v) > 0 \/ ~Is(s, q + 1, {"k"}))
Before(s, p, v) == Len(v) > 0 \/ ~Is(s, p - 1, Words)

(* An amount before it ends there.                                          *)
LEMMA CleanEnds ==
    ASSUME NEW s, NEW q \in Nat, NEW v, Len(v) \in Nat, At(s, q, v), Clean(v), After(s, q, v)
    PROVE  Ends(s, q)
<1> DEFINE signs == {",", ".", "k"}
           l == Len(v)
<1>1. l \in Nat
  OBVIOUS
<1>2. ~Is(s, q + l, signs) /\ (l > 0 \/ ~Is(s, q + 1, {"k"}))
  BY DEF After
<1>3. \A i \in 1 .. l : s[q + i - 1] = v[i] /\ v[i][1] \notin signs
  BY DEF At, Clean
<1>4. "k" \in signs
  OBVIOUS
<1> HIDE DEF signs, l
<1>5. l >= 1 => ~Is(s, q, signs)
  <2>1. ASSUME l >= 1 PROVE ~Is(s, q, signs)
    <3>1. 1 \in 1 .. l /\ q + 1 - 1 = q
      BY <1>1, <2>1
    <3>2. s[q][1] \notin signs
      BY <1>3, <3>1
    <3> QED
      BY <3>2 DEF Is
  <2> QED
    BY <2>1
<1>6. l >= 2 => ~Is(s, q + 1, {"k"})
  <2>1. ASSUME l >= 2 PROVE ~Is(s, q + 1, {"k"})
    <3>1. 2 \in 1 .. l /\ q + 2 - 1 = q + 1
      BY <1>1, <2>1
    <3>2. s[q + 1][1] \notin signs
      BY <1>3, <3>1
    <3>3. s[q + 1][1] # "k"
      BY <1>4, <3>2
    <3> QED
      BY <3>3 DEF Is
  <2> QED
    BY <2>1
<1>7. CASE l = 0
  <2>1. q + l = q /\ ~(l > 0)
    BY <1>7
  <2>2. ~Is(s, q, signs) /\ ~Is(s, q + 1, {"k"})
    BY <1>2, <2>1
  <2> QED
    BY <2>2 DEF Ends, signs
<1>8. CASE l = 1
  <2>1. q + l = q + 1 /\ l >= 1
    BY <1>8
  <2>2. ~Is(s, q + 1, signs)
    BY <1>2, <2>1
  <2>3. ~Is(s, q + 1, {"k"})
    BY <1>4, <2>2 DEF Is
  <2> QED
    BY <1>5, <2>1, <2>3 DEF Ends, signs
<1>9. CASE l >= 2
  <2>1. l >= 1
    BY <1>1, <1>9
  <2> QED
    BY <1>5, <1>6, <1>9, <2>1 DEF Ends, signs
<1> QED
  BY <1>1, <1>7, <1>8, <1>9

(* An amount after it starts there.                                         *)
LEMMA CleanBefore ==
    ASSUME NEW s, NEW p \in Nat \ {0}, NEW v, Len(v) \in Nat, At(s, p, v), NotLastWord(v),
           Before(s, p, v)
    PROVE  ~Is(s, p + Len(v) - 1, Words)
<1> DEFINE l == Len(v)
<1>1. CASE l = 0
  <2>1. p + l - 1 = p - 1 /\ ~(l > 0)
    BY <1>1
  <2>2. ~Is(s, p - 1, Words)
    BY <2>1 DEF Before
  <2> QED
    BY <2>1, <2>2
<1>2. CASE l # 0
  <2>1. l \in 1 .. l /\ l > 0
    BY <1>2
  <2>2. s[p + l - 1] = v[l] /\ v[l][1] \notin Words
    BY <2>1 DEF At, NotLastWord
  <2> HIDE DEF l
  <2>3. ~Is(s, p + l - 1, Words)
    BY <2>2 DEF Is
  <2> QED
    BY <2>3 DEF l
<1> QED
  BY <1>1, <1>2

-----------------------------------------------------------------------------
FiveAt(s, pre, first, mid, last, post, p1, q1, p2, q2) ==
    /\ At(s, 1, pre) /\ At(s, p1, first) /\ At(s, q1, mid) /\ At(s, p2, last) /\ At(s, q2, post)
    /\ p1 = 1 + Len(pre) /\ q1 = p1 + Len(first) /\ p2 = q1 + Len(mid)
    /\ q2 = p2 + Len(last) /\ Len(s) + 1 = q2 + Len(post)

(* Where the parts of a text with two amounts are                           *)
LEMMA FiveParts ==
    ASSUME NEW S, NEW pre \in Seq(S), NEW first \in Seq(S), NEW mid \in Seq(S),
           NEW last \in Seq(S), NEW post \in Seq(S)
    PROVE  LET s == pre \o first \o mid \o last \o post
           IN  /\ s \in Seq(S)
               /\ \E p1, q1, p2, q2 \in Nat :
                      FiveAt(s, pre, first, mid, last, post, p1, q1, p2, q2)
<1> DEFINE s2 == pre \o first
           s3 == s2 \o mid
           s4 == s3 \o last
           s == s4 \o post
<1>1. /\ s2 \in Seq(S) /\ Len(s2) = Len(pre) + Len(first)
      /\ At(s2, Len(pre) + 1, first) /\ At(s2, 1, pre)
  <2>1. 1 \in Nat /\ At(pre, 1, pre)
    BY Lengths
  <2> QED
    BY <2>1, AtPut
<1> HIDE DEF s2
<1>2. /\ s3 \in Seq(S) /\ Len(s3) = Len(s2) + Len(mid) /\ At(s3, Len(s2) + 1, mid)
      /\ \A p \in Nat : \A v : At(s2, p, v) => At(s3, p, v)
  BY <1>1, AtPut
<1> HIDE DEF s3
<1>3. /\ s4 \in Seq(S) /\ Len(s4) = Len(s3) + Len(last) /\ At(s4, Len(s3) + 1, last)
      /\ \A p \in Nat : \A v : At(s3, p, v) => At(s4, p, v)
  BY <1>2, AtPut
<1> HIDE DEF s4
<1>4. /\ s \in Seq(S) /\ Len(s) = Len(s4) + Len(post) /\ At(s, Len(s4) + 1, post)
      /\ \A p \in Nat : \A v : At(s4, p, v) => At(s, p, v)
  BY <1>3, AtPut
<1> HIDE DEF s
<1>5. /\ Len(pre) \in Nat /\ Len(first) \in Nat /\ Len(mid) \in Nat
      /\ Len(last) \in Nat /\ Len(post) \in Nat
  BY Lengths
<1> DEFINE p1 == Len(pre) + 1
           q1 == Len(s2) + 1
           p2 == Len(s3) + 1
           q2 == Len(s4) + 1
<1>6. /\ p1 \in Nat /\ q1 \in Nat /\ p2 \in Nat /\ q2 \in Nat /\ 1 \in Nat
      /\ p1 = 1 + Len(pre) /\ q1 = p1 + Len(first) /\ p2 = q1 + Len(mid)
      /\ q2 = p2 + Len(last) /\ Len(s) + 1 = q2 + Len(post)
  BY <1>1, <1>2, <1>3, <1>4, <1>5
<1>7. /\ At(s2, 1, pre) /\ At(s2, p1, first) /\ At(s3, q1, mid)
      /\ At(s4, p2, last) /\ At(s, q2, post)
  BY <1>1, <1>2, <1>3, <1>4
<1> HIDE DEF p1, q1, p2, q2
<1>8. At(s3, 1, pre) /\ At(s3, p1, first)
  BY <1>2, <1>6, <1>7
<1>9. At(s4, 1, pre) /\ At(s4, p1, first) /\ At(s4, q1, mid)
  BY <1>3, <1>6, <1>7, <1>8
<1>10. At(s, 1, pre) /\ At(s, p1, first) /\ At(s, q1, mid) /\ At(s, p2, last)
  BY <1>4, <1>6, <1>7, <1>9
<1>11. FiveAt(s, pre, first, mid, last, post, p1, q1, p2, q2)
  BY <1>6, <1>7, <1>10, Zenon DEF FiveAt
<1>12. s \in Seq(S) /\ \E i, j, k, l \in Nat : FiveAt(s, pre, first, mid, last, post, i, j, k, l)
  BY <1>4, <1>6, <1>11, Zenon
<1> QED
  BY <1>12, Zenon DEF s, s4, s3, s2

ThreeAt(s, pre, first, post, p1, q1) ==
    /\ At(s, 1, pre) /\ At(s, p1, first) /\ At(s, q1, post)
    /\ p1 = 1 + Len(pre) /\ q1 = p1 + Len(first) /\ Len(s) + 1 = q1 + Len(post)

(* Where the parts of a text with one amount are                            *)
LEMMA ThreeParts ==
    ASSUME NEW S, NEW pre \in Seq(S), NEW first \in Seq(S), NEW post \in Seq(S)
    PROVE  LET s == pre \o first \o post
           IN  /\ s \in Seq(S)
               /\ \E p, q \in Nat : ThreeAt(s, pre, first, post, p, q)
<1> DEFINE s2 == pre \o first
           s == s2 \o post
<1>1. /\ s2 \in Seq(S) /\ Len(s2) = Len(pre) + Len(first)
      /\ At(s2, Len(pre) + 1, first) /\ At(s2, 1, pre)
  <2>1. 1 \in Nat /\ At(pre, 1, pre)
    BY Lengths
  <2> QED
    BY <2>1, AtPut
<1> HIDE DEF s2
<1>2. /\ s \in Seq(S) /\ Len(s) = Len(s2) + Len(post) /\ At(s, Len(s2) + 1, post)
      /\ \A p \in Nat : \A v : At(s2, p, v) => At(s, p, v)
  BY <1>1, AtPut
<1> HIDE DEF s
<1>3. Len(pre) \in Nat /\ Len(first) \in Nat /\ Len(post) \in Nat
  BY Lengths
<1> DEFINE p1 == Len(pre) + 1
           q1 == Len(s2) + 1
<1>4. /\ p1 \in Nat /\ q1 \in Nat /\ 1 \in Nat
      /\ p1 = 1 + Len(pre) /\ q1 = p1 + Len(first) /\ Len(s) + 1 = q1 + Len(post)
  BY <1>1, <1>2, <1>3
<1>5. At(s2, 1, pre) /\ At(s2, p1, first) /\ At(s, q1, post)
  BY <1>1, <1>2
<1> HIDE DEF p1, q1
<1>6. At(s, 1, pre) /\ At(s, p1, first)
  BY <1>2, <1>4, <1>5
<1>7. ThreeAt(s, pre, first, post, p1, q1)
  BY <1>4, <1>5, <1>6, Zenon DEF ThreeAt
<1>8. s \in Seq(S) /\ \E p, q \in Nat : ThreeAt(s, pre, first, post, p, q)
  BY <1>2, <1>4, <1>7, Zenon
<1> QED
  BY <1>8, Zenon DEF s, s2

IsFiller(S, v) == v \in Seq(S) /\ Clean(v) /\ NotLastWord(v)

(* An amount after something, before something, to the end of the text     *)
LastAt(s, f, b, v, p, w, n, q, x) ==
    /\ IsText(s) /\ Scans(s, f) /\ b \in Nat \ {0} /\ p \in Nat /\ q \in Nat
    /\ Len(v) \in Nat /\ Clean(v) /\ NotLastWord(v) /\ At(s, b, v) /\ Before(s, b, v)
    /\ p = b + Len(v) /\ ReadAs(w, n) /\ At(s, p, w) /\ q = p + Len(w)
    /\ Len(x) \in Nat /\ Clean(x) /\ At(s, q, x) /\ Len(s) + 1 = q + Len(x)

LEMMA LastRead ==
    ASSUME NEW s, NEW f, NEW b, NEW v, NEW p, NEW w, NEW n, NEW q, NEW x,
           LastAt(s, f, b, v, p, w, n, q, x)
    PROVE  f[b] = <<n>>
<1>1. /\ IsText(s) /\ Scans(s, f) /\ b \in Nat \ {0} /\ p \in Nat /\ q \in Nat
      /\ Len(v) \in Nat /\ Clean(v) /\ NotLastWord(v) /\ At(s, b, v) /\ Before(s, b, v)
      /\ p = b + Len(v) /\ ReadAs(w, n) /\ At(s, p, w) /\ q = p + Len(w)
      /\ Len(x) \in Nat /\ Clean(x) /\ At(s, q, x) /\ Len(s) + 1 = q + Len(x)
  BY DEF LastAt
<1>2. Len(s) \in Nat /\ DOMAIN s = 1 .. Len(s)
  BY <1>1 DEF IsText
<1>3. Len(w) \in Nat \ {0}
  BY <1>1 DEF ReadAs
<1>4. p \in Nat \ {0} /\ q \in Nat \ {0} /\ p <= Len(s) + 1 /\ q <= Len(s) + 1
  BY <1>1, <1>2, <1>3
<1>5. f[b] = f[p]
  <2>1. SkipsAt(s, f, b, v, p)
    BY <1>1, <1>4 DEF SkipsAt
  <2> QED
    BY <2>1, CleanSkips
<1>6. f[p] = <<n>> \o f[q]
  <2>1. After(s, q, x)
    <3>1. /\ ~(q + Len(x) \in DOMAIN s)
          /\ Len(x) = 0 => ~(q + 1 \in DOMAIN s)
          /\ Len(x) > 0 \/ Len(x) = 0
      BY <1>1, <1>2
    <3> QED
      BY <3>1 DEF After, Is
  <2>2. Ends(s, q)
    BY <1>1, <2>1, CleanEnds
  <2>3. ~Is(s, b + Len(v) - 1, Words)
    BY <1>1, CleanBefore
  <2>4. ~Is(s, p - 1, Words) /\ Ends(s, p + Len(w))
    BY <1>1, <2>2, <2>3
  <2>5. TakesAt(s, f, p, w, n)
    BY <1>1, <1>4, <2>4 DEF TakesAt
  <2>6. f[p] = <<n>> \o f[p + Len(w)]
    BY <2>5, Takes
  <2> QED
    BY <1>1, <2>6
<1>7. f[q] = f[Len(s) + 1]
  <2>1. SkipsAt(s, f, q, x, Len(s) + 1)
    BY <1>1, <1>2, <1>4 DEF SkipsAt
  <2> QED
    BY <2>1, CleanSkips
<1>8. f[Len(s) + 1] = <<>>
  <2>1. Len(s) + 1 \in 1 .. Len(s) + 1
    BY <1>2
  <2> QED
    BY <1>1, <2>1, ScanSteps
<1>9. f[b] = <<n>> \o <<>>
  BY <1>5, <1>6, <1>7, <1>8
<1> QED
  BY <1>9

(* The numbers of a text with one amount                                    *)
LEMMA OneRead ==
    ASSUME NEW S, NEW pre, IsFiller(S, pre), NEW w \in Seq(S), NEW n, ReadAs(w, n),
           NEW post \in Seq(S), Clean(post)
    PROVE  Numbers(pre \o w \o post) = <<n>>
<1> DEFINE s == pre \o w \o post
<1>1. pre \in Seq(S) /\ Clean(pre) /\ NotLastWord(pre)
  BY DEF IsFiller
<1>2. s \in Seq(S) /\ \E p, q \in Nat : ThreeAt(s, pre, w, post, p, q)
  BY <1>1, ThreeParts, Zenon
<1> HIDE DEF s
<1>3. IsText(s)
  BY <1>2, Lengths
<1>4. PICK f : Scans(s, f) /\ Numbers(s) = f[1]
  BY <1>3, NumbersAre
<1>5. PICK p \in Nat, q \in Nat : ThreeAt(s, pre, w, post, p, q)
  BY <1>2
<1>6. Len(pre) \in Nat /\ Len(post) \in Nat
  BY <1>1, Lengths
<1>7. Before(s, 1, pre)
  <2>1. ~(1 - 1 \in DOMAIN s)
    BY <1>3 DEF IsText
  <2> QED
    BY <2>1 DEF Before, Is
<1>8. f[1] = <<n>>
  <2>1. LastAt(s, f, 1, pre, p, w, n, q, post)
    BY <1>1, <1>3, <1>4, <1>5, <1>6, <1>7 DEF LastAt, ThreeAt
  <2> QED
    BY <2>1, LastRead
<1> QED
  BY <1>4, <1>8 DEF s

LEMMA JoinTwo == \A n, m : <<n>> \o <<m>> = <<n, m>>
<1> TAKE n, m
<1> DEFINE v == <<n>> \o <<m>>
           S == {n, m}
<1>1. <<n>> \in Seq(S) /\ <<m>> \in Seq(S) /\ Len(<<n>>) = 1 /\ Len(<<m>>) = 1
      /\ <<n>>[1] = n /\ <<m>>[1] = m
  OBVIOUS
<1>2. /\ v \in Seq(S) /\ Len(v) = 1 + 1
      /\ \A i \in 1 .. 1 : v[i] = <<n>>[i]
      /\ \A i \in 1 .. 1 : v[1 + i] = <<m>>[i]
  BY <1>1, Put
<1> HIDE DEF v, S
<1>3. v[1] = n /\ v[2] = m /\ Len(v) = 2
  <2>1. 1 \in 1 .. 1 /\ 1 + 1 = 2
    OBVIOUS
  <2> QED
    BY <1>1, <1>2, <2>1
<1>4. <<n, m>> \in Seq(S) /\ Len(<<n, m>>) = 2 /\ <<n, m>>[1] = n /\ <<n, m>>[2] = m
  BY DEF S
<1> DEFINE u == <<n, m>>
<1>5. u \in Seq(S) /\ Len(u) = Len(v) /\ u[1] = n /\ u[2] = m
  BY <1>3, <1>4
<1> HIDE DEF u
<1>6. \A i \in 1 .. Len(v) : v[i] = u[i]
  BY <1>3, <1>5
<1>7. v = u
  BY <1>2, <1>5, <1>6, SeqEqual
<1> QED
  BY <1>7 DEF u, v

(* The numbers of a text with two amounts                                   *)
LEMMA TwoRead ==
    ASSUME NEW S, NEW pre, IsFiller(S, pre), NEW w \in Seq(S), NEW n, ReadAs(w, n),
           NEW mid, IsFiller(S, mid), Len(mid) > 0, NEW u \in Seq(S), NEW m, ReadAs(u, m),
           NEW post \in Seq(S), Clean(post)
    PROVE  Numbers(pre \o w \o mid \o u \o post) = <<n, m>>
<1> DEFINE s == pre \o w \o mid \o u \o post
<1>1. /\ pre \in Seq(S) /\ Clean(pre) /\ NotLastWord(pre)
      /\ mid \in Seq(S) /\ Clean(mid) /\ NotLastWord(mid)
  BY DEF IsFiller
<1>2. s \in Seq(S) /\ \E p1, q1, p2, q2 \in Nat : FiveAt(s, pre, w, mid, u, post, p1, q1, p2, q2)
  BY <1>1, FiveParts, Zenon
<1> HIDE DEF s
<1>3. IsText(s)
  BY <1>2, Lengths
<1>4. PICK f : Scans(s, f) /\ Numbers(s) = f[1]
  BY <1>3, NumbersAre
<1>5. PICK p1 \in Nat, q1 \in Nat, p2 \in Nat, q2 \in Nat :
          FiveAt(s, pre, w, mid, u, post, p1, q1, p2, q2)
  BY <1>2
<1>6. /\ At(s, 1, pre) /\ At(s, p1, w) /\ At(s, q1, mid) /\ At(s, p2, u) /\ At(s, q2, post)
      /\ p1 = 1 + Len(pre) /\ q1 = p1 + Len(w) /\ p2 = q1 + Len(mid)
      /\ q2 = p2 + Len(u) /\ Len(s) + 1 = q2 + Len(post)
  BY <1>5 DEF FiveAt
<1>7. /\ Len(pre) \in Nat /\ Len(mid) \in Nat /\ Len(post) \in Nat
      /\ Len(w) \in Nat \ {0} /\ Len(u) \in Nat \ {0}
  BY <1>1, Lengths DEF ReadAs
<1>8. Before(s, 1, pre)
  <2>1. ~(1 - 1 \in DOMAIN s)
    BY <1>3 DEF IsText
  <2> QED
    BY <2>1 DEF Before, Is
<1>9. /\ 1 \in Nat \ {0} /\ p1 \in Nat \ {0} /\ q1 \in Nat \ {0} /\ p2 \in Nat \ {0}
      /\ q2 \in Nat \ {0} /\ Len(s) \in Nat
      /\ p1 <= Len(s) + 1 /\ q1 <= Len(s) + 1
  BY <1>3, <1>6, <1>7 DEF IsText
<1>10. f[q1] = <<m>>
  <2>1. Before(s, q1, mid)
    BY DEF Before
  <2>2. LastAt(s, f, q1, mid, p2, u, m, q2, post)
    BY <1>1, <1>3, <1>4, <1>6, <1>7, <1>9, <2>1 DEF LastAt
  <2> QED
    BY <2>2, LastRead
<1>11. f[1] = f[p1]
  <2>1. SkipsAt(s, f, 1, pre, p1)
    BY <1>1, <1>3, <1>4, <1>6, <1>7, <1>9 DEF SkipsAt
  <2> QED
    BY <2>1, CleanSkips
<1>12. f[p1] = <<n>> \o f[q1]
  <2>1. ~Is(s, p1 - 1, Words)
    <3>1. ~Is(s, 1 + Len(pre) - 1, Words)
      BY <1>1, <1>6, <1>7, <1>8, <1>9, CleanBefore
    <3> QED
      BY <1>6, <3>1
  <2>2. Ends(s, q1)
    <3>1. s[p2] = u[1] /\ u[1][1] = "digits"
      <4>1. 1 \in 1 .. Len(u) /\ p2 + 1 - 1 = p2
        BY <1>7
      <4>2. s[p2] = u[1]
        BY <1>6, <4>1, Zenon DEF At
      <4> QED
        BY <4>2 DEF ReadAs
    <3>2. ~Is(s, p2, {",", ".", "k"})
      BY <3>1 DEF Is
    <3>3. After(s, q1, mid)
      BY <1>6, <3>2 DEF After
    <3> QED
      BY <1>1, <1>6, <1>7, <3>3, CleanEnds
  <2>3. Ends(s, p1 + Len(w))
    BY <1>6, <2>2
  <2>4. f[p1] = <<n>> \o f[p1 + Len(w)]
    <3>1. TakesAt(s, f, p1, w, n)
      BY <1>3, <1>4, <1>6, <1>9, <2>1, <2>3 DEF TakesAt
    <3> QED
      BY <3>1, Takes
  <2> QED
    BY <1>6, <2>4
<1>13. f[1] = <<n>> \o <<m>>
  BY <1>10, <1>11, <1>12
<1>14. <<n>> \o <<m>> = <<n, m>>
  BY JoinTwo
<1> QED
  BY <1>4, <1>13, <1>14 DEF s

-----------------------------------------------------------------------------
Has(v, F) == \E i \in 1 .. Len(v) : v[i][1] \in F

(* What is put together from clean parts is clean; what a part has, it has. *)
LEMMA Joined ==
    ASSUME NEW S, NEW v \in Seq(S), NEW w \in Seq(S)
    PROVE  /\ v \o w \in Seq(S)
           /\ Clean(v) /\ Clean(w) => Clean(v \o w)
           /\ Len(w) > 0 /\ NotLastWord(w) => Len(v \o w) > 0 /\ NotLastWord(v \o w)
           /\ \A F : Has(v, F) \/ Has(w, F) => Has(v \o w, F)
<1> DEFINE u == v \o w
           l == Len(v)
           n == Len(w)
<1>1. /\ u \in Seq(S) /\ Len(u) = l + n
      /\ \A i \in 1 .. l : u[i] = v[i]
      /\ \A i \in 1 .. n : u[l + i] = w[i]
  BY Put
<1>2. l \in Nat /\ n \in Nat
  BY Lengths
<1> HIDE DEF u, l, n
<1>3. ASSUME Clean(v), Clean(w), NEW i \in 1 .. Len(u)
      PROVE  u[i][1] \notin {"digits", ",", ".", "k"}
  <2>1. i \in 1 .. l \/ (i - l \in 1 .. n /\ l + (i - l) = i)
    BY <1>1, <1>2
  <2>2. CASE i \in 1 .. l
    BY <1>1, <1>3, <2>2 DEF Clean, l
  <2>3. CASE i - l \in 1 .. n /\ l + (i - l) = i
    <3>1. u[i] = w[i - l]
      BY <1>1, <2>3
    <3> QED
      BY <1>3, <2>3, <3>1 DEF Clean, n
  <2> QED
    BY <2>1, <2>2, <2>3
<1>4. Clean(v) /\ Clean(w) => Clean(u)
  BY <1>3 DEF Clean
<1>5. n > 0 /\ NotLastWord(w) => Len(u) > 0 /\ NotLastWord(u)
  <2>1. ASSUME n > 0, NotLastWord(w) PROVE Len(u) > 0 /\ NotLastWord(u)
    <3>1. Len(u) > 0 /\ n \in 1 .. n /\ Len(u) = l + n
      BY <1>1, <1>2, <2>1
    <3>2. u[Len(u)] = w[n]
      BY <1>1, <3>1
    <3>3. w[n][1] \notin Words
      BY <2>1 DEF NotLastWord, n
    <3> QED
      BY <3>1, <3>2, <3>3 DEF NotLastWord
  <2> QED
    BY <2>1
<1>6. ASSUME NEW F, Has(v, F) PROVE Has(u, F)
  <2>1. PICK i \in 1 .. l : v[i][1] \in F
    BY <1>6 DEF Has, l
  <2>2. i \in 1 .. Len(u) /\ u[i] = v[i]
    BY <1>1, <1>2
  <2> QED
    BY <2>1, <2>2 DEF Has
<1>7. ASSUME NEW F, Has(w, F) PROVE Has(u, F)
  <2>1. PICK i \in 1 .. n : w[i][1] \in F
    BY <1>7 DEF Has, n
  <2>2. l + i \in 1 .. Len(u) /\ u[l + i] = w[i]
    BY <1>1, <1>2
  <2> QED
    BY <2>1, <2>2 DEF Has
<1> QED
  BY <1>1, <1>4, <1>5, <1>6, <1>7 DEF u, n

(* The currencies                                                          *)
Kinds(F) == {"digits", ",", ".", " ", "-", "k", "x"} \cup F

LEMMA CurrenciesAre ==
    /\ DOMAIN Currencies = 1 .. 4
    /\ Currencies[1] = "USD" /\ Currencies[2] = "EUR"
    /\ Currencies[3] = "GBP" /\ Currencies[4] = "JPY"
    /\ Symbols[1] = "dollar" /\ Symbols[2] = "euro"
    /\ Symbols[3] = "pound" /\ Symbols[4] = "yen"
    /\ \A n \in 1 .. 4 : n = 1 \/ n = 2 \/ n = 3 \/ n = 4
  BY DEF Currencies, Symbols

(* No sign is a currency, and no currency is known by another's forms.      *)
LEMMA FormsDiffer ==
    /\ \A n \in 1 .. 4 : \A d \in Forms(n) :
           d \notin {"digits", ",", ".", " ", "-", "k", "x"}
    /\ \A n, m \in 1 .. 4 : \A d \in Forms(n) : d \in Forms(m) => n = m
<1>1. /\ Forms(1) = {"dollar", "USD"} /\ Forms(2) = {"euro", "EUR"}
      /\ Forms(3) = {"pound", "GBP"} /\ Forms(4) = {"yen", "JPY"}
  BY CurrenciesAre DEF Forms
<1>2. \A n \in 1 .. 4 : n = 1 \/ n = 2 \/ n = 3 \/ n = 4
  OBVIOUS
<1>3. \A n \in 1 .. 4 : \A d \in Forms(n) :
          d \notin {"digits", ",", ".", " ", "-", "k", "x"}
  BY <1>1, <1>2
<1>4. \A n, m \in 1 .. 4 : \A d \in Forms(n) : d \in Forms(m) => n = m
  BY <1>1, <1>2
<1> QED
  BY <1>3, <1>4

(* Neither the signs nor the symbols are words.                             *)
LEMMA NoWords ==
    /\ " " \notin Words /\ "-" \notin Words
    /\ \A n \in 1 .. 4 : Symbols[n] \notin Words
<1>1. Words = {"k", "x", "USD", "EUR", "GBP", "JPY"}
  <2>1. \A d : (\E n \in DOMAIN Currencies : d = Currencies[n])
                 <=> d \in {"USD", "EUR", "GBP", "JPY"}
    BY CurrenciesAre
  <2> QED
    BY <2>1 DEF Words
<1>2. \A n \in 1 .. 4 : Symbols[n] \in {"dollar", "euro", "pound", "yen"}
  BY CurrenciesAre
<1> QED
  BY <1>1, <1>2

(* A text that has one currency is in it.                                   *)
LEMMA CurrencyIs ==
    ASSUME NEW k \in DOMAIN Currencies, NEW s \in Seq(Tokens(Forms(k))), Has(s, Forms(k))
    PROVE  CurrencyIn(s) = Currencies[k]
<1> DEFINE F == Forms(k)
           found == {n \in DOMAIN Currencies : \E p \in DOMAIN s : s[p][1] \in Forms(n)}
<1>1. s \in Seq(Tokens(F)) /\ Has(s, F)
  OBVIOUS
<1>2. k \in 1 .. 4
  BY CurrenciesAre
<1>3. DOMAIN s = 1 .. Len(s)
  BY Lengths
<1> HIDE DEF F
<1>4. \A p \in DOMAIN s : s[p][1] \in Kinds(F)
  <2>1. \A p \in DOMAIN s : s[p] \in Tokens(F)
    BY <1>1
  <2> QED
    BY <2>1 DEF Tokens, Kinds
<1>5. k \in found
  BY <1>1, <1>3 DEF Has, F
<1>6. ASSUME NEW n \in found PROVE n = k
  <2>1. PICK p \in DOMAIN s : s[p][1] \in Forms(n)
    OBVIOUS
  <2>2. n \in 1 .. 4 /\ s[p][1] \in Kinds(F)
    BY <1>4, <2>1, CurrenciesAre
  <2>3. s[p][1] \in F
    BY <2>1, <2>2, FormsDiffer DEF Kinds
  <2> QED
    BY <1>2, <2>1, <2>2, <2>3, FormsDiffer DEF F
<1>7. CurrencyIn(s) = IF found = {} THEN Absent
                      ELSE Currencies[CHOOSE n \in found : \A m \in found : n <= m]
  BY Zenon DEF CurrencyIn
<1> HIDE DEF found
<1>8. found = {k}
  BY <1>5, <1>6
<1>9. k <= k
  BY <1>2
<1>10. (CHOOSE n \in found : \A m \in found : n <= m) = k
  BY <1>8, <1>9
<1> QED
  BY <1>7, <1>8, <1>10

(* What is returned for the amounts read                                   *)
Agrees(read, amounts, currency) ==
    /\ {read[1], read[2]} \ {Absent} = amounts
    /\ read[2] # Absent => read[1] <= read[2]
    /\ read[3] = currency

(* One number is the lowest amount and no highest.                          *)
LEMMA ParsedOne ==
    ASSUME NEW s, NEW x \in Nat, Numbers(s) = <<x>>
    PROVE  Agrees(Parsed(s), {x}, CurrencyIn(s))
<1> DEFINE c == CurrencyIn(s)
<1>1. Len(<<x>>) = 1 /\ <<x>>[1] = x
  OBVIOUS
<1>2. Parsed(s) = <<x, Absent, c>>
  BY <1>1 DEF Parsed
<1> HIDE DEF c
<1>3. x # Absent
  BY SalaryAssumption
<1> QED
  BY <1>2, <1>3 DEF Agrees, c

(* Of two numbers the lower is the lowest, the other the highest amount.    *)
LEMMA ParsedTwo ==
    ASSUME NEW s, NEW x \in Nat, NEW y \in Nat, Numbers(s) = <<x, y>>
    PROVE  Agrees(Parsed(s), {x, y}, CurrencyIn(s))
<1> DEFINE c == CurrencyIn(s)
           two == {x, y}
           least == CHOOSE n \in two : \A m \in two : n <= m
           most == CHOOSE n \in two : \A m \in two : m <= n
<1>1. Len(<<x, y>>) = 2 /\ <<x, y>>[1] = x /\ <<x, y>>[2] = y
  OBVIOUS
<1>2. Parsed(s) = <<least, most, c>>
  BY <1>1 DEF Parsed
<1>3. least \in two /\ \A m \in two : least <= m
  <2>1. \E n \in two : \A m \in two : n <= m
    OBVIOUS
  <2> QED
    BY <2>1, Zenon
<1>4. most \in two /\ \A m \in two : m <= most
  <2>1. \E n \in two : \A m \in two : m <= n
    OBVIOUS
  <2> QED
    BY <2>1, Zenon
<1> HIDE DEF c, least, most
<1>5. x # Absent /\ y # Absent
  BY SalaryAssumption
<1>6. least <= most /\ {least, most} = {x, y} /\ least # Absent /\ most # Absent
  BY <1>3, <1>4, <1>5
<1>7. /\ Parsed(s)[1] = least /\ Parsed(s)[2] = most /\ Parsed(s)[3] = c
  BY <1>2
<1>8. {least, most} \ {Absent} = {x, y}
  BY <1>6
<1> QED
  BY <1>6, <1>7, <1>8 DEF Agrees, c

-----------------------------------------------------------------------------
(* What stands around the amounts of a posting                             *)
LEMMA Signs ==
    ASSUME NEW k \in DOMAIN Currencies
    PROVE  LET F == Forms(k)
               T == Tokens(F)
           IN  /\ \A d \in {" ", "-", "x"} \cup F : Sign(d) \in T /\ Sign(d)[1] = d
               /\ \A d \in {" ", "-", "x"} \cup F : d \notin {"digits", ",", ".", "k"}
               /\ Symbols[k] \in F /\ Currencies[k] \in F
               /\ {" ", "-", Symbols[k]} \cap Words = {}
<1> DEFINE F == Forms(k)
<1>1. k \in 1 .. 4 /\ \A d \in F : d \notin {"digits", ",", ".", " ", "-", "k", "x"}
  BY CurrenciesAre, FormsDiffer
<1>2. Symbols[k] \in F /\ Currencies[k] \in F
  BY DEF Forms
<1>3. {" ", "-", Symbols[k]} \cap Words = {}
  BY <1>1, NoWords
<1> HIDE DEF F
<1>4. \A d \in {" ", "-", "x"} \cup F : Sign(d) \in Tokens(F) /\ Sign(d)[1] = d
  BY TokensAre
<1>5. \A d \in {" ", "-", "x"} \cup F : d \notin {"digits", ",", ".", "k"}
  BY <1>1
<1> QED
  BY <1>2, <1>3, <1>4, <1>5 DEF F

Neutral(t) == t[1] \notin {"digits", ",", ".", "k"}
NoWord(t) == t[1] \notin Words

LEMMA OneSign ==
    ASSUME NEW S, NEW t \in S, Neutral(t)
    PROVE  /\ <<t>> \in Seq(S) /\ Len(<<t>>) = 1 /\ Len(<<t>>) > 0 /\ Clean(<<t>>)
           /\ NoWord(t) => NotLastWord(<<t>>)
           /\ \A F : t[1] \in F => Has(<<t>>, F)
<1> DEFINE v == <<t>>
<1>1. v \in Seq(S) /\ Len(v) = 1 /\ v[1] = t
  OBVIOUS
<1> HIDE DEF v
<1>2. \A i \in 1 .. Len(v) : i = 1
  BY <1>1
<1>3. Clean(v)
  BY <1>1, <1>2 DEF Clean, Neutral
<1>4. NoWord(t) => NotLastWord(v)
  BY <1>1 DEF NotLastWord, NoWord
<1>5. \A F : t[1] \in F => Has(v, F)
  <2>1. 1 \in 1 .. Len(v)
    BY <1>1
  <2> QED
    BY <1>1, <2>1 DEF Has
<1>6. Len(v) > 0
  BY <1>1
<1> QED
  BY <1>1, <1>3, <1>4, <1>5, <1>6 DEF v

LEMMA NoSign == ASSUME NEW S PROVE IsFiller(S, <<>>)
<1>1. <<>> \in Seq(S) /\ Len(<<>>) = 0
  OBVIOUS
<1> DEFINE v == <<>>
<1>2. v \in Seq(S) /\ Len(v) = 0
  BY <1>1
<1> HIDE DEF v
<1>3. \A i \in 1 .. Len(v) : FALSE
  BY <1>2
<1>4. ~(Len(v) > 0)
  BY <1>2
<1> QED
  BY <1>2, <1>3, <1>4 DEF IsFiller, Clean, NotLastWord, v

LEMMA ThreeSigns ==
    ASSUME NEW S, NEW a \in S, NEW b \in S, NEW d \in S,
           Neutral(a), Neutral(b), Neutral(d), NoWord(d)
    PROVE  IsFiller(S, <<a, b, d>>) /\ Len(<<a, b, d>>) > 0
<1> DEFINE v == <<a, b, d>>
<1>1. v \in Seq(S) /\ Len(v) = 3 /\ v[1] = a /\ v[2] = b /\ v[3] = d
  OBVIOUS
<1> HIDE DEF v
<1>2. \A i \in 1 .. Len(v) : i = 1 \/ i = 2 \/ i = 3
  BY <1>1
<1>3. Clean(v)
  BY <1>1, <1>2 DEF Clean, Neutral
<1>4. NotLastWord(v) /\ Len(v) > 0
  BY <1>1 DEF NotLastWord, NoWord
<1> QED
  BY <1>1, <1>3, <1>4 DEF IsFiller, v

LEMMA TwoSigns ==
    ASSUME NEW S, NEW a \in S, NEW b \in S, Neutral(a), Neutral(b)
    PROVE  /\ <<a, b>> \in Seq(S) /\ Clean(<<a, b>>) /\ Len(<<a, b>>) > 0
           /\ NoWord(b) => NotLastWord(<<a, b>>)
           /\ \A F : a[1] \in F \/ b[1] \in F => Has(<<a, b>>, F)
<1> DEFINE v == <<a, b>>
<1>1. v \in Seq(S) /\ Len(v) = 2 /\ v[1] = a /\ v[2] = b
  OBVIOUS
<1> HIDE DEF v
<1>2. \A i \in 1 .. Len(v) : i = 1 \/ i = 2
  BY <1>1
<1>3. Clean(v)
  BY <1>1, <1>2 DEF Clean, Neutral
<1>4. NoWord(b) => NotLastWord(v)
  BY <1>1 DEF NotLastWord, NoWord
<1>5. \A F : a[1] \in F \/ b[1] \in F => Has(v, F)
  <2>1. 1 \in 1 .. Len(v) /\ 2 \in 1 .. Len(v)
    BY <1>1
  <2> QED
    BY <1>1, <2>1 DEF Has
<1>6. Len(v) > 0
  BY <1>1
<1> QED
  BY <1>1, <1>3, <1>4, <1>5, <1>6 DEF v

(* The dashes, the rests and the currency are clean.                        *)
LEMMA DashIs ==
    ASSUME NEW k \in DOMAIN Currencies, NEW dash \in Dashes
    PROVE  IsFiller(Tokens(Forms(k)), dash) /\ Len(dash) > 0
<1> DEFINE T == Tokens(Forms(k))
           a == Sign(" ")
           b == Sign("-")
           d == Sign("x")
<1>1. /\ a \in T /\ b \in T /\ d \in T
      /\ Neutral(a) /\ Neutral(b) /\ Neutral(d) /\ NoWord(a) /\ NoWord(b)
  BY Signs DEF Neutral, NoWord
<1>2. dash = <<b>> \/ dash = <<a, b, a>> \/ dash = <<a, d, a>>
  BY DEF Dashes
<1> HIDE DEF T, a, b, d
<1>3. IsFiller(T, <<b>>) /\ Len(<<b>>) > 0
  BY <1>1, OneSign DEF IsFiller
<1>4. IsFiller(T, <<a, b, a>>) /\ Len(<<a, b, a>>) > 0
  BY <1>1, ThreeSigns
<1>5. IsFiller(T, <<a, d, a>>) /\ Len(<<a, d, a>>) > 0
  BY <1>1, ThreeSigns
<1> QED
  BY <1>2, <1>3, <1>4, <1>5 DEF T

LEMMA RestIs ==
    ASSUME NEW k \in DOMAIN Currencies, NEW rest \in Rests
    PROVE  rest \in Seq(Tokens(Forms(k))) /\ Clean(rest)
<1> DEFINE T == Tokens(Forms(k))
           a == Sign(" ")
           d == Sign("x")
<1>1. a \in T /\ d \in T /\ Neutral(a) /\ Neutral(d)
  BY Signs DEF Neutral
<1>2. rest = <<>> \/ rest = <<a, d>>
  BY DEF Rests
<1> HIDE DEF T, a, d
<1>3. <<>> \in Seq(T) /\ Clean(<<>>)
  BY NoSign DEF IsFiller
<1>4. <<a, d>> \in Seq(T) /\ Clean(<<a, d>>)
  BY <1>1, TwoSigns
<1> QED
  BY <1>2, <1>3, <1>4 DEF T

LEMMA LeadIs ==
    ASSUME NEW k \in DOMAIN Currencies, NEW lead \in Leads(k)
    PROVE  /\ IsFiller(Tokens(Forms(k)), lead) /\ Len(lead) > 0
           /\ Has(lead, Forms(k))
<1> DEFINE F == Forms(k)
           T == Tokens(F)
           a == Sign(Symbols[k])
           b == Sign(Currencies[k])
           d == Sign(" ")
<1>1. /\ a \in T /\ b \in T /\ d \in T /\ a[1] \in F /\ b[1] \in F
      /\ Neutral(a) /\ Neutral(b) /\ Neutral(d) /\ NoWord(a) /\ NoWord(d)
  BY Signs DEF Neutral, NoWord
<1>2. lead = <<a>> \/ lead = <<b, d>>
  BY DEF Leads
<1> HIDE DEF F, T, a, b, d
<1>3. IsFiller(T, <<a>>) /\ Len(<<a>>) > 0 /\ Has(<<a>>, F)
  BY <1>1, OneSign DEF IsFiller
<1>4. IsFiller(T, <<b, d>>) /\ Len(<<b, d>>) > 0 /\ Has(<<b, d>>, F)
  BY <1>1, TwoSigns DEF IsFiller
<1> QED
  BY <1>2, <1>3, <1>4 DEF F, T

LEMMA TailIs ==
    ASSUME NEW k \in DOMAIN Currencies, NEW c \in Forms(k)
    PROVE  LET tail == <<Sign(" "), Sign(c)>>
           IN  tail \in Seq(Tokens(Forms(k))) /\ Clean(tail) /\ Has(tail, Forms(k))
<1> DEFINE F == Forms(k)
           T == Tokens(F)
           a == Sign(" ")
           b == Sign(c)
<1>1. a \in T /\ b \in T /\ b[1] \in F /\ Neutral(a) /\ Neutral(b)
  BY Signs DEF Neutral
<1> HIDE DEF F, T, a, b
<1>2. <<a, b>> \in Seq(T) /\ Clean(<<a, b>>) /\ Has(<<a, b>>, F)
  BY <1>1, TwoSigns
<1> QED
  BY <1>2 DEF F, T, a, b

(* So is everything around the amounts of a range, and it has the currency. *)
LEMMA FrameIs ==
    ASSUME NEW k \in DOMAIN Currencies, NEW dash \in Dashes, NEW rest \in Rests,
           NEW frame \in Frames(k, dash, rest)
    PROVE  LET F == Forms(k)
               T == Tokens(F)
           IN  /\ IsFiller(T, frame[1]) /\ IsFiller(T, frame[2]) /\ Len(frame[2]) > 0
               /\ frame[3] \in Seq(T) /\ Clean(frame[3])
               /\ Has(frame[1], F) \/ Has(frame[2], F) \/ Has(frame[3], F)
<1> DEFINE F == Forms(k)
           T == Tokens(F)
<1>1. IsFiller(T, dash) /\ Len(dash) > 0
  BY DashIs
<1>2. rest \in Seq(T) /\ Clean(rest)
  BY RestIs
<1>3. IsFiller(T, <<>>)
  BY NoSign
<1>4. \A lead \in Leads(k) : IsFiller(T, lead) /\ Len(lead) > 0 /\ Has(lead, F)
  BY LeadIs
<1>5. \A c \in F : LET tail == <<Sign(" "), Sign(c)>>
                    IN  tail \in Seq(T) /\ Clean(tail) /\ Has(tail, F)
  BY TailIs
<1>6. \/ \E lead \in Leads(k) : frame = <<lead, dash \o lead, rest>>
      \/ \E lead \in Leads(k) : frame = <<lead, dash, rest>>
      \/ \E c \in F : frame = <<<<>>, dash, <<Sign(" "), Sign(c)>> \o rest>>
  BY Zenon DEF Frames
<1> HIDE DEF F, T
<1>7. ASSUME NEW lead \in Leads(k), frame = <<lead, dash \o lead, rest>>
      PROVE  /\ IsFiller(T, frame[1]) /\ IsFiller(T, frame[2]) /\ Len(frame[2]) > 0
             /\ frame[3] \in Seq(T) /\ Clean(frame[3]) /\ Has(frame[1], F)
  <2>1. frame[1] = lead /\ frame[2] = dash \o lead /\ frame[3] = rest
    BY <1>7
  <2>2. IsFiller(T, lead) /\ Len(lead) > 0 /\ Has(lead, F)
    BY <1>4
  <2>3. IsFiller(T, dash \o lead) /\ Len(dash \o lead) > 0
    BY <1>1, <2>2, Joined DEF IsFiller
  <2> QED
    BY <1>2, <2>1, <2>2, <2>3
<1>8. ASSUME NEW lead \in Leads(k), frame = <<lead, dash, rest>>
      PROVE  /\ IsFiller(T, frame[1]) /\ IsFiller(T, frame[2]) /\ Len(frame[2]) > 0
             /\ frame[3] \in Seq(T) /\ Clean(frame[3]) /\ Has(frame[1], F)
  <2>1. frame[1] = lead /\ frame[2] = dash /\ frame[3] = rest
    BY <1>8
  <2> QED
    BY <1>1, <1>2, <1>4, <2>1
<1>9. ASSUME NEW c \in F, frame = <<<<>>, dash, <<Sign(" "), Sign(c)>> \o rest>>
      PROVE  /\ IsFiller(T, frame[1]) /\ IsFiller(T, frame[2]) /\ Len(frame[2]) > 0
             /\ frame[3] \in Seq(T) /\ Clean(frame[3]) /\ Has(frame[3], F)
  <2> DEFINE tail == <<Sign(" "), Sign(c)>>
  <2>1. tail \in Seq(T) /\ Clean(tail) /\ Has(tail, F)
    BY <1>5
  <2>2. frame = <<<<>>, dash, tail \o rest>>
    BY <1>9
  <2> HIDE DEF tail
  <2>3. frame[1] = <<>> /\ frame[2] = dash /\ frame[3] = tail \o rest
    BY <2>2
  <2>4. tail \o rest \in Seq(T) /\ Clean(tail \o rest) /\ Has(tail \o rest, F)
    BY <1>2, <2>1, Joined
  <2> QED
    BY <1>1, <1>3, <2>3, <2>4
<1> QED
  BY <1>6, <1>7, <1>8, <1>9 DEF F, T

(* A posting with an amount, and one with two                              *)
LEMMA AmountTokensAre ==
    ASSUME NEW F, NEW w, NEW n, ReadAs(w, n)
    PROVE  w \in Seq(Tokens(F))
<1>1. w \in Seq(AmountTokens)
  BY DEF ReadAs
<1>2. \A t \in AmountTokens : t \in Tokens(F)
  BY DEF AmountTokens, Tokens
<1> QED
  BY <1>1, <1>2

LEMMA OneAnswer ==
    ASSUME NEW k \in DOMAIN Currencies, NEW pre \in Leads(k), NEW rest \in Rests,
           NEW a \in Nat, NEW first \in Written(a)
    PROVE  Agrees(Parsed(pre \o first \o rest), {10 * a}, Currencies[k])
<1> DEFINE F == Forms(k)
           T == Tokens(F)
           s == pre \o first \o rest
           x == 10 * a
<1>1. ReadAs(first, x) /\ first \in Seq(T) /\ x \in Nat
  BY WrittenReads, AmountTokensAre
<1>2. IsFiller(T, pre) /\ Has(pre, F) /\ pre \in Seq(T)
  BY LeadIs DEF IsFiller
<1>3. rest \in Seq(T) /\ Clean(rest)
  BY RestIs
<1> HIDE DEF x
<1>4. Numbers(s) = <<x>>
  BY <1>1, <1>2, <1>3, OneRead
<1>5. s \in Seq(T) /\ Has(s, F)
  <2>1. pre \o first \in Seq(T) /\ Has(pre \o first, F)
    BY <1>1, <1>2, Joined
  <2> QED
    BY <1>3, <2>1, Joined
<1>6. CurrencyIn(s) = Currencies[k]
  BY <1>5, CurrencyIs
<1> HIDE DEF s
<1>7. Agrees(Parsed(s), {x}, CurrencyIn(s))
  BY <1>1, <1>4, ParsedOne
<1> QED
  BY <1>6, <1>7 DEF s, x

LEMMA TwoAnswers ==
    ASSUME NEW k \in DOMAIN Currencies, NEW dash \in Dashes, NEW rest \in Rests,
           NEW frame \in Frames(k, dash, rest),
           NEW a \in Nat, NEW first \in Written(a), NEW b \in Nat, NEW last \in Written(b)
    PROVE  Agrees(Parsed(frame[1] \o first \o frame[2] \o last \o frame[3]),
                   {10 * a, 10 * b}, Currencies[k])
<1> DEFINE F == Forms(k)
           T == Tokens(F)
           pre == frame[1]
           mid == frame[2]
           post == frame[3]
           s == pre \o first \o mid \o last \o post
           x == 10 * a
           y == 10 * b
<1>1. ReadAs(first, x) /\ first \in Seq(T) /\ x \in Nat
  BY WrittenReads, AmountTokensAre
<1>2. ReadAs(last, y) /\ last \in Seq(T) /\ y \in Nat
  BY WrittenReads, AmountTokensAre
<1>3. /\ IsFiller(T, pre) /\ IsFiller(T, mid) /\ Len(mid) > 0
      /\ post \in Seq(T) /\ Clean(post)
      /\ Has(pre, F) \/ Has(mid, F) \/ Has(post, F)
  BY FrameIs
<1>4. pre \in Seq(T) /\ mid \in Seq(T)
  BY <1>3 DEF IsFiller
<1> HIDE DEF x, y, pre, mid, post
<1>5. Numbers(s) = <<x, y>>
  BY <1>1, <1>2, <1>3, TwoRead
<1>6. s \in Seq(T) /\ Has(s, F)
  <2>1. pre \o first \in Seq(T) /\ (Has(pre, F) => Has(pre \o first, F))
    BY <1>1, <1>4, Joined
  <2>2. /\ pre \o first \o mid \in Seq(T)
        /\ Has(pre \o first, F) \/ Has(mid, F) => Has(pre \o first \o mid, F)
    BY <1>4, <2>1, Joined
  <2>3. /\ pre \o first \o mid \o last \in Seq(T)
        /\ Has(pre \o first \o mid, F) => Has(pre \o first \o mid \o last, F)
    BY <1>2, <2>2, Joined
  <2>4. /\ s \in Seq(T)
        /\ Has(pre \o first \o mid \o last, F) \/ Has(post, F) => Has(s, F)
    BY <1>3, <2>3, Joined
  <2> QED
    BY <1>3, <2>1, <2>2, <2>3, <2>4
<1>7. CurrencyIn(s) = Currencies[k]
  BY <1>6, CurrencyIs
<1> HIDE DEF s
<1>8. Agrees(Parsed(s), {x, y}, CurrencyIn(s))
  BY <1>1, <1>2, <1>5, ParsedTwo
<1> QED
  BY <1>7, <1>8 DEF s, x, y, pre, mid, post
-----------------------------------------------------------------------------
(* What the posting quotes is what parse_salary answers for it, and it is  *)
(* only asked about the posting.                                           *)
QuoteRead(q) == Agrees(Parsed(q.text), {10 * n : n \in q.amounts}, q.currency)

SalaryInv ==
    /\ quote # Absent => QuoteRead(quote)
    /\ salary # Absent => quote # Absent /\ salary = Parsed(quote.text)

(* Whatever a posting quotes, parse_salary answers it.                      *)
LEMMA QuoteAnswered == SalaryInv /\ Quote => SalaryInv'
<1> SUFFICES ASSUME SalaryInv, Quote PROVE SalaryInv'
  OBVIOUS
<1>1. salary = Absent /\ salary' = Absent
  BY DEF SalaryInv, Quote
<1>2. PICK a \in Amounts, b \in Amounts, k \in DOMAIN Currencies, dash \in Dashes, rest \in Rests :
      \E first \in Written(a), last \in Written(b) :
          \/ \E frame \in Frames(k, dash, rest) :
                quote' = [amounts |-> {a, b}, currency |-> Currencies[k],
                          text |-> frame[1] \o first \o frame[2] \o last \o frame[3]]
          \/ \E lead \in Leads(k) :
                quote' = [amounts |-> {a}, currency |-> Currencies[k],
                          text |-> lead \o first \o rest]
  BY Zenon DEF Quote
<1>3. PICK first \in Written(a), last \in Written(b) :
          \/ \E frame \in Frames(k, dash, rest) :
                quote' = [amounts |-> {a, b}, currency |-> Currencies[k],
                          text |-> frame[1] \o first \o frame[2] \o last \o frame[3]]
          \/ \E lead \in Leads(k) :
                quote' = [amounts |-> {a}, currency |-> Currencies[k],
                          text |-> lead \o first \o rest]
  BY <1>2
<1>4. a \in Nat /\ b \in Nat
  BY SalaryAssumption
<1>5. QuoteRead(quote')
  <2>1. ASSUME NEW frame \in Frames(k, dash, rest),
               quote' = [amounts |-> {a, b}, currency |-> Currencies[k],
                         text |-> frame[1] \o first \o frame[2] \o last \o frame[3]]
        PROVE  QuoteRead(quote')
    <3> DEFINE s == frame[1] \o first \o frame[2] \o last \o frame[3]
    <3>1. Agrees(Parsed(s), {10 * a, 10 * b}, Currencies[k])
      BY <1>4, TwoAnswers
    <3>2. quote' = [amounts |-> {a, b}, currency |-> Currencies[k], text |-> s]
      BY <2>1
    <3> HIDE DEF s
    <3>3. quote'.text = s /\ quote'.amounts = {a, b} /\ quote'.currency = Currencies[k]
      BY <3>2
    <3>4. {10 * n : n \in {a, b}} = {10 * a, 10 * b}
      OBVIOUS
    <3> QED
      BY <3>1, <3>3, <3>4 DEF QuoteRead
  <2>2. ASSUME NEW lead \in Leads(k),
               quote' = [amounts |-> {a}, currency |-> Currencies[k],
                         text |-> lead \o first \o rest]
        PROVE  QuoteRead(quote')
    <3> DEFINE s == lead \o first \o rest
    <3>1. Agrees(Parsed(s), {10 * a}, Currencies[k])
      BY <1>4, OneAnswer
    <3>2. quote' = [amounts |-> {a}, currency |-> Currencies[k], text |-> s]
      BY <2>2
    <3> HIDE DEF s
    <3>3. quote'.text = s /\ quote'.amounts = {a} /\ quote'.currency = Currencies[k]
      BY <3>2
    <3>4. {10 * n : n \in {a}} = {10 * a}
      OBVIOUS
    <3> QED
      BY <3>1, <3>3, <3>4 DEF QuoteRead
  <2> QED
    BY <1>3, <2>1, <2>2
<1> QED
  BY <1>1, <1>5 DEF SalaryInv

(* What is stored is what the posting quotes: its lowest and its highest   *)
(* amount, or its only one, in its currency.                               *)
THEOREM SalaryRead == SalarySpec => []SalaryIsAsQuoted
<1>1. SalaryInit => SalaryInv
  BY DEF SalaryInit, SalaryInv
<1>2. SalaryInv /\ [SalaryNext]_salaryvars => SalaryInv'
  <2> SUFFICES ASSUME SalaryInv, [SalaryNext]_salaryvars PROVE SalaryInv'
    OBVIOUS
  <2>1. CASE Quote
    BY <2>1, QuoteAnswered
  <2>2. CASE Parse
    BY <2>2 DEF Parse, SalaryInv
  <2>3. CASE UNCHANGED salaryvars
    BY <2>3 DEF salaryvars, SalaryInv
  <2> QED
    BY <2>1, <2>2, <2>3 DEF SalaryNext
<1>3. SalaryInv => SalaryIsAsQuoted
  BY DEF SalaryInv, SalaryIsAsQuoted, QuoteRead, Agrees
<1> QED
  BY <1>1, <1>2, <1>3, PTL DEF SalarySpec
=============================================================================
