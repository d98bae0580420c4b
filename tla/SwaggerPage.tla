----------------------------- MODULE SwaggerPage -----------------------------
(***************************************************************************)
(* The API documentation in a browser: /swagger and what it loads.         *)
(*                                                                         *)
(* The page runs three scripts in order; the last one leaves a handler for *)
(* the load event, which creates the user interface out of the other two   *)
(* and has it request /openapi.yml.  The server is stopped and started in  *)
(* between, perhaps as a later release; the browser keeps what it is told  *)
(* to keep.  Style sheets and icons decide nothing and are left out.       *)
(***************************************************************************)
EXTENDS Naturals

CONSTANTS
    MaxVersion,     \* the releases of the server are 1..MaxVersion
    MaxVisits       \* how often the page is opened or reloaded

ASSUME BoundsTyped == MaxVersion \in Nat \ {0} /\ MaxVisits \in Nat

\* The scripts of index.html, in the order of their tags; the load event comes
\* after them.
Scripts == {"swagger-ui-bundle.js", "swagger-ui-standalone-preset.js",
            "swagger-initializer.js"}
FirstScript == "swagger-ui-bundle.js"
After(script) ==
    CASE script = "swagger-ui-bundle.js" -> "swagger-ui-standalone-preset.js"
      [] script = "swagger-ui-standalone-preset.js" -> "swagger-initializer.js"
      [] script = "swagger-initializer.js" -> "onload"

\* What swagger_asset serves of this
Assets == Scripts \cup {"index.html"}

Places == Scripts \cup {"none", "onload", "schema", "done"}

\* What a script or the schema is if it is not there.
Missing == 0
Releases == 1..MaxVersion

VARIABLES
    version,    \* the release that runs, or ran last
    up,         \* the server takes requests
    cache,      \* the release of each script that the browser has kept
    place,      \* how far the page is: at a script, at the load event, ...
    ran,        \* the release of each script that ran in this page
    ui,         \* window.ui exists
    schema,     \* the release of the schema on display
    started,    \* the release that served index.html
    visits,     \* how often the page was opened
    cut         \* since the cache was last empty, something came between the
                \* scripts of one page: a reload, a failure or an upgrade

server == <<version, up>>
page == <<place, ran, ui, schema, started, visits>>
vars == <<server, cache, page, cut>>

Init ==
    /\ version = 1 /\ up = TRUE
    /\ cache = [s \in Scripts |-> Missing]
    /\ place = "none"
    /\ ran = [s \in Scripts |-> Missing]
    /\ ui = FALSE
    /\ schema = Missing
    /\ started = 1
    /\ visits = 0
    /\ cut = FALSE

AtScripts == place \in Scripts

-----------------------------------------------------------------------------
(* The server.                                                             *)

ShutDown ==
    /\ up
    /\ up' = FALSE
    /\ UNCHANGED <<version, cache, page, cut>>

Start(release) ==
    /\ ~up
    /\ release \in {version, version + 1} \cap Releases
    /\ up' = TRUE
    /\ version' = release
    /\ cut' = (cut \/ (release # version /\ AtScripts))
    /\ UNCHANGED <<cache, page>>

\* Mutant: the file that is meant to be edited is not to be kept.
ImmutableButInitializer == Assets \ {"index.html", "swagger-initializer.js"}

\* The assets that swagger_asset has the browser keep for good
Immutable == Assets \ {"index.html"}

-----------------------------------------------------------------------------
(* The page.                                                               *)

\* /swagger and /swagger/ lead to /swagger/index.html, which openapi_ui serves
\* without a word about keeping it, so that it is requested every time.
Open ==
    /\ up
    /\ visits < MaxVisits
    /\ visits' = visits + 1
    /\ place' = FirstScript
    /\ ran' = [s \in Scripts |-> Missing]
    /\ ui' = FALSE
    /\ schema' = Missing
    /\ started' = version
    /\ cut' = (cut \/ AtScripts)
    /\ UNCHANGED <<server, cache>>

\* A script comes from the cache or from the server, or not at all; the page
\* goes on with the next one either way.
Run(script) ==
    /\ place = script
    /\ LET got == IF cache[script] # Missing THEN cache[script]
                  ELSE IF up THEN version ELSE Missing
       IN  /\ ran' = [ran EXCEPT ![script] = got]
           /\ cache' = IF script \in Immutable THEN [cache EXCEPT ![script] = got] ELSE cache
           /\ cut' = (cut \/ got = Missing)
    /\ place' = After(script)
    /\ UNCHANGED <<server, ui, schema, started, visits>>

Has(script) == ran[script] # Missing

\* Mutant: the handler waits until the names it uses are defined.
OnloadWhenDefined ==
    /\ place = "onload"
    /\ Has("swagger-initializer.js") =>
          Has("swagger-ui-bundle.js") /\ Has("swagger-ui-standalone-preset.js")
    /\ ui' = Has("swagger-initializer.js")
    /\ place' = IF ui' THEN "schema" ELSE "done"
    /\ UNCHANGED <<server, cache, ran, schema, started, visits, cut>>

\* The handler of swagger-initializer.js, if there is one.  It names the bundle
\* and the preset; if one of them is not defined it ends with an error.
Onload ==
    /\ place = "onload"
    /\ ui' = (/\ Has("swagger-initializer.js")
              /\ Has("swagger-ui-bundle.js")
              /\ Has("swagger-ui-standalone-preset.js"))
    /\ place' = IF ui' THEN "schema" ELSE "done"
    /\ UNCHANGED <<server, cache, ran, schema, started, visits, cut>>

\* Mutant: the schema is kept like the scripts, and is as old as they are.
ShowKeptSchema ==
    /\ place = "schema"
    /\ schema' = cache["swagger-initializer.js"]
    /\ place' = "done"
    /\ UNCHANGED <<server, cache, ran, ui, started, visits, cut>>

\* The user interface requests /openapi.yml, which may not be kept either.
ShowSchema ==
    /\ place = "schema"
    /\ schema' = IF up THEN version ELSE Missing
    /\ place' = "done"
    /\ UNCHANGED <<server, cache, ran, ui, started, visits, cut>>

\* The browser's next step with the page, for the fairness below
Load == (\E script \in Scripts : Run(script)) \/ Onload \/ ShowSchema

\* The user leaves the page and empties the cache.
EmptyCache ==
    /\ place = "done"
    /\ place' = "none"
    /\ cache' = [s \in Scripts |-> Missing]
    /\ ran' = [s \in Scripts |-> Missing]
    /\ ui' = FALSE
    /\ schema' = Missing
    /\ cut' = FALSE
    /\ UNCHANGED <<server, started, visits>>

Next ==
    \/ ShutDown
    \/ \E release \in Releases : Start(release)
    \/ Open
    \/ Load
    \/ EmptyCache

Spec == Init /\ [][Next]_vars

\* A browser goes on with the page, whatever becomes of its requests.
FairSpec == Spec /\ WF_vars(Load)

-----------------------------------------------------------------------------
(* Properties.                                                             *)

TypeOK ==
    /\ version \in Releases
    /\ up \in BOOLEAN
    /\ cache \in [Scripts -> {Missing} \cup Releases]
    /\ place \in Places
    /\ ran \in [Scripts -> {Missing} \cup Releases]
    /\ ui \in BOOLEAN
    /\ schema \in {Missing} \cup Releases
    /\ started \in Releases
    /\ visits \in 0..MaxVisits
    /\ cut \in BOOLEAN

\* The scripts of a page are of one release, that of the server or, after an
\* upgrade, an older one: they are all kept or all requested.  Only if something
\* came between the scripts of one page can a later page have a mixture.
OneRelease ==
    ~cut => \A s, t \in Scripts : Has(s) /\ Has(t) => ran[s] = ran[t]

\* The schema on display is never older than the page, however old the scripts
\* are that display it.
SchemaIsCurrent == schema # Missing => schema >= started

\* A page comes to its end even if scripts or the schema do not arrive.
PageEnds == place # "none" ~> place = "done"
=============================================================================
