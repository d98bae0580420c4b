-------------------------- MODULE SwaggerPageProofs --------------------------
(* Proofs about SwaggerPage, for any number of releases and visits. *)
EXTENDS SwaggerPage, TLAPS

\* The scripts that come before a place in the page.
Earlier(p) ==
    CASE p = "swagger-ui-standalone-preset.js" -> {"swagger-ui-bundle.js"}
      [] p = "swagger-initializer.js" ->
            {"swagger-ui-bundle.js", "swagger-ui-standalone-preset.js"}
      [] OTHER -> {}

\* Since the cache was emptied the browser has requested the first scripts, of
\* the release that runs, and no other.
Filling ==
    /\ place \in Scripts \cup {"none"}
    /\ \A s \in Scripts :
          /\ s \in Earlier(place) => cache[s] = version /\ ran[s] = version
          /\ s \notin Earlier(place) => cache[s] = Missing /\ ran[s] = Missing

\* It has kept all scripts, of one release.
Filled ==
    \E r \in Releases : \A s \in Scripts : cache[s] = r /\ ran[s] \in {Missing, r}

CacheInv == ~cut => Filling \/ Filled

-----------------------------------------------------------------------------
(* Type correctness.                                                       *)

LEMMA InitTypeOK == Init => TypeOK
<1> SUFFICES ASSUME Init
             PROVE  TypeOK
    OBVIOUS
<1>1. 1 \in Releases /\ 0 \in 0..MaxVisits
    BY BoundsTyped DEF Releases
<1>2. place \in Places
    BY DEF Init, Places
<1> QED
    BY <1>1, <1>2 DEF Init, TypeOK

\* No step breaks a type.
LEMMA TypeStep == TypeOK /\ [Next]_vars => TypeOK'
<1> SUFFICES ASSUME TypeOK, [Next]_vars
             PROVE  TypeOK'
    OBVIOUS
<1> USE BoundsTyped DEF TypeOK, Releases, server, page
<1>1. CASE ShutDown
    BY <1>1 DEF ShutDown
<1>2. ASSUME NEW release \in Releases, Start(release)
      PROVE  TypeOK'
    BY <1>2 DEF Start, AtScripts
<1>3. CASE Open
    <2>1. place' \in Places /\ visits' \in 0..MaxVisits
        BY <1>3 DEF Open, Places, FirstScript, Scripts
    <2>2. cut' \in BOOLEAN
        BY <1>3 DEF Open, AtScripts
    <2> QED
        BY <1>3, <2>1, <2>2 DEF Open
<1>4. ASSUME NEW script \in Scripts, Run(script)
      PROVE  TypeOK'
    <2> DEFINE got == IF cache[script] # Missing THEN cache[script]
                      ELSE IF up THEN version ELSE Missing
    <2>1. got \in {Missing} \cup Releases
        OBVIOUS
    <2>2. ran' = [ran EXCEPT ![script] = got] /\ cut' = (cut \/ got = Missing)
        BY <1>4 DEF Run
    <2>3. cache' = [cache EXCEPT ![script] = got] \/ cache' = cache
        BY <1>4 DEF Run
    <2>4. place' \in Places
        BY <1>4 DEF Run, After, Scripts, Places
    <2> QED
        BY <2>1, <2>2, <2>3, <2>4, <1>4 DEF Run
<1>5. CASE Onload
    BY <1>5 DEF Onload, Has, Places
<1>6. CASE ShowSchema
    BY <1>6 DEF ShowSchema, Places
<1>7. CASE EmptyCache
    BY <1>7 DEF EmptyCache, Places, Missing
<1>8. CASE UNCHANGED vars
    BY <1>8 DEF vars
<1> QED
    BY <1>1, <1>2, <1>3, <1>4, <1>5, <1>6, <1>7, <1>8 DEF Next, Load

\* SwaggerPage keeps its types: releases, places and visits stay in their bounds
\* whatever the server and the reader do.
THEOREM TypeCorrect == Spec => []TypeOK
BY InitTypeOK, TypeStep, PTL DEF Spec

-----------------------------------------------------------------------------
(* The releases in a page.                                                 *)

LEMMA InitCacheInv == Init => CacheInv
BY DEF Init, CacheInv, Filling, Earlier, Scripts

\* A script that runs is kept, of the release the others are of.
LEMMA RunKeepsCache ==
    ASSUME TypeOK, CacheInv, NEW script \in Scripts, Run(script)
    PROVE  CacheInv'
<1> SUFFICES ASSUME ~cut'
             PROVE  Filling' \/ Filled'
    BY DEF CacheInv
<1> DEFINE got == IF cache[script] # Missing THEN cache[script]
                  ELSE IF up THEN version ELSE Missing
<1>1. /\ place = script /\ place' = After(script) /\ version' = version
      /\ ran' = [ran EXCEPT ![script] = got]
      /\ cache' = [cache EXCEPT ![script] = got]
      /\ ~cut /\ got # Missing
    BY DEF Run, server, Immutable, Assets, Scripts
<1>2. CASE Filled
    <2>1. PICK r \in Releases : \A s \in Scripts : cache[s] = r /\ ran[s] \in {Missing, r}
        BY <1>2 DEF Filled
    <2>2. r # Missing
        BY DEF Releases, Missing
    <2>3. got = r
        BY <2>1, <2>2
    <2>4. \A s \in Scripts : cache'[s] = r /\ ran'[s] \in {Missing, r}
        BY <1>1, <2>1, <2>3 DEF TypeOK
    <2> QED
        BY <2>4 DEF Filled, Releases
<1>3. CASE Filling
    <2>1. script \notin Earlier(place)
        BY <1>1 DEF Earlier, Scripts
    <2>2. got = version
        BY <1>1, <1>3, <2>1 DEF Filling
    <2>3. \A s \in Scripts :
             IF s \in Earlier(place) \cup {script}
             THEN cache'[s] = version /\ ran'[s] = version
             ELSE cache'[s] = Missing /\ ran'[s] = Missing
        BY <1>1, <1>3, <2>2 DEF Filling, TypeOK
    <2>4. CASE script = "swagger-initializer.js"
        <3>1. Earlier(place) \cup {script} = Scripts
            BY <1>1, <2>4 DEF Earlier, Scripts
        <3>2. version \in Releases /\ \A s \in Scripts : cache'[s] = version /\ ran'[s] = version
            BY <2>3, <3>1 DEF TypeOK
        <3> QED
            BY <3>2 DEF Filled, Releases
    <2>5. CASE script # "swagger-initializer.js"
        <3>1. Earlier(place') = Earlier(place) \cup {script} /\ place' \in Scripts
            BY <1>1, <2>5 DEF Earlier, After, Scripts
        <3> QED
            BY <1>1, <2>3, <3>1 DEF Filling
    <2> QED
        BY <2>4, <2>5
<1> QED
    BY <1>1, <1>2, <1>3 DEF CacheInv

\* No step mixes releases in the cache unless something was cut in two.
LEMMA CacheStep == TypeOK /\ CacheInv /\ [Next]_vars => CacheInv'
<1> SUFFICES ASSUME TypeOK, CacheInv, [Next]_vars
             PROVE  CacheInv'
    OBVIOUS
<1>1. CASE ShutDown
    BY <1>1 DEF ShutDown, page, CacheInv, Filling, Filled
<1>2. ASSUME NEW release \in Releases, Start(release)
      PROVE  CacheInv'
    <2>1. place = "none" => Earlier(place) = {}
        BY DEF Earlier
    <2> QED
        BY <1>2, <2>1 DEF Start, page, CacheInv, Filling, Filled, AtScripts
<1>3. CASE Open
    <2> SUFFICES ASSUME ~cut'
                 PROVE  Filling' \/ Filled'
        BY DEF CacheInv
    <2>1. /\ ~cut /\ place \notin Scripts /\ place' = FirstScript
          /\ ran' = [s \in Scripts |-> Missing] /\ cache' = cache /\ version' = version
        BY <1>3 DEF Open, AtScripts, server
    <2>2. CASE Filled
        BY <2>1, <2>2 DEF Filled, Releases
    <2>3. CASE Filling
        <3>1. Earlier(place) = {} /\ Earlier(place') = {} /\ place' \in Scripts
            BY <2>1 DEF Earlier, FirstScript, Scripts
        <3> QED
            BY <2>1, <2>3, <3>1 DEF Filling
    <2> QED
        BY <2>1, <2>2, <2>3 DEF CacheInv
<1>4. ASSUME NEW script \in Scripts, Run(script)
      PROVE  CacheInv'
    BY <1>4, RunKeepsCache
<1>5. CASE Onload \/ ShowSchema
    <2>1. /\ place \in {"onload", "schema"}
          /\ UNCHANGED <<cache, ran, version, cut>>
        BY <1>5 DEF Onload, ShowSchema, server
    <2>2. ~Filling
        BY <2>1 DEF Filling, Scripts
    <2> QED
        BY <2>1, <2>2 DEF CacheInv, Filled
<1>6. CASE EmptyCache
    <2>1. Earlier(place') = {}
        BY <1>6 DEF EmptyCache, Earlier
    <2> QED
        BY <1>6, <2>1 DEF EmptyCache, CacheInv, Filling
<1>7. CASE UNCHANGED vars
    BY <1>7 DEF vars, server, page, CacheInv, Filling, Filled
<1> QED
    BY <1>1, <1>2, <1>3, <1>4, <1>5, <1>6, <1>7 DEF Next, Load

\* For any number of releases and visits, a page whose loading nothing ever cut
\* in two runs scripts of one release, however long the browser keeps them.
THEOREM NoMixture == Spec => []OneRelease
<1>1. CacheInv /\ TypeOK => OneRelease
    BY DEF CacheInv, Filling, Filled, OneRelease, Has
<1> QED
    BY <1>1, InitTypeOK, TypeStep, InitCacheInv, CacheStep, PTL DEF Spec

-----------------------------------------------------------------------------
(* The schema.                                                             *)

SchemaInv == started <= version /\ SchemaIsCurrent

\* No step puts an older schema on display.
LEMMA SchemaStep == TypeOK /\ SchemaInv /\ [Next]_vars => SchemaInv'
<1> SUFFICES ASSUME TypeOK, SchemaInv, [Next]_vars
             PROVE  SchemaInv'
    OBVIOUS
<1> USE DEF SchemaInv, SchemaIsCurrent, TypeOK, Releases, Missing, server, page
<1>1. ASSUME NEW release \in Releases, Start(release)
      PROVE  SchemaInv'
    <2>1. release \in {version, version + 1} /\ version' = release
        BY <1>1 DEF Start
    <2> QED
        BY <1>1, <2>1, BoundsTyped DEF Start
<1>2. ASSUME NEW script \in Scripts, Run(script)
      PROVE  SchemaInv'
    BY <1>2 DEF Run
<1>3. CASE ShutDown \/ Onload \/ EmptyCache
    BY <1>3 DEF ShutDown, Onload, EmptyCache
<1>4. CASE Open
    BY <1>4, BoundsTyped DEF Open
<1>5. CASE ShowSchema
    BY <1>5, BoundsTyped DEF ShowSchema
<1>6. CASE UNCHANGED vars
    BY <1>6 DEF vars
<1> QED
    BY <1>1, <1>2, <1>3, <1>4, <1>5, <1>6 DEF Next, Load

\* For any number of releases and visits, the schema on display is at least as
\* new as the page, though the scripts that display it may be older.
THEOREM SchemaCurrent == Spec => []SchemaIsCurrent
<1>1. Init => SchemaInv
    BY DEF Init, SchemaInv, SchemaIsCurrent
<1>2. SchemaInv => SchemaIsCurrent
    BY DEF SchemaInv
<1> QED
    BY <1>1, <1>2, InitTypeOK, TypeStep, SchemaStep, PTL DEF Spec
=============================================================================
